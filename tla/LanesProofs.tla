---------------------------- MODULE LanesProofs ----------------------------
(***************************************************************************)
(* What the correlation engine and the lanes that feed it guarantee for    *)
(* every set of hosts and alerts, every capacity and every window, proved  *)
(* with TLAPS.  The engine comes first, on its own (Correlation's Spec);   *)
(* then the lanes, whose every step is a step of the engine or none        *)
(* (LanesRefineCorrelation), and with it all that holds of the engine      *)
(* holds of the orchestrator.                                              *)
(***************************************************************************)
EXTENDS Lanes, SequenceTheorems, FiniteSetTheorems, WellFoundedInduction, TLAPS

---------------------------------------------------------------------------
(* Lemmas about the record operators                                       *)

\* An event's severity band and clamped confidence are in range.
LEMMA ScoreRange ==
    ASSUME NEW score \in Int
    PROVE  ScoreSeverity(score) \in Severity /\ Clamp(score) \in Confidence
BY DEF ScoreSeverity, Clamp, Severity, Confidence, Low, Medium, High, Critical

\* The first half of a submission builds a well-typed event.
LEMMA NewEventType ==
    ASSUME TypeOK, NEW h \in Hosts, NEW l \in Lanes, NEW s \in Severity,
           NEW c \in Confidence
    PROVE  /\ NewEvent(h, l, s, c) \in Event
           /\ NewEvent(h, l, s, c).observed_at = now
           /\ NewEvent(h, l, s, c).id = submitted
BY DEF NewEvent, Event, TypeOK

\* push keeps a record well-typed and puts the new event last.
LEMMA PushType ==
    ASSUME NEW r \in HostRecord, NEW e \in Event
    PROVE  /\ Push(r, e) \in HostRecord
           /\ Push(r, e).evidence # <<>>
           /\ Push(r, e).evidence[Len(Push(r, e).evidence)] = e
           /\ Push(r, e).finalized = r.finalized
           /\ Push(r, e).last_seen = e.observed_at
<1> DEFINE kept == IF Len(r.evidence) >= MaxEvidence THEN Tail(r.evidence)
                   ELSE r.evidence
<1>1. r.evidence \in Seq(Event)
  BY DEF HostRecord
<1>2. MaxEvidence \in Nat \ {0}
  BY CorrelationAssumption
<1>3. kept \in Seq(Event)
  BY <1>1, <1>2
<1>4. Push(r, e) = [r EXCEPT !.last_seen = e.observed_at,
                             !.evidence = Append(kept, e)]
  BY DEF Push, HostRecord
<1> HIDE DEF kept
<1>5. Append(kept, e) \in Seq(Event) /\ Append(kept, e) # <<>>
      /\ Append(kept, e)[Len(Append(kept, e))] = e
  BY <1>3
<1> QED
  BY <1>4, <1>5 DEF HostRecord, Event

\* What handle_event files an event into is a well-typed record that ends with it.
LEMMA FusedType ==
    ASSUME TypeOK, chan # <<>>
    PROVE  /\ Incoming \in Event
           /\ Incoming.handled_at = now
           /\ Incoming.observed_at = Head(chan).observed_at
           /\ Fused \in HostRecord
           /\ Fused.evidence # <<>>
           /\ Fused.evidence[Len(Fused.evidence)] = Incoming
           /\ Fused.last_seen = Incoming.observed_at
<1>1. Head(chan) \in Event
  BY DEF TypeOK
<1>2. now \in Nat
  BY DEF TypeOK
<1>3. /\ Incoming \in Event
      /\ Incoming.handled_at = now
      /\ Incoming.observed_at = Head(chan).observed_at
  BY <1>1, <1>2 DEF Incoming, Event
<1>4. state[Incoming.host] \in HostRecord
  BY <1>3 DEF TypeOK, Event
<1>5. CASE Occupied(state, Incoming.host)
  BY <1>3, <1>4, <1>5, PushType DEF Fused, Recorded
<1>6. CASE ~Occupied(state, Incoming.host)
  <2>1. NewRecord(Incoming).evidence = <<Incoming>>
    BY DEF NewRecord
  <2>2. <<Incoming>> \in Seq(Event) /\ <<Incoming>> # <<>>
        /\ <<Incoming>>[Len(<<Incoming>>)] = Incoming
    BY <1>3
  <2>3. Fused = NewRecord(Incoming)
    BY <1>6 DEF Fused, Recorded
  <2> QED
    BY <1>3, <2>1, <2>2, <2>3 DEF NewRecord, HostRecord, Event
<1> QED
  BY <1>3, <1>5, <1>6

\* A record's highest severity exists as soon as there is evidence.
LEMMA MaxSeverityType ==
    ASSUME NEW r \in HostRecord, r.evidence # <<>>
    PROVE  MaxSeverity(r) \in Severity
<1>1. \A e \in EvidenceSet(r) : e \in Event
  BY DEF EvidenceSet, HostRecord
<1>2. \A e \in EvidenceSet(r) : e.severity \in Severity
  BY <1>1 DEF Event
<1>3. r.evidence[1] \in EvidenceSet(r)
  BY DEF EvidenceSet, HostRecord
<1>4. HasSeverity(r, r.evidence[1].severity)
  BY <1>3 DEF HasSeverity
<1>5. \E s \in Severity : HasSeverity(r, s) /\ \A e \in EvidenceSet(r) : e.severity <= s
  <2>1. Severity = {1, 2, 3, 4}
    BY DEF Severity, Low, Critical
  <2>2. HasSeverity(r, 1) \/ HasSeverity(r, 2) \/ HasSeverity(r, 3) \/ HasSeverity(r, 4)
    BY <1>2, <1>3, <1>4, <2>1
  <2>3. \A e \in EvidenceSet(r) : HasSeverity(r, e.severity)
    BY DEF HasSeverity
  <2> QED
    BY <1>2, <2>1, <2>2, <2>3
<1> QED
  BY <1>5 DEF MaxSeverity

\* A verdict built from a record with a reason is well-typed.
LEMMA VerdictType ==
    ASSUME NEW h \in Hosts, NEW r \in HostRecord, r.evidence # <<>>,
           Reason(r) # "None", now \in Nat
    PROVE  VerdictOf(h, r) \in Verdict
<1>1. MaxSeverity(r) \in Severity
  BY MaxSeverityType
<1>2. DistinctSources(r) \in SUBSET Lanes
  <2>1. \A e \in EvidenceSet(r) : e \in Event
    BY DEF EvidenceSet, HostRecord
  <2> QED
    BY <2>1 DEF DistinctSources, Event
<1>3. Reason(r) \in {"MultiLaneCorroboration", "SingleLaneCritical"}
  BY DEF Reason
<1> QED
  BY <1>1, <1>2, <1>3 DEF VerdictOf, Verdict, HostRecord

\* A host's record after handle_event: evicted, untouched, or the fused one.
LEMMA HandleState ==
    ASSUME TypeOK, HandleEvent
    PROVE  /\ state' \in [Hosts -> HostRecord]
           /\ \A h \in Hosts :
                 \/ state'[h] = Vacant
                 \/ h # Incoming.host /\ state'[h] = state[h]
                 \/ h = Incoming.host /\ ~Emits(Fused) /\ state'[h] = Fused
                 \/ /\ h = Incoming.host /\ Emits(Fused)
                    /\ state'[h] = [Fused EXCEPT !.finalized = TRUE]
<1>1. chan # <<>> /\ state' \in EnforceCapacity(Filed)
  BY DEF HandleEvent
<1>2. Incoming \in Event /\ Fused \in HostRecord
  BY <1>1, FusedType
<1>3. Incoming.host \in Hosts
  BY <1>2 DEF Event
<1>4. Vacant \in HostRecord
  BY DEF Vacant, HostRecord
<1>5. [Fused EXCEPT !.finalized = TRUE] \in HostRecord
  BY <1>2 DEF HostRecord
<1>6. state \in [Hosts -> HostRecord]
  BY DEF TypeOK
<1>7. /\ Filed \in [Hosts -> HostRecord]
      /\ \A h \in Hosts \ {Incoming.host} : Filed[h] = state[h]
      /\ Emits(Fused) => Filed[Incoming.host] = [Fused EXCEPT !.finalized = TRUE]
      /\ ~Emits(Fused) => Filed[Incoming.host] = Fused
  BY <1>2, <1>3, <1>5, <1>6 DEF Filed, Finalize
<1>8. \/ state' = Filed
      \/ \E g \in Hosts : state' = [Filed EXCEPT ![g] = Vacant]
  BY <1>1 DEF EnforceCapacity, Oldest, Tracked
<1> QED
  BY <1>4, <1>7, <1>8

---------------------------------------------------------------------------
(* Type correctness                                                        *)

\* Building an event, the first half of every lane's submit, keeps the types.
LEMMA StageType ==
    ASSUME TypeOK, NEW e \in Event, Stage(e)
    PROVE  TypeOK'
<1>1. <<e>> \in Seq(Event)
  OBVIOUS
<1>2. e.source \in Lanes
  BY DEF Event
<1>3. staged' \in [Lanes -> Seq(Event)]
  BY <1>1, <1>2 DEF Stage, TypeOK
<1> QED
  BY <1>3 DEF Stage, TypeOK

\* Each lane's submit keeps the types, whatever severity and score it was given.
LEMMA SubmitType ==
    ASSUME TypeOK, Submit
    PROVE  \E e \in Event : e.observed_at = now /\ e.id = submitted /\ Stage(e)
<1> PICK host \in Hosts :
        \/ \E approved \in BOOLEAN : XdpSubmit(host, approved)
        \/ \E quarantined \in BOOLEAN : ClamAvSubmit(host, quarantined)
        \/ \E score \in Scores : SpectralSubmit(host, score)
  BY DEF Submit
<1>1. /\ "Xdp" \in Lanes /\ "ClamAv" \in Lanes /\ "Spectral" \in Lanes
      /\ Medium \in Severity /\ High \in Severity /\ Critical \in Severity
      /\ 6 \in Confidence /\ 10 \in Confidence
  BY DEF Lanes, Severity, Confidence, Low, Medium, High, Critical
<1>2. ASSUME NEW approved \in BOOLEAN, XdpSubmit(host, approved)
      PROVE  \E e \in Event : e.observed_at = now /\ e.id = submitted /\ Stage(e)
  BY <1>1, <1>2, NewEventType DEF XdpSubmit
<1>3. ASSUME NEW quarantined \in BOOLEAN, ClamAvSubmit(host, quarantined)
      PROVE  \E e \in Event : e.observed_at = now /\ e.id = submitted /\ Stage(e)
  BY <1>1, <1>3, NewEventType DEF ClamAvSubmit
<1>4. ASSUME NEW score \in Scores, SpectralSubmit(host, score)
      PROVE  \E e \in Event : e.observed_at = now /\ e.id = submitted /\ Stage(e)
  <2>1. score \in Int
    BY CorrelationAssumption
  <2> QED
    BY <1>1, <1>4, <2>1, ScoreRange, NewEventType DEF SpectralSubmit
<1> QED
  BY <1>2, <1>3, <1>4

\* try_send keeps the types, on a full or closed channel too.
LEMMA TrySendType ==
    ASSUME TypeOK, NEW l \in Lanes, TrySend(l)
    PROVE  TypeOK'
<1>1. staged[l] \in Seq(Event) /\ staged[l] # <<>>
  BY DEF TrySend, TypeOK
<1>2. Head(staged[l]) \in Event
  BY <1>1
<1>3. staged' \in [Lanes -> Seq(Event)]
  BY DEF TrySend, TypeOK
<1>4. chan' \in Seq(Event)
  <2>1. chan \in Seq(Event)
    BY DEF TypeOK
  <2>2. Append(chan, Head(staged[l])) \in Seq(Event)
    BY <1>2, <2>1
  <2> QED
    BY <2>1, <2>2 DEF TrySend
<1>5. metrics' \in Metrics
  <2>1. metrics \in Metrics
    BY DEF TypeOK
  <2>2. CountDrop(l) \in Metrics
    BY <2>1 DEF CountDrop, Metrics
  <2> QED
    BY <2>1, <2>2 DEF TrySend
<1> QED
  BY <1>3, <1>4, <1>5 DEF TrySend, TypeOK

\* handle_event, with the verdict it may emit and the eviction it may cause, keeps
\* the types.
LEMMA HandleEventType ==
    ASSUME TypeOK, HandleEvent
    PROVE  TypeOK'
<1>1. chan # <<>> /\ chan' = Tail(chan)
  BY DEF HandleEvent
<1>2. Incoming \in Event /\ Fused \in HostRecord /\ Fused.evidence # <<>>
  BY <1>1, FusedType
<1>3. Emits(Fused) => VerdictOf(Incoming.host, Fused) \in Verdict
  BY <1>2, VerdictType DEF Emits, Event, TypeOK
<1>4. chan' \in Seq(Event)
  BY <1>1 DEF TypeOK
<1>5. state' \in [Hosts -> HostRecord]
  BY HandleState
<1>6. out' \in Seq(Verdict)
  BY <1>3 DEF HandleEvent, TypeOK
<1>7. decided' \in SUBSET Verdict
  BY <1>3 DEF HandleEvent, TypeOK
<1>8. metrics' \in Metrics
  <2>1. metrics \in Metrics
    BY DEF TypeOK
  <2>2. \A b : Count(b) \in Nat
    BY DEF Count
  <2>3. PICK e \in Nat, d \in Nat, c \in Nat :
          metrics' = [events_received |-> metrics.events_received + 1,
                      verdicts_emitted |-> metrics.verdicts_emitted + e,
                      verdicts_dropped |-> metrics.verdicts_dropped + d,
                      hosts_evicted_ttl |-> metrics.hosts_evicted_ttl,
                      hosts_evicted_capacity |-> metrics.hosts_evicted_capacity + c,
                      dropped |-> metrics.dropped]
    BY <2>2, Zenon DEF HandleEvent
  <2> QED
    BY <2>1, <2>3 DEF Metrics
<1> QED
  BY <1>4, <1>5, <1>6, <1>7, <1>8 DEF HandleEvent, TypeOK

\* sweep_expired keeps the types.
LEMMA SweepType ==
    ASSUME TypeOK, SweepExpired
    PROVE  TypeOK'
<1> DEFINE gone == {h \in Tracked(state) : Expired(state[h])}
<1>1. Cardinality(gone) \in Nat
  <2>1. IsFiniteSet(Hosts) /\ gone \subseteq Hosts
    BY CorrelationAssumption DEF Tracked
  <2> QED
    BY <2>1, FS_Subset, FS_CardinalityType
<1>2. metrics' = [metrics EXCEPT !.hosts_evicted_ttl = @ + Cardinality(gone)]
  BY DEF SweepExpired
<1>3. state' = [h \in Hosts |-> IF h \in gone THEN Vacant ELSE state[h]]
  BY DEF SweepExpired
<1> HIDE DEF gone
<1>4. metrics' \in Metrics
  <2>1. metrics \in Metrics
    BY DEF TypeOK
  <2> QED
    BY <1>1, <1>2, <2>1 DEF Metrics
<1>5. Vacant \in HostRecord
  BY DEF Vacant, HostRecord
<1>6. state' \in [Hosts -> HostRecord]
  BY <1>3, <1>5 DEF TypeOK
<1>7. nextSweep' \in Nat
  BY CorrelationAssumption DEF SweepExpired, NextTick, TypeOK
<1> QED
  BY <1>4, <1>6, <1>7 DEF SweepExpired, TypeOK

\* Every reachable state is well-typed: whatever the lanes submit, in whatever
\* order the channel carries it, confidences stay in 0..1 and verdicts have a
\* severity, a reason and evidence of known lanes.
THEOREM TypeCorrect == Spec => []TypeOK
<1>1. Init => TypeOK
  <2> SUFFICES ASSUME Init PROVE TypeOK
    OBVIOUS
  <2>1. Vacant \in HostRecord
    BY DEF Vacant, HostRecord
  <2>2. metrics \in Metrics
    BY DEF Init, Metrics
  <2>3. <<>> \in Seq(Event) /\ <<>> \in Seq(Verdict)
    OBVIOUS
  <2> QED
    BY <2>1, <2>2, <2>3 DEF Init, TypeOK
<1>2. TypeOK /\ [Next]_vars => TypeOK'
  <2> SUFFICES ASSUME TypeOK, [Next]_vars PROVE TypeOK'
    OBVIOUS
  <2>1. CASE Submit
    BY <2>1, SubmitType, StageType
  <2>2. ASSUME NEW l \in Lanes, TrySend(l) PROVE TypeOK'
    BY <2>2, TrySendType
  <2>3. ASSUME NEW l \in Lanes, DropSender(l) PROVE TypeOK'
    BY <2>3 DEF DropSender, TypeOK
  <2>4. CASE HandleEvent
    BY <2>4, HandleEventType
  <2>5. CASE SweepExpired
    BY <2>5, SweepType
  <2>6. CASE Shutdown
    <3>1. Vacant \in HostRecord
      BY DEF Vacant, HostRecord
    <3> QED
      BY <2>6, <3>1 DEF Shutdown, TypeOK
  <2>7. CASE Consume
    BY <2>7 DEF Consume, TypeOK
  <2>8. CASE CloseOut
    <3>1. <<>> \in Seq(Verdict)
      OBVIOUS
    <3> QED
      BY <2>8, <3>1 DEF CloseOut, TypeOK
  <2>9. CASE Tick
    BY <2>9 DEF Tick, TypeOK
  <2>10. CASE UNCHANGED vars
    BY <2>10 DEF vars, TypeOK
  <2> QED
    BY <2>1, <2>2, <2>3, <2>4, <2>5, <2>6, <2>7, <2>8, <2>9, <2>10 DEF Next
<1> QED
  BY <1>1, <1>2, PTL DEF Spec

---------------------------------------------------------------------------
(* How far apart fused evidence can lie                                    *)

Newest(r) == r.evidence[Len(r.evidence)]

Gapped(evidence) ==
    \A i \in 1..(Len(evidence) - 1) :
        evidence[i + 1].handled_at - evidence[i].handled_at < Window + SweepInterval

\* A record that is still there was kept by every sweep since its newest event.
FreshRecord(r) ==
    /\ Newest(r).handled_at <= now
    /\ r.last_seen <= Newest(r).handled_at
    /\ nextSweep <= Newest(r).handled_at + Window + SweepInterval
    /\ Gapped(r.evidence)

LagInv ==
    /\ nextSweep <= now + SweepInterval
    /\ \A l \in Lanes : \A i \in DOMAIN staged[l] : staged[l][i].observed_at <= now
    /\ \A i \in DOMAIN chan : chan[i].observed_at <= now
    /\ \A h \in Hosts : Occupied(state, h) => FreshRecord(state[h])
    /\ \A v \in decided : Gapped(v.evidence)

\* push keeps neighbouring evidence close when the new event is close to the
\* newest one.
LEMMA PushGapped ==
    ASSUME NEW r \in HostRecord, NEW e \in Event, r.evidence # <<>>,
           Gapped(r.evidence),
           e.handled_at - Newest(r).handled_at < Window + SweepInterval
    PROVE  Gapped(Push(r, e).evidence)
<1> DEFINE kept == IF Len(r.evidence) >= MaxEvidence THEN Tail(r.evidence)
                   ELSE r.evidence
<1>1. r.evidence \in Seq(Event) /\ Len(r.evidence) > 0
  BY DEF HostRecord
<1>2. MaxEvidence \in Nat \ {0}
  BY CorrelationAssumption
<1>3. Push(r, e).evidence = Append(kept, e)
  BY DEF Push, HostRecord
<1>4. /\ kept \in Seq(Event)
      /\ Gapped(kept)
      /\ Len(kept) > 0 => kept[Len(kept)] = Newest(r)
  <2>1. CASE Len(r.evidence) >= MaxEvidence
    <3> DEFINE tail == Tail(r.evidence)
    <3>1. kept = tail
      BY <2>1
    <3>2. /\ tail \in Seq(Event) /\ Len(tail) = Len(r.evidence) - 1
          /\ \A i \in 1..Len(tail) : tail[i] = r.evidence[i + 1]
      BY <1>1, HeadTailProperties
    <3> HIDE DEF tail, kept
    <3>3. Gapped(tail)
      BY <1>1, <3>2 DEF Gapped
    <3> QED
      BY <1>1, <3>1, <3>2, <3>3 DEF Newest
  <2>2. CASE ~(Len(r.evidence) >= MaxEvidence)
    BY <1>1, <2>2 DEF Newest
  <2> QED
    BY <2>1, <2>2
<1> HIDE DEF kept
<1>5. \A i \in 1..Len(kept) : Append(kept, e)[i] = kept[i]
  BY <1>4
<1>6. /\ Len(Append(kept, e)) = Len(kept) + 1
      /\ Append(kept, e)[Len(kept) + 1] = e
      /\ Len(kept) \in Nat
  BY <1>4
<1>7. Gapped(Append(kept, e))
  BY <1>4, <1>5, <1>6 DEF Gapped
<1> QED
  BY <1>3, <1>7

\* The record handle_event files an event into is fresh.
LEMMA FusedFresh ==
    ASSUME TypeOK, LagInv, HandleEvent
    PROVE  FreshRecord(Fused)
<1>1. chan # <<>> /\ ~SweepDue
  BY DEF HandleEvent, EventBranch
<1>2. /\ Incoming \in Event
      /\ Incoming.handled_at = now
      /\ Incoming.observed_at = Head(chan).observed_at
      /\ Newest(Fused) = Incoming
      /\ Fused.last_seen = Incoming.observed_at
  BY <1>1, FusedType DEF Newest
<1>3. Head(chan).observed_at <= now
  <2>1. 1 \in DOMAIN chan /\ Head(chan) = chan[1]
    BY <1>1 DEF TypeOK
  <2> QED
    BY <2>1 DEF LagInv
<1>4. now \in Nat /\ nextSweep \in Nat /\ Window \in Nat /\ SweepInterval \in Nat
  BY CorrelationAssumption DEF TypeOK
<1>5. nextSweep <= now + Window + SweepInterval
  BY <1>4 DEF LagInv
<1>6. Gapped(Fused.evidence)
  <2>1. CASE Occupied(state, Incoming.host)
    <3>1. Incoming.host \in Hosts /\ state[Incoming.host] \in HostRecord
      BY <1>2 DEF Event, TypeOK
    <3>2. FreshRecord(state[Incoming.host])
      BY <2>1, <3>1 DEF LagInv
    <3>3. Newest(state[Incoming.host]) \in Event
      BY <2>1, <3>1 DEF Newest, HostRecord, Occupied
    <3>4. Newest(state[Incoming.host]).handled_at \in Nat
      BY <3>3 DEF Event
    <3>5. now - Newest(state[Incoming.host]).handled_at < Window + SweepInterval
      BY <1>1, <1>4, <3>2, <3>4 DEF FreshRecord, SweepDue
    <3> QED
      BY <1>2, <2>1, <3>1, <3>2, <3>5, PushGapped
         DEF Fused, Recorded, FreshRecord, Occupied
  <2>2. CASE ~Occupied(state, Incoming.host)
    <3>1. Fused.evidence = <<Incoming>>
      BY <2>2 DEF Fused, Recorded, NewRecord
    <3> QED
      BY <3>1 DEF Gapped
  <2> QED
    BY <2>1, <2>2
<1> QED
  BY <1>2, <1>3, <1>4, <1>5, <1>6 DEF FreshRecord, Event

\* Every step of the system preserves the invariant behind SweepLagBound: a record
\* in the map was touched less than window + sweep_interval ago, counted from the
\* last sweep that could have evicted it.
LEMMA LagStep ==
    ASSUME TypeOK, LagInv, [Next]_vars
    PROVE  LagInv'
<1> USE CorrelationAssumption
<1>0. /\ now \in Nat /\ nextSweep \in Nat /\ Window \in Nat
      /\ SweepInterval \in Nat \ {0}
  BY DEF TypeOK
<1>1. ASSUME NEW e \in Event, e.observed_at = now, Stage(e) PROVE LagInv'
  <2>1. staged' = [staged EXCEPT ![e.source] = <<e>>] /\ e.source \in Lanes
    BY <1>1 DEF Stage, Event
  <2>2. \A l \in Lanes : \A i \in DOMAIN staged'[l] : staged'[l][i].observed_at <= now
    BY <1>0, <1>1, <2>1 DEF LagInv, TypeOK
  <2> QED
    BY <1>1, <2>2 DEF Stage, LagInv, FreshRecord, Occupied
<1>2. ASSUME NEW l \in Lanes, TrySend(l) PROVE LagInv'
  <2>1. staged[l] \in Seq(Event) /\ staged[l] # <<>> /\ chan \in Seq(Event)
    BY <1>2 DEF TrySend, TypeOK
  <2>2. Head(staged[l]).observed_at <= now
    BY <2>1 DEF LagInv
  <2>3. \A i \in DOMAIN chan' : chan'[i].observed_at <= now
    <3>1. CASE chan' = chan
      BY <3>1 DEF LagInv
    <3>2. CASE chan' = Append(chan, Head(staged[l]))
      BY <2>1, <2>2, <3>2 DEF LagInv
    <3> QED
      BY <1>2, <3>1, <3>2 DEF TrySend
  <2>4. \A k \in Lanes : \A i \in DOMAIN staged'[k] : staged'[k][i].observed_at <= now
    BY <1>2 DEF TrySend, LagInv, TypeOK
  <2> QED
    BY <1>2, <2>3, <2>4 DEF TrySend, LagInv, FreshRecord, Occupied
<1>3. ASSUME NEW l \in Lanes, DropSender(l) PROVE LagInv'
  BY <1>3 DEF DropSender, LagInv, FreshRecord, Occupied
<1>4. CASE HandleEvent
  <2>1. FreshRecord(Fused)
    BY <1>4, FusedFresh
  <2>2. /\ chan # <<>> /\ chan' = Tail(chan) /\ now' = now /\ nextSweep' = nextSweep
        /\ staged' = staged
    BY <1>4 DEF HandleEvent
  <2>3. Fused \in HostRecord
    BY <2>2, FusedType
  <2>4. \A i \in DOMAIN chan' : chan'[i].observed_at <= now
    <3>1. /\ Len(chan') = Len(chan) - 1
          /\ \A i \in 1..Len(chan') : chan'[i] = chan[i + 1]
          /\ chan' \in Seq(Event) /\ chan \in Seq(Event)
      BY <2>2, HeadTailProperties DEF TypeOK
    <3>2. \A i \in 1..Len(chan) : chan[i].observed_at <= now
      BY <3>1, LenProperties DEF LagInv
    <3>3. DOMAIN chan' = 1..Len(chan') /\ Len(chan) \in Nat /\ Len(chan') \in Nat
      BY <3>1, LenProperties
    <3>4. \A i \in 1..Len(chan') : i + 1 \in 1..Len(chan)
      BY <3>1, <3>3
    <3> QED
      BY <3>1, <3>2, <3>3, <3>4
  <2>5. FreshRecord([Fused EXCEPT !.finalized = TRUE])
    BY <2>1, <2>3 DEF FreshRecord, Newest, HostRecord
  <2>6. ASSUME NEW h \in Hosts, Occupied(state', h)
        PROVE  FreshRecord(state'[h])
    <3>1. state'[h] # Vacant
      BY <2>6 DEF Occupied, Vacant
    <3>2. CASE h # Incoming.host /\ state'[h] = state[h]
      BY <2>6, <3>2 DEF LagInv, Occupied
    <3> QED
      BY <1>4, <2>1, <2>5, <3>1, <3>2, HandleState
  <2>7. \A h \in Hosts : Occupied(state', h) => FreshRecord(state[h])'
    BY <2>2, <2>6 DEF FreshRecord
  <2>8. \A v \in decided' : Gapped(v.evidence)
    <3>1. VerdictOf(Incoming.host, Fused).evidence = Fused.evidence
      BY DEF VerdictOf
    <3>2. \A v \in decided' : v \in decided \/ v = VerdictOf(Incoming.host, Fused)
      BY <1>4 DEF HandleEvent
    <3> QED
      BY <2>1, <3>1, <3>2 DEF FreshRecord, LagInv
  <2> QED
    BY <2>2, <2>4, <2>7, <2>8 DEF LagInv, Occupied
<1>5. CASE SweepExpired
  <2>1. /\ now >= nextSweep /\ nextSweep' = nextSweep + SweepInterval
        /\ now' = now /\ chan' = chan /\ staged' = staged /\ decided' = decided
        /\ state' = [h \in Hosts |-> IF h \in Tracked(state) /\ Expired(state[h])
                                      THEN Vacant ELSE state[h]]
    BY <1>5 DEF SweepExpired, SweepDue, NextTick
  <2>2. ASSUME NEW h \in Hosts, Occupied(state', h)
        PROVE  FreshRecord(state[h])'
    <3>1. state'[h] = state[h] /\ h \in Tracked(state) /\ ~Expired(state[h])
      BY <2>1, <2>2 DEF Occupied, Vacant, Tracked
    <3>2. FreshRecord(state[h])
      BY <3>1 DEF LagInv, Tracked
    <3>3. Newest(state[h]).handled_at \in Nat /\ state[h].last_seen \in Nat
      <4>1. state[h] \in HostRecord /\ state[h].evidence # <<>>
        BY <3>1 DEF Tracked, Occupied, TypeOK
      <4>2. Newest(state[h]) \in Event
        BY <4>1 DEF Newest, HostRecord
      <4> QED
        BY <4>1, <4>2 DEF HostRecord, Event
    <3>4. nextSweep + SweepInterval <= Newest(state[h]).handled_at + Window + SweepInterval
      BY <1>0, <2>1, <3>1, <3>2, <3>3 DEF Expired, FreshRecord
    <3>5. Newest(state[h])' = Newest(state[h]) /\ state[h].last_seen' = state[h].last_seen
          /\ Gapped(state[h].evidence)'
      BY <3>1, <3>2 DEF Newest, FreshRecord, Gapped
    <3> QED
      BY <2>1, <3>2, <3>4, <3>5 DEF FreshRecord
  <2>3. nextSweep' <= now' + SweepInterval
    BY <1>0, <2>1
  <2> QED
    BY <2>1, <2>2, <2>3 DEF LagInv, Occupied
<1>6. CASE Shutdown
  <2>1. \A h \in Hosts : ~Occupied(state', h)
    BY <1>6 DEF Shutdown, Occupied, Vacant
  <2> QED
    BY <1>6, <2>1 DEF Shutdown, LagInv, Occupied
<1>7. CASE Consume
  BY <1>7 DEF Consume, LagInv, FreshRecord, Occupied
<1>8. CASE CloseOut
  BY <1>8 DEF CloseOut, LagInv, FreshRecord, Occupied
<1>9. CASE Tick
  <2>1. /\ now' = now + 1
        /\ UNCHANGED <<staged, chan, nextSweep, state, decided>>
    BY <1>9 DEF Tick
  <2>2. \A h \in Hosts : Occupied(state, h) => FreshRecord(state[h])'
    <3> SUFFICES ASSUME NEW h \in Hosts, Occupied(state, h) PROVE FreshRecord(state[h])'
      OBVIOUS
    <3>1. state[h] \in HostRecord /\ state[h].evidence # <<>>
      BY DEF Occupied, TypeOK
    <3>2. Newest(state[h]) \in Event
      BY <3>1 DEF Newest, HostRecord
    <3>3. Newest(state[h]).handled_at \in Nat
      BY <3>2 DEF Event
    <3>4. FreshRecord(state[h])
      BY DEF LagInv
    <3> QED
      BY <1>0, <2>1, <3>3, <3>4 DEF FreshRecord, Newest
  <2>3. \A l \in Lanes : \A i \in DOMAIN staged[l] : staged[l][i].observed_at <= now + 1
    <3> SUFFICES ASSUME NEW l \in Lanes, NEW i \in DOMAIN staged[l]
                 PROVE  staged[l][i].observed_at <= now + 1
      OBVIOUS
    <3>1. staged[l][i] \in Event
      BY DEF TypeOK
    <3> QED
      BY <1>0, <3>1 DEF LagInv, Event
  <2>4. \A i \in DOMAIN chan : chan[i].observed_at <= now + 1
    <3> SUFFICES ASSUME NEW i \in DOMAIN chan PROVE chan[i].observed_at <= now + 1
      OBVIOUS
    <3>1. chan[i] \in Event
      BY DEF TypeOK
    <3> QED
      BY <1>0, <3>1 DEF LagInv, Event
  <2>5. nextSweep <= now + 1 + SweepInterval
    BY <1>0 DEF LagInv
  <2> QED
    BY <2>1, <2>2, <2>3, <2>4, <2>5 DEF LagInv, Occupied
<1>10. CASE UNCHANGED vars
  BY <1>10 DEF vars, LagInv, FreshRecord, Occupied
<1>11. CASE Submit
  BY <1>1, <1>11, SubmitType
<1> QED
  BY <1>2, <1>3, <1>4, <1>5, <1>6, <1>7, <1>8, <1>9, <1>10, <1>11 DEF Next

\* However long events wait in the channel and however late a sweep runs, the
\* engine never fuses two neighbouring pieces of evidence handled window +
\* sweep_interval or more apart (run's biased select! and sweep_expired).
THEOREM SweepLagBound == Spec => []FusedWithinSweepLag
<1>1. Init => LagInv
  BY CorrelationAssumption DEF Init, LagInv, Occupied, Vacant
<1>2. TypeOK /\ LagInv /\ [Next]_vars => LagInv'
  BY LagStep
<1>3. LagInv => FusedWithinSweepLag
  BY DEF LagInv, FusedWithinSweepLag, Gapped
<1> QED
  BY <1>1, <1>2, <1>3, TypeCorrect, PTL DEF Spec
---------------------------------------------------------------------------
(* Every event counts exactly once                                         *)

\* The event is built and not yet received.
InFlight(id) ==
    \/ \E l \in Lanes : \E i \in DOMAIN staged[l] : staged[l][i].id = id
    \/ \E i \in DOMAIN chan : chan[i].id = id

\* A lane holds one event at a time, and no event is on its way twice.
QueuesDistinct ==
    /\ \A l \in Lanes : Len(staged[l]) <= 1
    /\ \A l \in Lanes : \A i \in DOMAIN staged[l] :
          /\ staged[l][i].id < submitted
          /\ \A k \in Lanes \ {l} : \A j \in DOMAIN staged[k] :
                staged[k][j].id # staged[l][i].id
          /\ \A j \in DOMAIN chan : chan[j].id # staged[l][i].id
    /\ \A i \in DOMAIN chan :
          /\ chan[i].id < submitted
          /\ \A j \in DOMAIN chan : j # i => chan[j].id # chan[i].id

\* The engine has received the event.
Spent(id) == id < submitted /\ ~InFlight(id)

\* Evidence was received; what an open record holds is in no other open record and
\* in no verdict, and does not warrant one.
EvidenceDistinct ==
    /\ \A h \in Hosts : \A id \in Ids(state[h].evidence) : Spent(id)
    /\ \A v \in decided : \A id \in Ids(v.evidence) : Spent(id)
    /\ \A h \in Hosts : ~state[h].finalized =>
          /\ \A g \in Hosts \ {h} : ~state[g].finalized =>
                Ids(state[h].evidence) \intersect Ids(state[g].evidence) = {}
          /\ \A v \in decided : Ids(state[h].evidence) \intersect Ids(v.evidence) = {}
    /\ \A h \in Hosts : ~state[h].finalized => Reason(state[h]) = "None"

CountInv ==
    /\ QueuesDistinct
    /\ EvidenceDistinct
    /\ EvidenceNotReused
    /\ IsFiniteSet(decided)
    /\ Accounting

\* The ids in the fused record: the new event's, and some of those the host's record
\* had, whose finalized flag it keeps.
LEMMA FusedIds ==
    ASSUME TypeOK, chan # <<>>
    PROVE  /\ Incoming.id = chan[1].id
           /\ Incoming.id \in Ids(Fused.evidence)
           /\ \A id \in Ids(Fused.evidence) :
                 \/ id = Incoming.id
                 \/ /\ id \in Ids(state[Incoming.host].evidence)
                    /\ Fused.finalized = state[Incoming.host].finalized
<1> DEFINE r == state[Incoming.host]
           kept == IF Len(r.evidence) >= MaxEvidence THEN Tail(r.evidence)
                   ELSE r.evidence
<1>1. /\ Incoming \in Event /\ Fused.evidence # <<>> /\ Fused \in HostRecord
      /\ Fused.evidence[Len(Fused.evidence)] = Incoming
  BY FusedType
<1>2. Incoming.id = chan[1].id
  <2>1. Head(chan) \in Event /\ Head(chan) = chan[1]
    BY DEF TypeOK
  <2> QED
    BY <2>1 DEF Incoming, Event
<1>3. Incoming.id \in Ids(Fused.evidence)
  <2>1. Fused.evidence \in Seq(Event)
    BY <1>1 DEF HostRecord
  <2>2. Len(Fused.evidence) \in DOMAIN Fused.evidence
    BY <1>1, <2>1
  <2> QED
    BY <1>1, <2>2 DEF Ids
<1>4. r \in HostRecord
  BY <1>1 DEF TypeOK, Event
<1>5. CASE Occupied(state, Incoming.host)
  <2>1. Fused.evidence = Append(kept, Incoming) /\ Fused.finalized = r.finalized
    BY <1>4, <1>5 DEF Fused, Recorded, Push, HostRecord
  <2>2. r.evidence \in Seq(Event) /\ r.evidence # <<>>
    BY <1>4, <1>5 DEF Occupied, HostRecord
  <2>3. kept \in Seq(Event) /\ \A i \in DOMAIN kept : \E j \in DOMAIN r.evidence : kept[i] = r.evidence[j]
    <3>1. CASE kept = r.evidence
      BY <2>2, <3>1
    <3>2. CASE kept = Tail(r.evidence)
      <4> DEFINE tail == Tail(r.evidence)
      <4>1. /\ tail \in Seq(Event) /\ Len(tail) = Len(r.evidence) - 1
            /\ \A i \in 1..Len(tail) : tail[i] = r.evidence[i + 1]
        BY <2>2, HeadTailProperties
      <4> HIDE DEF tail
      <4>2. \A i \in DOMAIN tail : i + 1 \in DOMAIN r.evidence
        BY <2>2, <4>1
      <4>3. kept = tail
        BY <3>2 DEF tail
      <4> HIDE DEF kept
      <4> QED
        BY <4>1, <4>2, <4>3
    <3> QED
      BY <3>1, <3>2
  <2> HIDE DEF kept, r
  <2>4. \A i \in DOMAIN Fused.evidence :
            Fused.evidence[i] = Incoming \/ \E j \in DOMAIN kept : Fused.evidence[i] = kept[j]
    BY <2>1, <2>3
  <2>5. \A i \in DOMAIN Fused.evidence :
            \/ Fused.evidence[i].id = Incoming.id
            \/ \E j \in DOMAIN r.evidence : Fused.evidence[i].id = r.evidence[j].id
    BY <2>3, <2>4
  <2>6. \A id \in Ids(Fused.evidence) : id = Incoming.id \/ id \in Ids(r.evidence)
    BY <2>5 DEF Ids
  <2> QED
    BY <1>2, <1>3, <2>1, <2>6 DEF r
<1>6. CASE ~Occupied(state, Incoming.host)
  <2>1. Fused.evidence = <<Incoming>>
    BY <1>6 DEF Fused, Recorded, NewRecord
  <2>2. \A id \in Ids(Fused.evidence) : id = Incoming.id
    BY <2>1 DEF Ids
  <2> QED
    BY <1>2, <1>3, <2>2
<1> QED
  BY <1>5, <1>6

Total(f) == f["Xdp"] + f["ClamAv"] + f["Spectral"]

Waiting == [l \in Lanes |-> Len(staged[l])]

\* The first half of Accounting.
Conserved ==
    submitted = Total(Waiting) + Len(chan) + metrics.events_received
                + Total(metrics.dropped)

LEMMA TotalType ==
    ASSUME NEW f \in [Lanes -> Nat]
    PROVE  Total(f) \in Nat
BY DEF Total, Lanes

\* A sum over the lanes changes as much as one of its terms.
LEMMA TotalAdds ==
    ASSUME NEW f \in [Lanes -> Nat], NEW g \in [Lanes -> Nat], NEW l \in Lanes,
           NEW d \in Int, g[l] = f[l] + d, \A k \in Lanes \ {l} : g[k] = f[k]
    PROVE  Total(g) = Total(f) + d
BY DEF Total, Lanes

LEMMA AccountingSum ==
    ASSUME NEW st \in [Lanes -> Seq(Event)], NEW ch \in Seq(Event), NEW m \in Metrics
    PROVE  Len(st["Xdp"]) + Len(st["ClamAv"]) + Len(st["Spectral"])
           + Len(ch) + m.events_received
           + m.dropped["Xdp"] + m.dropped["ClamAv"] + m.dropped["Spectral"]
           = Total([l \in Lanes |-> Len(st[l])]) + Len(ch) + m.events_received
             + Total(m.dropped)
<1>1. \A l \in Lanes : Len(st[l]) \in Nat /\ m.dropped[l] \in Nat
  BY DEF Metrics
<1>2. Len(ch) \in Nat /\ m.events_received \in Nat
  BY DEF Metrics
<1>3. Total([l \in Lanes |-> Len(st[l])])
        = Len(st["Xdp"]) + Len(st["ClamAv"]) + Len(st["Spectral"])
  BY DEF Total, Lanes
<1> QED
  BY <1>1, <1>2, <1>3 DEF Total, Lanes

\* Accounting in terms of the sums, in a state and in its successor.
LEMMA AccountingParts ==
    ASSUME TypeOK, TypeOK'
    PROVE  /\ Accounting => Conserved
           /\ Conserved' /\ Cardinality(decided') = metrics'.verdicts_emitted
                                                    + metrics'.verdicts_dropped
              => Accounting'
<1>1. /\ staged \in [Lanes -> Seq(Event)] /\ chan \in Seq(Event) /\ metrics \in Metrics
      /\ staged' \in [Lanes -> Seq(Event)] /\ chan' \in Seq(Event) /\ metrics' \in Metrics
  BY DEF TypeOK
<1>2. Accounting => Conserved
  <2>1. Len(staged["Xdp"]) + Len(staged["ClamAv"]) + Len(staged["Spectral"])
        + Len(chan) + metrics.events_received
        + metrics.dropped["Xdp"] + metrics.dropped["ClamAv"] + metrics.dropped["Spectral"]
        = Total(Waiting) + Len(chan) + metrics.events_received + Total(metrics.dropped)
    BY <1>1, AccountingSum DEF Waiting
  <2> QED
    BY <2>1 DEF Accounting, Conserved
<1>3. ASSUME Conserved', Cardinality(decided') = metrics'.verdicts_emitted
                                                 + metrics'.verdicts_dropped
      PROVE  Accounting'
  <2>1. Len(staged'["Xdp"]) + Len(staged'["ClamAv"]) + Len(staged'["Spectral"])
        + Len(chan') + metrics'.events_received
        + metrics'.dropped["Xdp"] + metrics'.dropped["ClamAv"] + metrics'.dropped["Spectral"]
        = Total(Waiting') + Len(chan') + metrics'.events_received + Total(metrics'.dropped)
    BY <1>1, AccountingSum DEF Waiting
  <2> QED
    BY <1>3, <2>1 DEF Accounting, Conserved
<1> QED
  BY <1>2, <1>3

\* Building an event gives it a fresh id.
LEMMA StageCounts ==
    ASSUME TypeOK, CountInv, NEW e \in Event, e.id = submitted, Stage(e)
    PROVE  CountInv'
<1> PICK lane \in Lanes : lane = e.source
  BY DEF Event
<1>1. /\ staged' = [staged EXCEPT ![lane] = <<e>>]
      /\ staged[lane] = <<>> /\ submitted' = submitted + 1
      /\ UNCHANGED <<chan, state, decided, metrics>>
  BY DEF Stage, Event
<1>2. submitted \in Nat /\ staged \in [Lanes -> Seq(Event)] /\ chan \in Seq(Event)
  BY DEF TypeOK
<1>3. \A l \in Lanes : \A i \in DOMAIN staged[l] : staged[l][i] \in Event
  BY <1>2
<1>4. \A l \in Lanes : \A i \in DOMAIN staged[l] :
          staged[l][i].id \in Nat /\ staged[l][i].id < submitted
  BY <1>3 DEF CountInv, QueuesDistinct, Event
<1>5. \A i \in DOMAIN chan : chan[i].id \in Nat /\ chan[i].id < submitted
  <2>1. \A i \in DOMAIN chan : chan[i] \in Event
    BY <1>2
  <2> QED
    BY <2>1 DEF CountInv, QueuesDistinct, Event
<1>6. /\ \A l \in Lanes \ {lane} : staged'[l] = staged[l]
      /\ staged'[lane] = <<e>>
      /\ DOMAIN staged'[lane] = {1} /\ staged'[lane][1] = e
  BY <1>1, <1>2
<1>0. /\ Len(staged'[lane]) \in Nat
      /\ Len(staged'[lane]) <= 1 /\ Len(staged'[lane]) >= 1
      /\ \A l \in Lanes \ {lane} : Len(staged'[l]) = Len(staged[l])
      /\ \A l \in Lanes : Len(staged[l]) \in Nat
  <2>1. Len(<<e>>) \in Nat /\ Len(<<e>>) <= 1 /\ Len(<<e>>) >= 1
    OBVIOUS
  <2>2. \A l \in Lanes : Len(staged[l]) \in Nat
    BY <1>2
  <2> QED
    BY <1>6, <2>1, <2>2, Zenon
<1>7. QueuesDistinct'
  <2>1. ASSUME NEW l \in Lanes PROVE Len(staged'[l]) <= 1
    <3>1. CASE l = lane
      BY <1>0, <3>1
    <3>2. CASE l # lane
      BY <1>0, <3>2 DEF CountInv, QueuesDistinct
    <3> QED
      BY <3>1, <3>2
  <2>2. ASSUME NEW l \in Lanes, NEW i \in DOMAIN staged'[l]
        PROVE  /\ staged'[l][i].id < submitted'
               /\ \A k \in Lanes \ {l} : \A j \in DOMAIN staged'[k] :
                     staged'[k][j].id # staged'[l][i].id
               /\ \A j \in DOMAIN chan' : chan'[j].id # staged'[l][i].id
    <3>1. CASE l = lane
      BY <1>1, <1>2, <1>4, <1>5, <1>6, <2>2, <3>1
    <3>2. CASE l # lane
      BY <1>1, <1>2, <1>4, <1>5, <1>6, <2>2, <3>2 DEF CountInv, QueuesDistinct
    <3> QED
      BY <3>1, <3>2
  <2>3. \A i \in DOMAIN chan' :
          /\ chan'[i].id < submitted'
          /\ \A j \in DOMAIN chan' : j # i => chan'[j].id # chan'[i].id
    BY <1>1, <1>2, <1>5 DEF CountInv, QueuesDistinct
  <2> QED
    BY <2>1, <2>2, <2>3 DEF QueuesDistinct
<1>8. \A id \in Nat : Spent(id) => Spent(id)'
  BY <1>1, <1>2, <1>6 DEF Spent, InFlight
<1>9. EvidenceDistinct'
  <2>1. \A h \in Hosts : Ids(state[h].evidence) \subseteq Nat
    <3>1. \A h \in Hosts : state[h].evidence \in Seq(Event)
      BY DEF TypeOK, HostRecord
    <3>2. \A h \in Hosts : \A i \in DOMAIN state[h].evidence : state[h].evidence[i] \in Event
      BY <3>1
    <3> QED
      BY <3>2 DEF Ids, Event
  <2>2. \A v \in decided : Ids(v.evidence) \subseteq Nat
    <3>1. \A v \in decided : v.evidence \in Seq(Event)
      BY DEF TypeOK, Verdict
    <3>2. \A v \in decided : \A i \in DOMAIN v.evidence : v.evidence[i] \in Event
      BY <3>1
    <3> QED
      BY <3>2 DEF Ids, Event
  <2>3. \A h \in Hosts : \A id \in Ids(state[h].evidence) : Spent(id)'
    BY <1>8, <2>1 DEF CountInv, EvidenceDistinct
  <2>4. \A v \in decided : \A id \in Ids(v.evidence) : Spent(id)'
    BY <1>8, <2>2 DEF CountInv, EvidenceDistinct
  <2> QED
    BY <1>1, <2>3, <2>4 DEF CountInv, EvidenceDistinct
<1>10. Accounting'
  <2>1. /\ Waiting \in [Lanes -> Nat] /\ Waiting' \in [Lanes -> Nat]
        /\ Waiting'[lane] = Waiting[lane] + 1
        /\ \A l \in Lanes \ {lane} : Waiting'[l] = Waiting[l]
    <3>1. Len(staged[lane]) = 0
      BY <1>1
    <3> QED
      BY <1>0, <3>1 DEF Waiting
  <2>2. Total(Waiting') = Total(Waiting) + 1
    BY <2>1, TotalAdds
  <2>3. /\ Total(Waiting) \in Nat /\ Len(chan) \in Nat
        /\ metrics.events_received \in Nat /\ Total(metrics.dropped) \in Nat
    BY <1>2, <2>1, TotalType DEF TypeOK, Metrics
  <2>4. TypeOK'
    BY StageType
  <2>5. Conserved'
    BY <1>1, <1>2, <2>2, <2>3, <2>4, AccountingParts DEF CountInv, Conserved
  <2>6. Cardinality(decided') = metrics'.verdicts_emitted + metrics'.verdicts_dropped
    BY <1>1 DEF CountInv, Accounting
  <2> QED
    BY <2>4, <2>5, <2>6, AccountingParts
<1> QED
  BY <1>1, <1>7, <1>9, <1>10 DEF CountInv, EvidenceNotReused

\* try_send moves the lane's event into the channel or counts it as dropped.
LEMMA TrySendCounts ==
    ASSUME TypeOK, CountInv, NEW lane \in Lanes, TrySend(lane)
    PROVE  CountInv'
<1> DEFINE e == Head(staged[lane])
<1>1. /\ staged[lane] # <<>> /\ staged' = [staged EXCEPT ![lane] = <<>>]
      /\ UNCHANGED <<submitted, state, decided>>
  BY DEF TrySend
<1>2. \/ chan' = Append(chan, e) /\ metrics' = metrics
      \/ chan' = chan /\ metrics' = CountDrop(lane)
  BY DEF TrySend
<1>3. submitted \in Nat /\ staged \in [Lanes -> Seq(Event)] /\ chan \in Seq(Event)
      /\ metrics \in Metrics
  BY DEF TypeOK
<1>4. /\ e \in Event /\ e = staged[lane][1] /\ 1 \in DOMAIN staged[lane]
      /\ Len(staged[lane]) >= 1 /\ Len(staged[lane]) <= 1 /\ Len(staged[lane]) \in Nat
  BY <1>1, <1>3 DEF CountInv, QueuesDistinct
<1> HIDE DEF e
<1>5. /\ \A l \in Lanes \ {lane} : staged'[l] = staged[l]
      /\ staged'[lane] = <<>> /\ DOMAIN staged'[lane] = {}
  BY <1>1, <1>3
<1>6. /\ \A i \in DOMAIN chan' : \/ i \in DOMAIN chan /\ chan'[i] = chan[i]
                                 \/ i = Len(chan) + 1 /\ chan'[i] = e
      /\ Len(chan) + 1 \notin DOMAIN chan
  BY <1>2, <1>3, <1>4
<1>7. QueuesDistinct'
  <2>1. ASSUME NEW l \in Lanes PROVE Len(staged'[l]) <= 1
    <3>1. CASE l = lane
      <4>1. Len(<<>>) <= 1
        OBVIOUS
      <4> QED
        BY <1>5, <3>1, <4>1, Zenon
    <3>2. CASE l # lane
      BY <1>5, <3>2 DEF CountInv, QueuesDistinct
    <3> QED
      BY <3>1, <3>2
  <2>2. ASSUME NEW l \in Lanes, NEW i \in DOMAIN staged'[l]
        PROVE  /\ staged'[l][i].id < submitted'
               /\ \A k \in Lanes \ {l} : \A j \in DOMAIN staged'[k] :
                     staged'[k][j].id # staged'[l][i].id
               /\ \A j \in DOMAIN chan' : chan'[j].id # staged'[l][i].id
    <3>1. l # lane /\ staged'[l] = staged[l] /\ i \in DOMAIN staged[l]
      BY <1>5, <2>2
    <3>2. /\ staged[l][i].id < submitted
          /\ \A k \in Lanes \ {l} : \A j \in DOMAIN staged[k] :
                staged[k][j].id # staged[l][i].id
          /\ \A j \in DOMAIN chan : chan[j].id # staged[l][i].id
      BY <3>1 DEF CountInv, QueuesDistinct
    <3>3. e.id # staged[l][i].id
      BY <1>4, <3>1, <3>2
    <3>4. \A j \in DOMAIN chan' : chan'[j].id # staged'[l][i].id
      BY <1>6, <3>1, <3>2, <3>3
    <3>5. \A k \in Lanes \ {l} : \A j \in DOMAIN staged'[k] :
              staged'[k][j].id # staged'[l][i].id
      BY <1>5, <3>1, <3>2
    <3> QED
      BY <1>1, <3>1, <3>2, <3>4, <3>5
  <2>3. ASSUME NEW i \in DOMAIN chan'
        PROVE  /\ chan'[i].id < submitted'
               /\ \A j \in DOMAIN chan' : j # i => chan'[j].id # chan'[i].id
    <3>1. e.id < submitted /\ \A j \in DOMAIN chan : chan[j].id # e.id
      BY <1>4 DEF CountInv, QueuesDistinct
    <3>2. \A j \in DOMAIN chan : /\ chan[j].id < submitted
                                 /\ \A k \in DOMAIN chan : k # j => chan[k].id # chan[j].id
      BY DEF CountInv, QueuesDistinct
    <3> QED
      BY <1>1, <1>6, <2>3, <3>1, <3>2
  <2> QED
    BY <2>1, <2>2, <2>3 DEF QueuesDistinct
<1>8. \A id : InFlight(id)' => InFlight(id)
  <2> SUFFICES ASSUME NEW id, InFlight(id)' PROVE InFlight(id)
    OBVIOUS
  <2>1. CASE \E l \in Lanes : \E i \in DOMAIN staged'[l] : staged'[l][i].id = id
    BY <1>5, <2>1 DEF InFlight
  <2>2. CASE \E i \in DOMAIN chan' : chan'[i].id = id
    BY <1>4, <1>6, <2>2 DEF InFlight
  <2> QED
    BY <2>1, <2>2 DEF InFlight
<1>9. EvidenceDistinct'
  <2>1. \A id : Spent(id) => Spent(id)'
    BY <1>1, <1>8 DEF Spent
  <2> QED
    BY <1>1, <2>1 DEF CountInv, EvidenceDistinct
<1>10. Accounting'
  <2>1. TypeOK'
    BY TrySendType
  <2>2. Conserved
    BY <2>1, AccountingParts DEF CountInv
  <2>3. Waiting \in [Lanes -> Nat] /\ Waiting' \in [Lanes -> Nat]
    BY <1>3, <2>1 DEF Waiting, TypeOK
  <2>4. Total(Waiting') = Total(Waiting) + (-1)
    <3>1. Len(<<>>) = 0
      OBVIOUS
    <3>2. Waiting'[lane] = 0
      BY <1>5, <3>1, Zenon DEF Waiting
    <3>3. \A l \in Lanes \ {lane} : Waiting'[l] = Waiting[l]
      BY <1>5, Zenon DEF Waiting
    <3>4. Waiting[lane] = Len(staged[lane])
      BY DEF Waiting
    <3>5. \A n \in Nat : n <= 1 /\ n >= 1 => n = 1
      OBVIOUS
    <3>6. Waiting[lane] = 1
      BY <1>4, <3>4, <3>5, Zenon
    <3> QED
      BY <2>3, <3>2, <3>3, <3>6, TotalAdds
  <2>5. /\ Total(Waiting) \in Nat /\ Len(chan) \in Nat
        /\ metrics.events_received \in Nat /\ Total(metrics.dropped) \in Nat
    BY <1>3, <2>3, TotalType DEF Metrics
  <2>6. CASE chan' = Append(chan, e) /\ metrics' = metrics
    <3>1. Len(chan') = Len(chan) + 1
      BY <1>3, <1>4, <2>6
    <3>2. Conserved'
      BY <1>1, <1>3, <2>2, <2>4, <2>5, <2>6, <3>1 DEF Conserved
    <3>3. Cardinality(decided') = metrics'.verdicts_emitted + metrics'.verdicts_dropped
      BY <1>1, <2>6 DEF CountInv, Accounting
    <3> QED
      BY <2>1, <3>2, <3>3, AccountingParts
  <2>7. CASE chan' = chan /\ metrics' = CountDrop(lane)
    <3>1. /\ metrics'.events_received = metrics.events_received
          /\ metrics'.verdicts_emitted = metrics.verdicts_emitted
          /\ metrics'.verdicts_dropped = metrics.verdicts_dropped
          /\ metrics'.dropped[lane] = metrics.dropped[lane] + 1
          /\ \A l \in Lanes \ {lane} : metrics'.dropped[l] = metrics.dropped[l]
      BY <1>3, <2>7 DEF CountDrop, Metrics
    <3>2. metrics.dropped \in [Lanes -> Nat] /\ metrics'.dropped \in [Lanes -> Nat]
      BY <1>3, <2>1 DEF TypeOK, Metrics
    <3>3. Total(metrics'.dropped) = Total(metrics.dropped) + 1
      BY <3>1, <3>2, TotalAdds
    <3>4. Conserved'
      BY <1>1, <1>3, <2>2, <2>4, <2>5, <2>7, <3>1, <3>3 DEF Conserved
    <3>5. Cardinality(decided') = metrics'.verdicts_emitted + metrics'.verdicts_dropped
      BY <1>1, <3>1 DEF CountInv, Accounting
    <3> QED
      BY <2>1, <3>4, <3>5, AccountingParts
  <2> QED
    BY <1>2, <2>6, <2>7
<1> QED
  BY <1>1, <1>7, <1>9, <1>10 DEF CountInv, EvidenceNotReused

\* Forgetting records keeps the evidence apart (sweep_expired, and the end of run).
LEMMA ForgetKeeps ==
    ASSUME CountInv, TypeOK, \A h \in Hosts : state'[h] = state[h] \/ state'[h] = Vacant,
           UNCHANGED <<staged, chan, decided, submitted>>
    PROVE  QueuesDistinct' /\ EvidenceDistinct' /\ EvidenceNotReused' /\ IsFiniteSet(decided')
<1>1. /\ Ids(Vacant.evidence) = {} /\ Vacant.finalized = FALSE /\ Reason(Vacant) = "None"
  BY DEF Ids, Vacant, Reason, EvidenceSet, HasSeverity
<1>2. \A id : Spent(id)' <=> Spent(id)
  BY DEF Spent, InFlight
<1>3. \A h \in Hosts : \A id \in Ids(state'[h].evidence) : Spent(id)'
  BY <1>1, <1>2 DEF CountInv, EvidenceDistinct
<1>4. \A v \in decided' : \A id \in Ids(v.evidence) : Spent(id)'
  BY <1>2 DEF CountInv, EvidenceDistinct
<1>5. ASSUME NEW h \in Hosts, ~state'[h].finalized
      PROVE  /\ \A g \in Hosts \ {h} : ~state'[g].finalized =>
                   Ids(state'[h].evidence) \intersect Ids(state'[g].evidence) = {}
             /\ \A v \in decided' : Ids(state'[h].evidence) \intersect Ids(v.evidence) = {}
             /\ Reason(state'[h]) = "None"
  <2>1. CASE state'[h] = Vacant
    BY <1>1, <2>1
  <2>2. CASE state'[h] = state[h]
    <3>1. ASSUME NEW g \in Hosts \ {h}, ~state'[g].finalized
          PROVE  Ids(state'[h].evidence) \intersect Ids(state'[g].evidence) = {}
      <4>1. CASE state'[g] = Vacant
        BY <1>1, <4>1
      <4>2. CASE state'[g] = state[g]
        BY <1>5, <2>2, <3>1, <4>2 DEF CountInv, EvidenceDistinct
      <4> QED
        BY <4>1, <4>2
    <3> QED
      BY <1>5, <2>2, <3>1 DEF CountInv, EvidenceDistinct
  <2> QED
    BY <2>1, <2>2
<1>6. EvidenceDistinct'
  BY <1>3, <1>4, <1>5 DEF EvidenceDistinct
<1>7. QueuesDistinct'
  BY DEF CountInv, QueuesDistinct
<1> QED
  BY <1>6, <1>7 DEF CountInv, EvidenceNotReused

\* What handle_event files keeps the evidence apart: the new event was in no record,
\* an open record gives its evidence to one verdict, and is then closed.
LEMMA HandleEvidence ==
    ASSUME TypeOK, CountInv, HandleEvent
    PROVE  QueuesDistinct' /\ EvidenceDistinct' /\ EvidenceNotReused'
<1> DEFINE host == Incoming.host
           v0 == VerdictOf(Incoming.host, Fused)
<1> PICK id0 : id0 = Incoming.id
  OBVIOUS
<1>1. /\ chan # <<>> /\ chan' = Tail(chan)
      /\ UNCHANGED <<staged, submitted>>
      /\ decided' = IF Emits(Fused) THEN decided \union {v0} ELSE decided
  BY DEF HandleEvent
<1>2. /\ Incoming \in Event /\ Fused \in HostRecord
      /\ host \in Hosts
  BY <1>1, FusedType DEF Event
<1>3. /\ id0 = chan[1].id
      /\ \A id \in Ids(Fused.evidence) :
            \/ id = id0
            \/ id \in Ids(state[host].evidence) /\ Fused.finalized = state[host].finalized
  BY <1>1, FusedIds
<1>4. v0.evidence = Fused.evidence
  BY DEF VerdictOf
<1> HIDE DEF host, v0
<1>5. /\ chan \in Seq(Event) /\ Len(chan) >= 1 /\ 1 \in DOMAIN chan
      /\ \A i \in DOMAIN chan' : i + 1 \in DOMAIN chan /\ i + 1 # 1 /\ chan'[i] = chan[i + 1]
  <2>1. chan \in Seq(Event)
    BY DEF TypeOK
  <2>2. /\ chan' \in Seq(Event) /\ Len(chan') = Len(chan) - 1
        /\ \A i \in 1..Len(chan') : chan'[i] = chan[i + 1]
    BY <1>1, <2>1, HeadTailProperties
  <2> QED
    BY <1>1, <2>1, <2>2
<1>6. QueuesDistinct'
  <2>1. ASSUME NEW i \in DOMAIN chan'
        PROVE  /\ chan'[i].id < submitted'
               /\ \A j \in DOMAIN chan' : j # i => chan'[j].id # chan'[i].id
    <3>1. \A j \in DOMAIN chan' : i \in Int /\ j \in Int
      BY <1>1, <1>5
    <3>2. \A j \in DOMAIN chan' : j # i => j + 1 # i + 1
      BY <3>1
    <3> QED
      BY <1>1, <1>5, <2>1, <3>2 DEF CountInv, QueuesDistinct
  <2>2. \A l \in Lanes : \A i \in DOMAIN staged[l] : \A j \in DOMAIN chan' :
            chan'[j].id # staged[l][i].id
    BY <1>5 DEF CountInv, QueuesDistinct
  <2> QED
    BY <1>1, <2>1, <2>2 DEF CountInv, QueuesDistinct
<1>7. \A id : Spent(id) => Spent(id)'
  <2>1. \A id : InFlight(id)' => InFlight(id)
    BY <1>1, <1>5 DEF InFlight
  <2> QED
    BY <1>1, <2>1 DEF Spent
<1>8. Spent(id0)' /\ ~Spent(id0)
  <2>1. InFlight(id0)
    BY <1>3, <1>5 DEF InFlight
  <2>2. ~\E l \in Lanes : \E i \in DOMAIN staged[l] : staged[l][i].id = id0
    BY <1>3, <1>5 DEF CountInv, QueuesDistinct
  <2>3. ~\E i \in DOMAIN chan' : chan'[i].id = id0
    BY <1>3, <1>5 DEF CountInv, QueuesDistinct
  <2>4. id0 < submitted
    BY <1>3, <1>5 DEF CountInv, QueuesDistinct
  <2> QED
    BY <1>1, <2>1, <2>2, <2>3, <2>4 DEF Spent, InFlight
<1>9. /\ \A h \in Hosts : id0 \notin Ids(state[h].evidence)
      /\ \A v \in decided : id0 \notin Ids(v.evidence)
  BY <1>8 DEF CountInv, EvidenceDistinct
<1>10. \A id \in Ids(Fused.evidence) : Spent(id)'
  <2>1. \A id \in Ids(state[host].evidence) : Spent(id)
    BY <1>2 DEF CountInv, EvidenceDistinct
  <2> QED
    BY <1>3, <1>7, <1>8, <2>1, Zenon
<1>11. ASSUME ~Fused.finalized
       PROVE  /\ \A v \in decided : Ids(Fused.evidence) \intersect Ids(v.evidence) = {}
              /\ \A g \in Hosts \ {host} : ~state[g].finalized =>
                    Ids(Fused.evidence) \intersect Ids(state[g].evidence) = {}
  <2>1. \A id \in Ids(Fused.evidence) :
            id = id0 \/ (id \in Ids(state[host].evidence) /\ ~state[host].finalized)
    BY <1>3, <1>11
  <2> QED
    BY <1>2, <1>9, <2>1 DEF CountInv, EvidenceDistinct
<1>12. \A h \in Hosts :
          \/ state'[h] = Vacant
          \/ h # host /\ state'[h] = state[h]
          \/ h = host /\ ~Emits(Fused) /\ state'[h] = Fused
          \/ h = host /\ Emits(Fused) /\ state'[h] = [Fused EXCEPT !.finalized = TRUE]
  BY HandleState DEF host
<1>13. /\ Ids(Vacant.evidence) = {} /\ Vacant.finalized = FALSE /\ Reason(Vacant) = "None"
  BY DEF Ids, Vacant, Reason, EvidenceSet, HasSeverity
<1>14. /\ [Fused EXCEPT !.finalized = TRUE].evidence = Fused.evidence
       /\ [Fused EXCEPT !.finalized = TRUE].finalized = TRUE
  BY <1>2 DEF HostRecord
\* an open record afterwards: what it is and what it has to do with the old ones
<1>15. ASSUME NEW h \in Hosts, ~state'[h].finalized, state'[h] # Vacant
       PROVE  \/ h # host /\ state'[h] = state[h] /\ ~state[h].finalized
              \/ h = host /\ ~Emits(Fused) /\ state'[h] = Fused /\ ~Fused.finalized
  BY <1>12, <1>14, <1>15
<1>16. EvidenceDistinct'
  <2>1. \A h \in Hosts : \A id \in Ids(state'[h].evidence) : Spent(id)'
    BY <1>7, <1>10, <1>12, <1>13, <1>14 DEF CountInv, EvidenceDistinct
  <2>2. \A v \in decided' : \A id \in Ids(v.evidence) : Spent(id)'
    BY <1>1, <1>4, <1>7, <1>10 DEF CountInv, EvidenceDistinct
  <2>3. ASSUME NEW h \in Hosts, ~state'[h].finalized, NEW g \in Hosts \ {h}, ~state'[g].finalized
        PROVE  Ids(state'[h].evidence) \intersect Ids(state'[g].evidence) = {}
    <3>1. CASE state'[h] = Vacant \/ state'[g] = Vacant
      BY <1>13, <3>1
    <3>2. CASE state'[h] # Vacant /\ state'[g] # Vacant
      <4>1. CASE h # host /\ g # host
        BY <1>15, <2>3, <3>2, <4>1 DEF CountInv, EvidenceDistinct
      <4>2. CASE h = host
        <5>1. state'[h] = Fused /\ ~Fused.finalized /\ state'[g] = state[g] /\ ~state[g].finalized
          BY <1>15, <2>3, <3>2, <4>2
        <5> QED
          BY <1>11, <2>3, <4>2, <5>1
      <4>3. CASE g = host
        <5>1. state'[g] = Fused /\ ~Fused.finalized /\ state'[h] = state[h] /\ ~state[h].finalized
          BY <1>15, <2>3, <3>2, <4>3
        <5> QED
          BY <1>11, <2>3, <4>3, <5>1
      <4> QED
        BY <4>1, <4>2, <4>3
    <3> QED
      BY <3>1, <3>2
  <2>4. ASSUME NEW h \in Hosts, ~state'[h].finalized, NEW v \in decided'
        PROVE  Ids(state'[h].evidence) \intersect Ids(v.evidence) = {}
    <3>1. CASE state'[h] = Vacant
      BY <1>13, <3>1
    <3>2. CASE state'[h] # Vacant /\ h = host
      <4>1. state'[h] = Fused /\ ~Fused.finalized /\ ~Emits(Fused)
        BY <1>15, <2>4, <3>2
      <4> QED
        BY <1>1, <1>11, <2>4, <4>1
    <3>3. CASE state'[h] # Vacant /\ h # host
      <4>1. state'[h] = state[h] /\ ~state[h].finalized
        BY <1>15, <2>4, <3>3
      <4>2. CASE v \in decided
        BY <4>1, <4>2 DEF CountInv, EvidenceDistinct
      <4>3. CASE v = v0 /\ Emits(Fused)
        <5>1. ~Fused.finalized
          BY <4>3 DEF Emits
        <5> QED
          BY <1>4, <1>11, <3>3, <4>1, <4>3, <5>1
      <4> QED
        BY <1>1, <2>4, <4>2, <4>3
    <3> QED
      BY <3>1, <3>2, <3>3
  <2>5. ASSUME NEW h \in Hosts, ~state'[h].finalized
        PROVE  Reason(state'[h]) = "None"
    <3>1. CASE state'[h] = Vacant
      BY <1>13, <3>1
    <3>2. CASE state'[h] # Vacant /\ h = host
      BY <1>15, <2>5, <3>2 DEF Emits
    <3>3. CASE state'[h] # Vacant /\ h # host
      BY <1>15, <2>5, <3>3 DEF CountInv, EvidenceDistinct
    <3> QED
      BY <3>1, <3>2, <3>3
  <2> QED
    BY <2>1, <2>2, <2>3, <2>4, <2>5 DEF EvidenceDistinct
<1>17. EvidenceNotReused'
  <2> SUFFICES ASSUME NEW v \in decided', NEW w \in decided', v # w
               PROVE  Ids(v.evidence) \intersect Ids(w.evidence) = {}
    BY DEF EvidenceNotReused
  <2>1. CASE v \in decided /\ w \in decided
    BY <2>1 DEF CountInv, EvidenceNotReused
  <2>2. CASE Emits(Fused) /\ ((v = v0 /\ w \in decided) \/ (v \in decided /\ w = v0))
    <3>1. ~Fused.finalized
      BY <2>2 DEF Emits
    <3> QED
      BY <1>4, <1>11, <2>2, <3>1
  <2>3. \/ v \in decided /\ w \in decided
        \/ Emits(Fused) /\ ((v = v0 /\ w \in decided) \/ (v \in decided /\ w = v0))
    <3>1. CASE Emits(Fused)
      <4>1. v \in decided \union {v0} /\ w \in decided \union {v0}
        BY <1>1, <3>1
      <4> QED
        BY <3>1, <4>1, Zenon
    <3>2. CASE ~Emits(Fused)
      BY <1>1, <3>2
    <3> QED
      BY <3>1, <3>2
  <2> QED
    BY <2>1, <2>2, <2>3
<1> QED
  BY <1>6, <1>16, <1>17

\* handle_event counts the event it received, and the verdict it decided, which is a
\* new one because it holds the event.
LEMMA HandleCounts ==
    ASSUME TypeOK, CountInv, HandleEvent
    PROVE  CountInv'
<1> DEFINE v0 == VerdictOf(Incoming.host, Fused)
<1>1. /\ chan # <<>> /\ chan' = Tail(chan)
      /\ UNCHANGED <<staged, submitted>>
      /\ Emits(Fused) => decided' = decided \union {v0}
      /\ ~Emits(Fused) => decided' = decided
  BY DEF HandleEvent
<1>2. TypeOK'
  BY HandleEventType
<1>3. /\ metrics'.events_received = metrics.events_received + 1
      /\ metrics'.dropped = metrics.dropped
      /\ metrics'.verdicts_emitted = metrics.verdicts_emitted + Count(Emits(Fused) /\ OutRoom)
      /\ metrics'.verdicts_dropped = metrics.verdicts_dropped + Count(Emits(Fused) /\ ~OutRoom)
  BY DEF HandleEvent
<1>4. /\ metrics.verdicts_emitted \in Nat /\ metrics.verdicts_dropped \in Nat
      /\ metrics.events_received \in Nat /\ Total(metrics.dropped) \in Nat
      /\ Len(chan) \in Nat /\ submitted \in Nat
  BY TotalType DEF TypeOK, Metrics
<1>5. Conserved'
  <2>1. Conserved
    BY <1>2, AccountingParts DEF CountInv
  <2>2. Waiting' = Waiting /\ Total(Waiting) \in Nat
    <3>1. Waiting \in [Lanes -> Nat]
      BY DEF Waiting, TypeOK
    <3> QED
      BY <1>1, <3>1, TotalType DEF Waiting
  <2>3. Len(chan') = Len(chan) - 1
    BY <1>1, HeadTailProperties DEF TypeOK
  <2> QED
    BY <1>1, <1>3, <1>4, <2>1, <2>2, <2>3 DEF Conserved
<1>6. /\ IsFiniteSet(decided')
      /\ Cardinality(decided') = metrics'.verdicts_emitted + metrics'.verdicts_dropped
  <2>1. /\ IsFiniteSet(decided)
        /\ Cardinality(decided) = metrics.verdicts_emitted + metrics.verdicts_dropped
    BY DEF CountInv, Accounting
  <2>2. CASE ~Emits(Fused)
    <3>1. Count(Emits(Fused) /\ OutRoom) = 0 /\ Count(Emits(Fused) /\ ~OutRoom) = 0
      BY <2>2, Zenon DEF Count
    <3> QED
      BY <1>1, <1>3, <1>4, <2>1, <2>2, <3>1
  <2>3. CASE Emits(Fused)
    <3>1. v0 \notin decided
      <4>1. Incoming.id \in Ids(v0.evidence)
        BY <1>1, FusedIds DEF VerdictOf
      <4>2. InFlight(Incoming.id)
        <5>1. 1 \in DOMAIN chan
          BY <1>1 DEF TypeOK
        <5>2. Incoming.id = chan[1].id
          BY <1>1, FusedIds
        <5> QED
          BY <5>1, <5>2 DEF InFlight
      <4> HIDE DEF v0
      <4> QED
        BY <4>1, <4>2 DEF CountInv, EvidenceDistinct, Spent
    <3>2. IsFiniteSet(decided') /\ Cardinality(decided') = Cardinality(decided) + 1
      BY <1>1, <2>1, <2>3, <3>1, FS_AddElement
    <3>3. \/ Count(Emits(Fused) /\ OutRoom) = 1 /\ Count(Emits(Fused) /\ ~OutRoom) = 0
          \/ Count(Emits(Fused) /\ OutRoom) = 0 /\ Count(Emits(Fused) /\ ~OutRoom) = 1
      BY <2>3, Zenon DEF Count
    <3> QED
      BY <1>3, <1>4, <2>1, <3>2, <3>3
  <2> QED
    BY <2>2, <2>3
<1>7. Accounting'
  BY <1>2, <1>5, <1>6, AccountingParts
<1> QED
  BY <1>6, <1>7, HandleEvidence DEF CountInv

\* Every step of the system keeps the events counted and the evidence apart.
LEMMA CountStep ==
    ASSUME TypeOK, CountInv, [Next]_vars
    PROVE  CountInv'
<1>1. CASE Submit
  BY <1>1, SubmitType, StageCounts
<1>2. ASSUME NEW l \in Lanes, TrySend(l) PROVE CountInv'
  BY <1>2, TrySendCounts
<1>3. CASE HandleEvent
  BY <1>3, HandleCounts
<1>4. CASE SweepExpired
  <2>1. /\ \A h \in Hosts : state'[h] = state[h] \/ state'[h] = Vacant
        /\ UNCHANGED <<staged, chan, decided, submitted>>
    BY <1>4 DEF SweepExpired
  <2>2. /\ metrics'.events_received = metrics.events_received
        /\ metrics'.dropped = metrics.dropped
        /\ metrics'.verdicts_emitted = metrics.verdicts_emitted
        /\ metrics'.verdicts_dropped = metrics.verdicts_dropped
    BY <1>4 DEF SweepExpired, TypeOK, Metrics
  <2>3. Accounting'
    BY <2>1, <2>2 DEF CountInv, Accounting
  <2> QED
    BY <2>1, <2>3, ForgetKeeps DEF CountInv
<1>5. CASE Shutdown
  <2>1. /\ \A h \in Hosts : state'[h] = state[h] \/ state'[h] = Vacant
        /\ UNCHANGED <<staged, chan, decided, submitted, metrics>>
    BY <1>5 DEF Shutdown
  <2>2. Accounting'
    BY <2>1 DEF CountInv, Accounting
  <2> QED
    BY <2>1, <2>2, ForgetKeeps DEF CountInv
<1>6. ASSUME UNCHANGED <<staged, chan, state, decided, submitted, metrics>>
      PROVE  CountInv'
  <2>1. \A h \in Hosts : state'[h] = state[h]
    BY <1>6
  <2>2. Accounting'
    BY <1>6 DEF CountInv, Accounting
  <2> QED
    BY <1>6, <2>1, <2>2, ForgetKeeps DEF CountInv
<1>7. ASSUME NEW l \in Lanes, DropSender(l) PROVE CountInv'
  BY <1>6, <1>7 DEF DropSender
<1>8. CASE Consume \/ CloseOut \/ Tick
  BY <1>6, <1>8 DEF Consume, CloseOut, Tick
<1>9. CASE UNCHANGED vars
  BY <1>6, <1>9 DEF vars
<1> QED
  BY <1>1, <1>2, <1>3, <1>4, <1>5, <1>7, <1>8, <1>9 DEF Next

\* A record without a reason for a verdict has evidence of one lane, none of it Critical.
LEMMA NoReason ==
    ASSUME NEW r, Reason(r) = "None"
    PROVE  \A a, b \in EvidenceSet(r) : a.source = b.source /\ a.severity # Critical
BY DEF Reason, HasSeverity

\* For every channel depth, eviction limit and window: no event is lost uncounted,
\* what warrants a verdict has had one at once, and no event is used for two
\* verdicts (submit, handle_event with maybe_emit and enforce_capacity, sweep_expired).
THEOREM EvidenceCounted == Spec => []EvidenceCountsOnce
<1>1. Init => CountInv
  <2> SUFFICES ASSUME Init PROVE CountInv
    OBVIOUS
  <2>1. /\ staged = [l \in Lanes |-> <<>>] /\ chan = <<>> /\ decided = {} /\ submitted = 0
        /\ state = [h \in Hosts |-> Vacant]
    BY DEF Init
  <2>2. QueuesDistinct
    BY <2>1 DEF QueuesDistinct
  <2>3. EvidenceDistinct
    <3>1. /\ Ids(Vacant.evidence) = {} /\ Reason(Vacant) = "None"
      BY DEF Ids, Vacant, Reason, EvidenceSet, HasSeverity
    <3> QED
      BY <2>1, <3>1 DEF EvidenceDistinct
  <2>4. IsFiniteSet(decided) /\ Cardinality(decided) = 0
    BY <2>1, FS_EmptySet
  <2>5. Accounting
    <3>1. Len(<<>>) = 0
      OBVIOUS
    <3> QED
      BY <2>4, <3>1 DEF Init, Accounting, Lanes
  <2> QED
    BY <2>1, <2>2, <2>3, <2>4, <2>5 DEF CountInv, EvidenceNotReused
<1>2. TypeOK /\ CountInv /\ [Next]_vars => CountInv'
  BY CountStep
<1>3. TypeOK /\ CountInv => EvidenceCountsOnce
  BY NoReason DEF CountInv, EvidenceDistinct, EvidenceCountsOnce, NoMissedEmission, Tracked
<1> QED
  BY <1>1, <1>2, <1>3, TypeCorrect, PTL DEF Spec

---------------------------------------------------------------------------
(* The lanes are the environment of the correlation engine                 *)

LogLines == [alert : Alerts \union {NoHost}, line : Nat]

LaneTasks ==
    [pc : {"read", "xdp", "trace", "upsert", "ended"},
     alert : Alerts \union {NoHost, None}, line : Nat, score : Scores \union {0}]

\* The task holds an alert about a host while it works on it, and from the first await
\* on the alert has a source and a score.
TaskInv ==
    /\ written \in Nat
    /\ log \in Seq(LogLines)
    /\ task \in LaneTasks
    /\ task.pc \in {"xdp", "trace", "upsert"}
         => task.alert \in Alerts \union {NoHost} /\ AlertHost(task.alert) \in Hosts
    /\ task.pc \in {"trace", "upsert"} => task.score \in Scores /\ task.alert.src # None

LEMMA AlertHostType ==
    ASSUME NEW a \in Alerts \union {NoHost}
    PROVE  AlertHost(a) \in Hosts \union {None}
BY LanesAssumption DEF AlertHost, NoHost

LEMMA HeadOfLog ==
    ASSUME TaskInv, log # <<>>
    PROVE  /\ Head(log) \in LogLines /\ Tail(log) \in Seq(LogLines)
           /\ AlertHost(Head(log).alert) \in Hosts \union {None}
<1>1. Head(log) \in LogLines /\ Tail(log) \in Seq(LogLines)
  BY DEF TaskInv
<1> QED
  BY <1>1, AlertHostType DEF LogLines

LEMMA IdleType == Idle \in LaneTasks /\ Idle.pc = "read" /\ [Idle EXCEPT !.pc = "ended"] \in LaneTasks
BY DEF Idle, LaneTasks

LEMMA TaskInit == LanesInit => TaskInv
BY IdleType DEF LanesInit, TaskInv

LEMMA TaskStep ==
    ASSUME TaskInv, [LanesNext]_allVars
    PROVE  TaskInv'
<1> USE DEF TaskInv
<1>1. CASE Write
  <2>1. PICK a \in Alerts : log' = Append(log, Line(a, written + 1))
    BY <1>1 DEF Write
  <2>2. Line(a, written + 1) \in LogLines /\ written' \in Nat
    BY <1>1 DEF Line, LogLines, Write
  <2>3. log' \in Seq(LogLines)
    BY <2>1, <2>2
  <2> QED
    BY <1>1, <2>2, <2>3 DEF Write
<1>2. CASE WriteTorn
  <2>1. Line(NoHost, written + 1) \in LogLines /\ written' \in Nat
    BY <1>2 DEF Line, LogLines, WriteTorn
  <2>2. log' \in Seq(LogLines)
    BY <1>2, <2>1 DEF WriteTorn
  <2> QED
    BY <1>2, <2>1, <2>2 DEF WriteTorn
<1>3. CASE ReadFails
  BY <1>3, IdleType DEF ReadFails, Idle
<1>4. CASE SkipLine
  BY <1>4, HeadOfLog DEF SkipLine
<1>5. CASE ReadAlert
  <2>1. /\ Head(log) \in LogLines /\ Tail(log) \in Seq(LogLines)
        /\ AlertHost(Head(log).alert) \in Hosts
    BY <1>5, HeadOfLog DEF ReadAlert
  <2>2. task' = [pc |-> "xdp", alert |-> Head(log).alert, line |-> Head(log).line, score |-> 0]
    BY <1>5 DEF ReadAlert, Idle
  <2>3. task' \in LaneTasks /\ task'.pc = "xdp" /\ task'.alert = Head(log).alert
    BY <2>1, <2>2 DEF LogLines, LaneTasks
  <2> QED
    BY <1>5, <2>1, <2>3 DEF ReadAlert, LogLines
<1>6. CASE NoFlow
  BY <1>6, IdleType DEF NoFlow
<1>7. CASE Ingest
  <2>1. PICK score \in Scores :
           task' = [task EXCEPT !.score = score, !.pc = IF score > 10 THEN "trace" ELSE "upsert"]
    BY <1>7 DEF Ingest
  <2>2. /\ task' \in LaneTasks /\ task'.score = score /\ task'.alert = task.alert
        /\ task'.pc \in {"trace", "upsert"}
    BY <2>1 DEF LaneTasks
  <2> QED
    BY <1>7, <2>2 DEF Ingest
<1>8. CASE Trace
  <2>1. CASE task' = [task EXCEPT !.pc = "upsert"]
    <3>1. /\ task' \in LaneTasks /\ task'.score = task.score /\ task'.alert = task.alert
          /\ task'.pc = "upsert"
      BY <2>1 DEF LaneTasks
    <3> QED
      BY <1>8, <3>1 DEF Trace
  <2>2. CASE GiveUp
    BY <1>8, <2>2, IdleType DEF Trace, GiveUp
  <2> QED
    BY <1>8, <2>1, <2>2 DEF Trace
<1>9. CASE UpsertFails
  BY <1>9, IdleType DEF UpsertFails, GiveUp
<1>10. CASE UpsertAndSubmit
  BY <1>10, IdleType DEF UpsertAndSubmit
<1>11. CASE FileInfected \/ HandleVerdict \/ Correlate \/ UNCHANGED allVars
  BY <1>11 DEF FileInfected, HandleVerdict, Correlate, laneVars, allVars
<1> QED
  BY <1>1, <1>2, <1>3, <1>4, <1>5, <1>6, <1>7, <1>8, <1>9, <1>10, <1>11 DEF LanesNext

\* A score over the threshold makes the same event as the threshold.
LEMMA NormalizedSubmits ==
    ASSUME NEW host, NEW score \in Int
    PROVE  SpectralSubmit(host, Normalized(score)) <=> SpectralSubmit(host, score)
<1>1. /\ ScoreSeverity(Normalized(score)) = ScoreSeverity(score)
      /\ Clamp(Normalized(score)) = Clamp(score)
  BY DEF ScoreSeverity, Clamp, Normalized
<1> QED
  BY <1>1 DEF SpectralSubmit

\* A step of the lanes is a step of the engine and its environment, or none of it.
LEMMA LanesStep ==
    ASSUME TaskInv, [LanesNext]_allVars
    PROVE  [Next]_vars
<1>1. CASE Write \/ WriteTorn \/ ReadFails \/ SkipLine \/ NoFlow \/ Ingest \/ Trace
           \/ UpsertFails \/ UNCHANGED allVars
  BY <1>1 DEF Write, WriteTorn, ReadFails, SkipLine, NoFlow, Ingest, Trace, UpsertFails,
              allVars
<1>2. CASE ReadAlert
  <2>1. AlertHost(Head(log).alert) \in Hosts
    BY <1>2, HeadOfLog DEF ReadAlert
  <2> QED
    BY <1>2, <2>1 DEF ReadAlert, SubmitAlert, Next, Submit
<1>3. CASE UpsertAndSubmit
  <2>1. AlertHost(task.alert) \in Hosts /\ task.score \in Scores /\ task.score \in Int
    BY <1>3, CorrelationAssumption DEF UpsertAndSubmit, TaskInv
  <2>2. SpectralSubmit(AlertHost(task.alert), task.score)
    BY <1>3, <2>1, NormalizedSubmits DEF UpsertAndSubmit
  <2> QED
    BY <2>1, <2>2 DEF Next, Submit
<1>4. CASE FileInfected
  BY <1>4, LanesAssumption DEF FileInfected, Next, Submit
<1>5. CASE HandleVerdict
  BY <1>5 DEF HandleVerdict, Next
<1>6. CASE Correlate
  BY <1>6 DEF Correlate, Next
<1> QED
  BY <1>1, <1>2, <1>3, <1>4, <1>5, <1>6 DEF LanesNext

\* The orchestrator's lanes do nothing that the correlation engine's specification does
\* not expect of them: whatever holds of the engine among arbitrary submitters holds of
\* it in the orchestrator (run_traffic_lanes, scan_react_and_submit, handle_verdicts).
THEOREM LanesRefineCorrelation == LanesSpec => Spec
<1>1. LanesInit => Init
  BY DEF LanesInit
<1>2. LanesSpec => []TaskInv
  BY TaskInit, TaskStep, PTL DEF LanesSpec
<1>3. TaskInv /\ [LanesNext]_allVars => [Next]_vars
  BY LanesStep
<1> QED
  BY <1>1, <1>2, <1>3, PTL DEF LanesSpec, Spec

---------------------------------------------------------------------------
(* Where evidence comes from                                               *)

Origins == ({"line"} \X Nat) \union ({"line"} \X Nat \X Nat) \union ({"file"} \X Nat)

\* An event of the file lane comes from a file, any other from a line; nsm's evidence is
\* never a human's and a spectral score that is not critical is below nine tenths.
Genuine(origins, e) ==
    /\ e.id < Len(origins)
    /\ origins[e.id + 1][1] = IF e.source = "ClamAv" THEN "file" ELSE "line"
    /\ e.source = "Xdp" => e.confidence = 6
    /\ e.source = "Spectral" /\ e.severity # Critical => e.confidence <= 8

\* Before its last piece of evidence a verdict's host warranted none.
Decisive(evidence) ==
    \A i, j \in 1..(Len(evidence) - 1) :
        evidence[i].source = evidence[j].source /\ evidence[i].severity # Critical

EvidenceInv ==
    /\ origin \in Seq(Origins) /\ submitted = Len(origin)
    /\ \A l \in Lanes : \A i \in DOMAIN staged[l] : Genuine(origin, staged[l][i])
    /\ \A i \in DOMAIN chan : Genuine(origin, chan[i])
    /\ \A h \in Hosts : \A i \in DOMAIN state[h].evidence : Genuine(origin, state[h].evidence[i])
    /\ \A v \in decided :
         /\ \A i \in DOMAIN v.evidence : Genuine(origin, v.evidence[i])
         /\ Decisive(v.evidence)
         /\ v.reason = "MultiLaneCorroboration"
              => \E i, j \in DOMAIN v.evidence : v.evidence[i].source # v.evidence[j].source
    /\ \A i \in DOMAIN out : out[i] \in decided

LEMMA GenuineKept ==
    ASSUME NEW origins \in Seq(Origins), NEW o \in Origins, NEW e, e.id \in Nat,
           Genuine(origins, e)
    PROVE  Genuine(Append(origins, o), e)
<1>1. /\ Len(Append(origins, o)) = Len(origins) + 1
      /\ e.id + 1 \in 1..Len(origins)
  BY DEF Genuine
<1>2. Append(origins, o)[e.id + 1] = origins[e.id + 1]
  BY <1>1
<1> QED
  BY <1>1, <1>2 DEF Genuine

\* Where an event is, it is one.
LEMMA EventsTyped ==
    ASSUME TypeOK
    PROVE  /\ \A l \in Lanes : \A i \in DOMAIN staged[l] : staged[l][i] \in Event
           /\ \A i \in DOMAIN chan : chan[i] \in Event
           /\ \A h \in Hosts : \A i \in DOMAIN state[h].evidence : state[h].evidence[i] \in Event
           /\ \A v \in decided : \A i \in DOMAIN v.evidence : v.evidence[i] \in Event
<1>1. \A h \in Hosts : state[h].evidence \in Seq(Event)
  BY DEF TypeOK, HostRecord
<1>2. \A v \in decided : v.evidence \in Seq(Event)
  BY DEF TypeOK, Verdict
<1>3. \A l \in Lanes : staged[l] \in Seq(Event)
  BY DEF TypeOK
<1>4. chan \in Seq(Event)
  BY DEF TypeOK
<1> QED
  BY <1>1, <1>2, <1>3, <1>4

LEMMA StageGenuine ==
    ASSUME TypeOK, EvidenceInv, NEW e \in Event, e.id = submitted, Stage(e),
           NEW o \in Origins, origin' = Append(origin, o),
           o[1] = IF e.source = "ClamAv" THEN "file" ELSE "line",
           e.source = "Xdp" => e.confidence = 6,
           e.source = "Spectral" /\ e.severity # Critical => e.confidence <= 8
    PROVE  EvidenceInv'
<1>1. /\ origin' \in Seq(Origins) /\ Len(origin') = Len(origin) + 1
      /\ origin'[Len(origin) + 1] = o /\ Len(origin) \in Nat
  BY DEF EvidenceInv
<1>2. Genuine(origin', e)
  BY <1>1 DEF Genuine, EvidenceInv
<1>3. ASSUME NEW f \in Event, Genuine(origin, f) PROVE Genuine(origin', f)
  <2>1. f.id \in Nat
    BY DEF Event
  <2> QED
    BY <1>3, <2>1, GenuineKept DEF EvidenceInv
<1>4. /\ staged' = [staged EXCEPT ![e.source] = <<e>>] /\ submitted' = submitted + 1
      /\ UNCHANGED <<chan, state, decided, out>>
  BY DEF Stage
<1>5. e.source \in Lanes /\ staged \in [Lanes -> Seq(Event)]
  BY DEF Event, TypeOK
<1>6. ASSUME NEW l \in Lanes, NEW i \in DOMAIN staged'[l] PROVE Genuine(origin', staged'[l][i])
  <2>1. CASE l = e.source
    <3>1. staged'[l] = <<e>>
      BY <1>4, <1>5, <2>1
    <3>2. staged'[l][i] = e
      BY <3>1
    <3> QED
      BY <1>2, <3>2
  <2>2. CASE l # e.source
    <3>1. staged'[l] = staged[l]
      BY <1>4, <1>5, <2>2
    <3>2. staged[l][i] \in Event /\ Genuine(origin, staged[l][i])
      BY <3>1, EventsTyped DEF EvidenceInv
    <3> QED
      BY <1>3, <3>1, <3>2
  <2> QED
    BY <2>1, <2>2
<1>7. \A i \in DOMAIN chan : Genuine(origin', chan[i])
  BY <1>3, EventsTyped DEF EvidenceInv
<1>8. \A h \in Hosts : \A i \in DOMAIN state[h].evidence : Genuine(origin', state[h].evidence[i])
  BY <1>3, EventsTyped DEF EvidenceInv
<1>9. \A v \in decided : \A i \in DOMAIN v.evidence : Genuine(origin', v.evidence[i])
  BY <1>3, EventsTyped DEF EvidenceInv
<1> QED
  BY <1>1, <1>4, <1>6, <1>7, <1>8, <1>9 DEF EvidenceInv

\* The record that an event is filed in: the event, after evidence of the host's record.
LEMMA FusedElements ==
    ASSUME TypeOK, chan # <<>>
    PROVE  /\ Fused.evidence \in Seq(Event) /\ Fused.evidence # <<>>
           /\ Fused.evidence[Len(Fused.evidence)] = Incoming
           /\ \A i \in 1..(Len(Fused.evidence) - 1) :
                /\ \E j \in DOMAIN state[Incoming.host].evidence :
                     Fused.evidence[i] = state[Incoming.host].evidence[j]
                /\ Fused.finalized = state[Incoming.host].finalized
<1> DEFINE r == state[Incoming.host]
           kept == IF Len(r.evidence) >= MaxEvidence THEN Tail(r.evidence)
                   ELSE r.evidence
<1>1. /\ Incoming \in Event /\ Fused.evidence # <<>> /\ Fused \in HostRecord
      /\ Fused.evidence[Len(Fused.evidence)] = Incoming
  BY FusedType
<1>2. Fused.evidence \in Seq(Event)
  BY <1>1 DEF HostRecord
<1>4. r \in HostRecord
  BY <1>1 DEF TypeOK, Event
<1>5. CASE Occupied(state, Incoming.host)
  <2>1. Fused.evidence = Append(kept, Incoming) /\ Fused.finalized = r.finalized
    BY <1>4, <1>5 DEF Fused, Recorded, Push, HostRecord
  <2>2. r.evidence \in Seq(Event) /\ r.evidence # <<>>
    BY <1>4, <1>5 DEF Occupied, HostRecord
  <2>3. kept \in Seq(Event) /\ \A i \in 1..Len(kept) : \E j \in DOMAIN r.evidence : kept[i] = r.evidence[j]
    <3>1. CASE kept = r.evidence
      BY <2>2, <3>1
    <3>2. CASE kept = Tail(r.evidence)
      <4> DEFINE tail == Tail(r.evidence)
      <4>1. /\ tail \in Seq(Event) /\ Len(tail) = Len(r.evidence) - 1
            /\ \A i \in 1..Len(tail) : tail[i] = r.evidence[i + 1]
        BY <2>2, HeadTailProperties
      <4> HIDE DEF tail
      <4>2. \A i \in 1..Len(tail) : i + 1 \in DOMAIN r.evidence
        BY <2>2, <4>1
      <4>3. kept = tail
        BY <3>2 DEF tail
      <4> HIDE DEF kept
      <4> QED
        BY <4>1, <4>2, <4>3
    <3> QED
      BY <3>1, <3>2
  <2> HIDE DEF kept, r
  <2>4. Len(Fused.evidence) - 1 = Len(kept) /\ \A i \in 1..Len(kept) : Fused.evidence[i] = kept[i]
    BY <1>1, <2>1, <2>3
  <2> QED
    BY <1>1, <1>2, <2>1, <2>3, <2>4 DEF r
<1>6. CASE ~Occupied(state, Incoming.host)
  <2>1. Fused.evidence = <<Incoming>>
    BY <1>6 DEF Fused, Recorded, NewRecord
  <2>2. Len(Fused.evidence) - 1 = 0
    BY <2>1
  <2> QED
    BY <1>1, <1>2, <2>2
<1> QED
  BY <1>5, <1>6

\* A verdict is decided with the piece of evidence that first warrants it.
LEMMA HandleGenuine ==
    ASSUME TypeOK, NoMissedEmission, EvidenceInv, HandleEvent, origin' = origin
    PROVE  EvidenceInv'
<1> DEFINE v0 == VerdictOf(Incoming.host, Fused)
           r == state[Incoming.host]
           n == Len(Fused.evidence)
<1>1. /\ chan # <<>> /\ chan' = Tail(chan)
      /\ UNCHANGED <<staged, submitted>>
      /\ out' = out \/ (out' = Append(out, v0) /\ Emits(Fused))
      /\ decided' = IF Emits(Fused) THEN decided \union {v0} ELSE decided
  BY DEF HandleEvent
<1>2. /\ Incoming \in Event /\ Fused \in HostRecord /\ Incoming.host \in Hosts
      /\ Fused.evidence \in Seq(Event) /\ Fused.evidence # <<>>
      /\ Fused.evidence[n] = Incoming
  BY <1>1, FusedType, FusedElements DEF Event
<1>3. \A i \in 1..(n - 1) :
        /\ \E j \in DOMAIN r.evidence : Fused.evidence[i] = r.evidence[j]
        /\ Fused.finalized = r.finalized
  BY <1>1, FusedElements
<1>4. n \in Nat \ {0} /\ DOMAIN Fused.evidence = 1..n
  BY <1>2
<1>5. v0.evidence = Fused.evidence /\ v0.reason = Reason(Fused)
  BY DEF VerdictOf
<1> HIDE DEF v0, r, n
<1>6. /\ chan \in Seq(Event) /\ 1 \in DOMAIN chan /\ Head(chan) = chan[1] /\ chan[1] \in Event
      /\ \A i \in DOMAIN chan' : i + 1 \in DOMAIN chan /\ chan'[i] = chan[i + 1]
  <2>1. chan \in Seq(Event)
    BY DEF TypeOK
  <2>2. /\ chan' \in Seq(Event) /\ Len(chan') = Len(chan) - 1
        /\ \A i \in 1..Len(chan') : chan'[i] = chan[i + 1]
    BY <1>1, <2>1, HeadTailProperties
  <2> QED
    BY <1>1, <2>1, <2>2
<1>7. Genuine(origin, Incoming)
  <2>1. Genuine(origin, chan[1])
    BY <1>6 DEF EvidenceInv
  <2>2. /\ Incoming.id = chan[1].id /\ Incoming.source = chan[1].source
        /\ Incoming.severity = chan[1].severity /\ Incoming.confidence = chan[1].confidence
    BY <1>6 DEF Incoming, Event
  <2> QED
    BY <2>1, <2>2 DEF Genuine
<1>8. \A i \in DOMAIN r.evidence : Genuine(origin, r.evidence[i])
  BY <1>2 DEF EvidenceInv, r
<1>9. \A i \in DOMAIN Fused.evidence : Genuine(origin, Fused.evidence[i])
  <2> SUFFICES ASSUME NEW i \in 1..n PROVE Genuine(origin, Fused.evidence[i])
    BY <1>4
  <2>1. CASE i = n
    BY <1>2, <1>7, <2>1
  <2>2. CASE i \in 1..(n - 1)
    BY <1>3, <1>8, <2>2
  <2> QED
    BY <1>4, <2>1, <2>2
<1>10. ASSUME Emits(Fused) PROVE Decisive(Fused.evidence)
  <2> SUFFICES ASSUME NEW i \in 1..(n - 1), NEW j \in 1..(n - 1)
               PROVE  /\ Fused.evidence[i].source = Fused.evidence[j].source
                      /\ Fused.evidence[i].severity # Critical
    BY DEF Decisive, n
  <2>1. PICK k \in DOMAIN r.evidence : Fused.evidence[i] = r.evidence[k]
    BY <1>3
  <2>2. PICK m \in DOMAIN r.evidence : Fused.evidence[j] = r.evidence[m]
    BY <1>3
  <2>3. ~r.finalized
    BY <1>3, <1>10 DEF Emits
  <2>4. Incoming.host \in Tracked(state)
    <3>1. r.evidence # <<>>
      BY <2>1
    <3> QED
      BY <1>2, <3>1 DEF Tracked, Occupied, r
  <2>5. r.evidence[k] \in EvidenceSet(r) /\ r.evidence[m] \in EvidenceSet(r)
    BY DEF EvidenceSet
  <2>6. \A a, b \in EvidenceSet(r) : a.source = b.source /\ a.severity # Critical
    BY <2>3, <2>4 DEF NoMissedEmission, r
  <2> QED
    BY <2>1, <2>2, <2>5, <2>6
<1>11. ASSUME Reason(Fused) = "MultiLaneCorroboration"
       PROVE  \E i, j \in DOMAIN Fused.evidence :
                 Fused.evidence[i].source # Fused.evidence[j].source
  <2>1. \E a, b \in EvidenceSet(Fused) : a.source # b.source
    BY <1>11 DEF Reason
  <2> QED
    BY <2>1 DEF EvidenceSet
<1>12. ASSUME NEW h \in Hosts, NEW i \in DOMAIN state'[h].evidence
       PROVE  Genuine(origin, state'[h].evidence[i])
  <2>1. \/ state'[h] = Vacant
        \/ state'[h] = state[h]
        \/ state'[h] = Fused
        \/ state'[h] = [Fused EXCEPT !.finalized = TRUE]
    BY HandleState
  <2>2. CASE state'[h] = Vacant
    BY <2>2 DEF Vacant
  <2>3. CASE state'[h] = state[h]
    BY <2>3 DEF EvidenceInv
  <2>4. CASE state'[h].evidence = Fused.evidence
    BY <1>9, <2>4
  <2>5. [Fused EXCEPT !.finalized = TRUE].evidence = Fused.evidence
    BY <1>2 DEF HostRecord
  <2> QED
    BY <2>1, <2>2, <2>3, <2>4, <2>5
<1>13. ASSUME NEW v \in decided'
       PROVE  /\ \A i \in DOMAIN v.evidence : Genuine(origin, v.evidence[i])
              /\ Decisive(v.evidence)
              /\ v.reason = "MultiLaneCorroboration"
                   => \E i, j \in DOMAIN v.evidence : v.evidence[i].source # v.evidence[j].source
  <2>1. CASE v \in decided
    BY <2>1 DEF EvidenceInv
  <2>2. CASE v = v0 /\ Emits(Fused)
    BY <1>5, <1>9, <1>10, <1>11, <2>2
  <2> QED
    BY <1>1, <2>1, <2>2
<1>14. \A i \in DOMAIN out' : out'[i] \in decided'
  <2>1. out \in Seq(Verdict)
    BY DEF TypeOK
  <2>2. CASE out' = out
    BY <1>1, <2>2 DEF EvidenceInv
  <2>3. CASE out' = Append(out, v0) /\ Emits(Fused)
    <3>1. \A i \in DOMAIN out' : (i \in DOMAIN out /\ out'[i] = out[i]) \/ out'[i] = v0
      BY <2>1, <2>3
    <3> QED
      BY <1>1, <2>3, <3>1 DEF EvidenceInv
  <2> QED
    BY <1>1, <2>2, <2>3
<1>15. \A i \in DOMAIN chan' : Genuine(origin, chan'[i])
  BY <1>6 DEF EvidenceInv
<1> QED
  BY <1>1, <1>12, <1>13, <1>14, <1>15 DEF EvidenceInv

\* What moves an event or forgets a record makes no evidence.
LEMMA MoveGenuine ==
    ASSUME TypeOK, EvidenceInv, origin' = origin,
           (\E l \in Lanes : TrySend(l)) \/ SweepExpired \/ Consume
           \/ UNCHANGED <<staged, chan, state, out, submitted, decided>>
    PROVE  EvidenceInv'
<1>1. ASSUME NEW l \in Lanes, TrySend(l) PROVE EvidenceInv'
  <2>1. /\ staged \in [Lanes -> Seq(Event)] /\ chan \in Seq(Event)
        /\ staged[l] # <<>> /\ staged' = [staged EXCEPT ![l] = <<>>]
        /\ UNCHANGED <<state, out, submitted, decided>>
        /\ chan' = chan \/ chan' = Append(chan, Head(staged[l]))
    BY <1>1 DEF TrySend, TypeOK
  <2>2. Head(staged[l]) = staged[l][1] /\ 1 \in DOMAIN staged[l]
    BY <2>1
  <2>3. Genuine(origin, Head(staged[l]))
    BY <2>2 DEF EvidenceInv
  <2>4. \A i \in DOMAIN chan' : (i \in DOMAIN chan /\ chan'[i] = chan[i]) \/ chan'[i] = Head(staged[l])
    <3>1. PICK e \in Event : e = Head(staged[l])
      BY <2>1
    <3>2. chan' = chan \/ chan' = Append(chan, e)
      BY <2>1, <3>1
    <3>3. \A i \in DOMAIN Append(chan, e) :
             (i \in DOMAIN chan /\ Append(chan, e)[i] = chan[i]) \/ Append(chan, e)[i] = e
      BY <2>1
    <3> QED
      BY <3>1, <3>2, <3>3
  <2>5. \A i \in DOMAIN chan' : Genuine(origin, chan'[i])
    BY <2>3, <2>4 DEF EvidenceInv
  <2>6. \A k \in Lanes : \A i \in DOMAIN staged'[k] : k # l /\ staged'[k] = staged[k]
    BY <2>1
  <2>7. \A k \in Lanes : \A i \in DOMAIN staged'[k] : Genuine(origin, staged'[k][i])
    BY <2>6 DEF EvidenceInv
  <2> QED
    BY <2>1, <2>5, <2>7 DEF EvidenceInv
<1>2. CASE SweepExpired
  <2>1. \A h \in Hosts : state'[h] = Vacant \/ state'[h] = state[h]
    BY <1>2 DEF SweepExpired
  <2>2. \A h \in Hosts : \A i \in DOMAIN state'[h].evidence : state'[h] = state[h]
    BY <2>1 DEF Vacant
  <2>3. \A h \in Hosts : \A i \in DOMAIN state'[h].evidence : Genuine(origin, state'[h].evidence[i])
    BY <2>2 DEF EvidenceInv
  <2> QED
    BY <1>2, <2>3 DEF SweepExpired, EvidenceInv
<1>3. CASE Consume
  <2>1. out \in Seq(Verdict) /\ out # <<>> /\ out' = Tail(out)
    BY <1>3 DEF Consume, TypeOK
  <2>2. /\ out' \in Seq(Verdict) /\ Len(out') = Len(out) - 1
        /\ \A i \in 1..Len(out') : out'[i] = out[i + 1]
    BY <2>1, HeadTailProperties
  <2>3. \A i \in DOMAIN out' : i + 1 \in DOMAIN out /\ out'[i] = out[i + 1]
    <3>1. DOMAIN out = 1..Len(out) /\ DOMAIN out' = 1..Len(out') /\ Len(out) \in Nat
      BY <2>1, <2>2, LenProperties
    <3> QED
      BY <2>2, <3>1
  <2> QED
    BY <1>3, <2>3 DEF Consume, EvidenceInv
<1>4. CASE UNCHANGED <<staged, chan, state, out, submitted, decided>>
  BY <1>4 DEF EvidenceInv
<1> QED
  BY <1>1, <1>2, <1>3, <1>4

\* Every step of the lanes.
LEMMA EvidenceStep ==
    ASSUME TypeOK, NoMissedEmission, TaskInv, nextPoint \in Nat, scanned \in Nat, EvidenceInv,
           [LanesNext]_allVars
    PROVE  EvidenceInv'
<1>0. submitted \in Nat /\ now \in Nat
  BY DEF TypeOK
<1>1. /\ "Xdp" \in Lanes /\ "ClamAv" \in Lanes /\ "Spectral" \in Lanes
      /\ Medium \in Severity /\ High \in Severity /\ Critical \in Severity
      /\ 6 \in Confidence /\ 10 \in Confidence
  BY DEF Lanes, Severity, Confidence, Low, Medium, High, Critical
<1>2. CASE ReadAlert
  <2>1. AlertHost(Head(log).alert) \in Hosts /\ Head(log).line \in Nat
    BY <1>2, HeadOfLog DEF ReadAlert, LogLines
  <2>2. PICK e \in Event : /\ e = NewEvent(AlertHost(Head(log).alert), "Xdp", High, 6)
                           /\ e.id = submitted
    BY <1>1, <2>1, NewEventType
  <2>3. Stage(e) /\ e.source = "Xdp" /\ e.confidence = 6
    BY <1>2, <2>2 DEF ReadAlert, SubmitAlert, XdpSubmit, NewEvent
  <2>4. PICK o : o = <<"line", Head(log).line>>
    OBVIOUS
  <2>5. o \in Origins /\ o[1] = "line" /\ origin' = Append(origin, o)
    BY <1>2, <2>1, <2>4 DEF Origins, ReadAlert
  <2> QED
    BY <2>2, <2>3, <2>5, StageGenuine
<1>3. CASE UpsertAndSubmit
  <2>1. AlertHost(task.alert) \in Hosts /\ task.score \in Int /\ task.line \in Nat
    BY <1>3, CorrelationAssumption DEF UpsertAndSubmit, TaskInv, LaneTasks
  <2> DEFINE score == Normalized(task.score)
  <2>2. score \in Int
    BY <2>1 DEF Normalized
  <2> HIDE DEF score
  <2>3. PICK e \in Event :
             /\ e = NewEvent(AlertHost(task.alert), "Spectral", ScoreSeverity(score), Clamp(score))
             /\ e.id = submitted
    BY <1>1, <2>1, <2>2, ScoreRange, NewEventType
  <2>4. /\ Stage(e) /\ e.source = "Spectral" /\ e.severity = ScoreSeverity(score)
        /\ e.confidence = Clamp(score)
    BY <1>3, <2>3 DEF UpsertAndSubmit, SpectralSubmit, NewEvent, score
  <2>5. e.severity # Critical => e.confidence <= 8
    BY <2>2, <2>4 DEF ScoreSeverity, Clamp, Critical
  <2>6. PICK o : o = <<"line", task.line, nextPoint>>
    OBVIOUS
  <2>7. o \in Origins /\ o[1] = "line" /\ origin' = Append(origin, o)
    BY <1>3, <2>1, <2>6 DEF Origins, UpsertAndSubmit
  <2> QED
    BY <2>3, <2>4, <2>5, <2>7, StageGenuine
<1>4. CASE FileInfected
  <2>1. PICK h \in Files, quarantined \in BOOLEAN : ClamAvSubmit(h, quarantined)
    BY <1>4 DEF FileInfected
  <2>2. PICK severity \in Severity : severity = IF quarantined THEN High ELSE Medium
    BY <1>1
  <2>3. PICK e \in Event : e = NewEvent(h, "ClamAv", severity, 10) /\ e.id = submitted
    BY <1>1, LanesAssumption, NewEventType
  <2>4. Stage(e) /\ e.source = "ClamAv"
    BY <2>1, <2>2, <2>3 DEF ClamAvSubmit, NewEvent
  <2>5. PICK o : o = <<"file", scanned + 1>>
    OBVIOUS
  <2>6. o \in Origins /\ o[1] = "file" /\ origin' = Append(origin, o)
    BY <1>4, <2>5 DEF Origins, FileInfected
  <2> QED
    BY <2>3, <2>4, <2>6, StageGenuine
<1>5. CASE HandleVerdict
  BY <1>5, MoveGenuine DEF HandleVerdict
<1>6. CASE Correlate
  <2>1. origin' = origin
    BY <1>6 DEF Correlate, laneVars
  <2>2. CASE Tick
    BY <2>1, <2>2, MoveGenuine DEF Tick
  <2> QED
    BY <1>6, <2>1, <2>2, MoveGenuine, HandleGenuine DEF Correlate
<1>7. CASE Write \/ WriteTorn \/ ReadFails \/ SkipLine \/ NoFlow \/ Ingest \/ Trace
           \/ UpsertFails \/ UNCHANGED allVars
  <2>1. UNCHANGED <<vars, origin>>
    BY <1>7 DEF Write, WriteTorn, ReadFails, SkipLine, NoFlow, Ingest, Trace, UpsertFails,
                allVars, laneVars
  <2> QED
    BY <2>1, MoveGenuine DEF vars
<1> QED
  BY <1>2, <1>3, <1>4, <1>5, <1>6, <1>7 DEF LanesNext

\* The points the lane has stored, and the counters beside them.
PointsInv == nextPoint \in Nat /\ scanned \in Nat /\ EvidenceStored

LEMMA PointsStep ==
    ASSUME origin \in Seq(Origins), TaskInv, PointsInv, [LanesNext]_allVars
    PROVE  PointsInv'
<1> USE DEF PointsInv, EvidenceStored
<1>1. ASSUME NEW o, origin' = Append(origin, o), points \subseteq points',
             Len(o) = 3 => o[3] \in points'
      PROVE  EvidenceStored'
  <2>1. \A i \in DOMAIN origin' : (i \in DOMAIN origin /\ origin'[i] = origin[i]) \/ origin'[i] = o
    BY <1>1
  <2> QED
    BY <1>1, <2>1
<1>2. CASE ReadAlert
  <2>1. PICK o : o = <<"line", Head(log).line>>
    OBVIOUS
  <2>2. Len(o) = 2
    BY <2>1
  <2> QED
    BY <1>1, <1>2, <2>1, <2>2 DEF ReadAlert, spectral
<1>3. CASE UpsertAndSubmit
  <2>1. PICK o : o = <<"line", task.line, nextPoint>>
    OBVIOUS
  <2>2. o[3] = nextPoint
    BY <2>1
  <2> QED
    BY <1>1, <1>3, <2>1, <2>2 DEF UpsertAndSubmit, Stored
<1>4. CASE FileInfected
  <2>1. PICK o : o = <<"file", scanned + 1>>
    OBVIOUS
  <2>2. Len(o) = 2
    BY <2>1
  <2> QED
    BY <1>1, <1>4, <2>1, <2>2 DEF FileInfected, spectral
<1>5. CASE UpsertFails
  BY <1>5 DEF UpsertFails
<1>6. CASE Write \/ WriteTorn \/ ReadFails \/ SkipLine \/ NoFlow \/ Ingest \/ Trace
           \/ HandleVerdict \/ Correlate \/ UNCHANGED allVars
  <2>1. UNCHANGED <<origin, points, nextPoint, scanned>>
    BY <1>6 DEF Write, WriteTorn, ReadFails, SkipLine, NoFlow, Ingest, Trace, HandleVerdict,
                Correlate, allVars, laneVars, spectral
  <2> QED
    BY <2>1
<1> QED
  BY <1>2, <1>3, <1>4, <1>5, <1>6 DEF LanesNext

---------------------------------------------------------------------------
(* A verdict that is confident enough                                      *)

\* Evidence without a file's falls short of nine tenths on average: all but its last
\* piece are of one lane, nsm's or the spectral one's, and not critical.
LEMMA ConfidentHasFile ==
    ASSUME NEW v \in Verdict, Decisive(v.evidence),
           NEW origins, \A i \in DOMAIN v.evidence : Genuine(origins, v.evidence[i]),
           \E i, j \in DOMAIN v.evidence : v.evidence[i].source # v.evidence[j].source,
           Confident(v)
    PROVE  \E i \in DOMAIN v.evidence : v.evidence[i].source = "ClamAv"
<1> SUFFICES ASSUME \A i \in DOMAIN v.evidence : v.evidence[i].source # "ClamAv"
             PROVE  FALSE
  OBVIOUS
<1> PICK s \in Seq(Event) : s = v.evidence
  BY DEF Verdict
<1> DEFINE n == Len(s)
           below == (1..(n - 1)) \X (1..8)
           last  == {n} \X (1..10)
<1>1. n \in Nat /\ DOMAIN s = 1..n
  OBVIOUS
<1>2. ASSUME NEW i \in 1..n
      PROVE  /\ s[i] \in Event /\ s[i].source \in {"Xdp", "Spectral"}
             /\ s[i].confidence \in 0..10
             /\ s[i].source = "Xdp" => s[i].confidence = 6
             /\ s[i].source = "Spectral" /\ s[i].severity # Critical => s[i].confidence <= 8
  <2>1. s[i] \in Event
    BY <1>1
  <2>2. s[i].source \in Lanes /\ s[i].source # "ClamAv" /\ s[i].confidence \in 0..10
    BY <1>1, <2>1 DEF Event, Confidence
  <2>3. Genuine(origins, s[i])
    BY <1>1
  <2> QED
    BY <2>1, <2>2, <2>3 DEF Genuine, Lanes
<1>3. n >= 2
  <2>1. PICK i \in 1..n, j \in 1..n : s[i].source # s[j].source
    BY <1>1
  <2>2. i # j
    BY <2>1
  <2> QED
    BY <1>1, <2>2
<1>4. \A i \in 1..(n - 1) : s[i].severity # Critical
  BY DEF Decisive
<1>5. \A i \in 1..(n - 1) : s[i].confidence <= 8
  <2> SUFFICES ASSUME NEW i \in 1..(n - 1) PROVE s[i].confidence <= 8
    OBVIOUS
  <2>1. i \in 1..n
    BY <1>1
  <2> QED
    BY <1>2, <1>4, <2>1
<1>6. Tenths(v) \subseteq below \union last
  <2> SUFFICES ASSUME NEW i \in 1..n, NEW c \in 1..10, c <= s[i].confidence
               PROVE  <<i, c>> \in below \union last
    BY <1>1 DEF Tenths
  <2>1. CASE i = n
    BY <2>1
  <2>2. CASE i # n
    <3>1. i \in 1..(n - 1) /\ s[i].confidence <= 8 /\ s[i].confidence \in 0..10
      BY <1>1, <1>2, <1>5, <2>2
    <3>2. c \in 1..8
      BY <3>1, SMTT(20)
    <3> QED
      BY <3>1, <3>2
  <2> QED
    BY <2>1, <2>2
<1>7. IsFiniteSet(below) /\ Cardinality(below) = (n - 1) * 8
  <2>1. /\ IsFiniteSet(1..(n - 1)) /\ Cardinality(1..(n - 1)) = n - 1
        /\ IsFiniteSet(1..8) /\ Cardinality(1..8) = 8
    <3>1. n - 1 \in Int /\ 1 \in Int /\ 8 \in Int
      BY <1>1
    <3>2. /\ IsFiniteSet(1..(n - 1))
          /\ Cardinality(1..(n - 1)) = IF 1 > n - 1 THEN 0 ELSE (n - 1) - 1 + 1
      BY <3>1, FS_Interval
    <3>3. IsFiniteSet(1..8) /\ Cardinality(1..8) = IF 1 > 8 THEN 0 ELSE 8 - 1 + 1
      BY <3>1, FS_Interval
    <3> HIDE DEF n
    <3> QED
      BY <1>1, <1>3, <3>2, <3>3
  <2> HIDE DEF n
  <2>2. IsFiniteSet(below) /\ Cardinality(below) = Cardinality(1..(n - 1)) * Cardinality(1..8)
    BY <2>1, FS_Product
  <2> HIDE DEF below
  <2> QED
    BY <2>1, <2>2
<1>8. IsFiniteSet(last) /\ Cardinality(last) = 10
  <2>1. /\ IsFiniteSet({n}) /\ Cardinality({n}) = 1
        /\ IsFiniteSet(1..10) /\ Cardinality(1..10) = 10
    <3>1. 1 \in Int /\ 10 \in Int
      OBVIOUS
    <3>2. IsFiniteSet(1..10) /\ Cardinality(1..10) = IF 1 > 10 THEN 0 ELSE 10 - 1 + 1
      BY <3>1, FS_Interval
    <3>3. IsFiniteSet({n}) /\ Cardinality({n}) = 1
      BY FS_Singleton
    <3> QED
      BY <3>2, <3>3
  <2>2. IsFiniteSet(last) /\ Cardinality(last) = 1 * 10
    BY <2>1, FS_Product, SMTT(20)
  <2> QED
    BY <2>2
<1> HIDE DEF below, last
<1>9. Cardinality(Tenths(v)) <= (n - 1) * 8 + 10
  <2>1. below \intersect last = {}
    BY <1>1 DEF below, last
  <2>2. IsFiniteSet(below \union last)
        /\ Cardinality(below \union last) = Cardinality(below) + Cardinality(last)
                                             - Cardinality(below \intersect last)
    BY <1>7, <1>8, FS_Union
  <2>3. Cardinality(below \union last) = (n - 1) * 8 + 10
    <3>1. Cardinality(below \intersect last) = 0
      BY <2>1, FS_EmptySet
    <3> HIDE DEF n
    <3>2. (n - 1) * 8 \in Int
      BY <1>1
    <3> QED
      BY <1>7, <1>8, <2>2, <3>1, <3>2
  <2>4. IsFiniteSet(Tenths(v)) /\ Cardinality(Tenths(v)) <= Cardinality(below \union last)
    BY <1>6, <2>2, FS_Subset
  <2> QED
    BY <2>3, <2>4
<1>10. Cardinality(Tenths(v)) > 9 * n
  BY DEF Confident
<1>11. Cardinality(Tenths(v)) \in Int
  <2>1. IsFiniteSet(Tenths(v))
    <3>1. IsFiniteSet(below \union last)
      BY <1>7, <1>8, FS_Union
    <3> QED
      BY <1>6, <3>1, FS_Subset
  <2> QED
    BY <2>1, FS_CardinalityType
<1> QED
  BY <1>1, <1>3, <1>9, <1>10, <1>11

Places == Hosts \union {a.dst : a \in Alerts} \union {Anchor}

LEMMA PlacesAreNoHub == Hub \notin Places
BY LanesAssumption DEF Places, Anchor, Hub

\* A host tied to the anchor has a verdict with evidence of a file and other evidence.
ContainedInv ==
    /\ edges \in Seq(Places \X Places)
    /\ \A i \in DOMAIN edges :
         edges[i][2] = Anchor
         => \E v \in decided :
              /\ v.host = edges[i][1]
              /\ \E j, k \in DOMAIN v.evidence :
                    v.evidence[j].source = "ClamAv" /\ v.evidence[k].source # "ClamAv"

LEMMA ContainedStep ==
    ASSUME TypeOK, TaskInv, EvidenceInv, ContainedInv, [LanesNext]_allVars
    PROVE  ContainedInv'
<1>1. decided \subseteq decided'
  <2>1. CASE HandleEvent
    BY <2>1 DEF HandleEvent
  <2>2. CASE UNCHANGED decided
    BY <2>2
  <2>3. HandleEvent \/ UNCHANGED decided
    BY LanesStep DEF Next, Submit, XdpSubmit, ClamAvSubmit, SpectralSubmit, Stage, TrySend,
       DropSender, SweepExpired, Shutdown, Consume, CloseOut, Tick, vars
  <2> QED
    BY <2>1, <2>2, <2>3
<1>2. ASSUME UNCHANGED edges PROVE ContainedInv'
  BY <1>1, <1>2 DEF ContainedInv
<1>3. ASSUME NEW a \in Places, NEW b \in Places, edges' = Append(edges, <<a, b>>),
             b = Anchor
             => \E v \in decided :
                  /\ v.host = a
                  /\ \E j, k \in DOMAIN v.evidence :
                        v.evidence[j].source = "ClamAv" /\ v.evidence[k].source # "ClamAv"
      PROVE  ContainedInv'
  <2>1. PICK e \in Places \X Places : e = <<a, b>>
    OBVIOUS
  <2>2. edges \in Seq(Places \X Places) /\ edges' = Append(edges, e)
    BY <1>3, <2>1 DEF ContainedInv
  <2>3. /\ edges' \in Seq(Places \X Places)
        /\ \A i \in DOMAIN edges' : (i \in DOMAIN edges /\ edges'[i] = edges[i]) \/ edges'[i] = e
    BY <2>2
  <2>4. e[1] = a /\ e[2] = b
    BY <2>1
  <2>5. ASSUME NEW i \in DOMAIN edges', edges'[i][2] = Anchor
        PROVE  \E v \in decided :
                 /\ v.host = edges'[i][1]
                 /\ \E j, k \in DOMAIN v.evidence :
                       v.evidence[j].source = "ClamAv" /\ v.evidence[k].source # "ClamAv"
    <3>1. CASE i \in DOMAIN edges /\ edges'[i] = edges[i]
      BY <2>5, <3>1 DEF ContainedInv
    <3>2. CASE edges'[i] = e
      BY <1>3, <2>4, <2>5, <3>2
    <3> QED
      BY <2>3, <3>1, <3>2
  <2> QED
    BY <1>1, <2>3, <2>5 DEF ContainedInv
<1>4. CASE Ingest
  <2>1. task.alert \in Alerts /\ task.alert.src \in Hosts
    BY <1>4, LanesAssumption DEF Ingest, TaskInv, NoHost
  <2>2. PICK b : b = FlowTarget(task.alert)
    OBVIOUS
  <2>3. b \in Places /\ b # Anchor
    <3>1. task.alert.dst \in Places /\ task.alert.dst # Anchor
      BY <2>1, LanesAssumption DEF Places
    <3>2. task.alert.src \in Places /\ task.alert.src # Anchor
      BY <2>1, LanesAssumption DEF Places
    <3> QED
      BY <2>2, <3>1, <3>2 DEF FlowTarget
  <2>4. edges' = Append(edges, <<task.alert.src, b>>)
    BY <1>4, <2>2 DEF Ingest, GraphEdge, Row
  <2> QED
    BY <1>3, <2>1, <2>3, <2>4 DEF Places
<1>5. CASE HandleVerdict
  <2>1. CASE edges' = edges
    BY <1>2, <2>1
  <2>2. CASE Cleared(Head(out)) /\ edges' = Append(edges, <<Head(out).host, Anchor>>)
    <3>1. PICK v : v = Head(out)
      OBVIOUS
    <3>2. v \in Verdict /\ v \in decided
      <4>1. out \in Seq(Verdict) /\ out # <<>>
        BY <1>5 DEF HandleVerdict, Consume, TypeOK
      <4>2. v = out[1] /\ 1 \in DOMAIN out /\ v \in Verdict
        BY <3>1, <4>1
      <4> QED
        BY <4>2 DEF EvidenceInv
    <3>3. v.host \in Places /\ v.reason = "MultiLaneCorroboration" /\ Confident(v)
      BY <2>2, <3>1, <3>2 DEF Verdict, Places, Cleared, OutOfDistribution
    <3>4. /\ \A i \in DOMAIN v.evidence : Genuine(origin, v.evidence[i])
          /\ Decisive(v.evidence)
          /\ \E i, j \in DOMAIN v.evidence : v.evidence[i].source # v.evidence[j].source
      BY <3>2, <3>3 DEF EvidenceInv
    <3>5. \E i \in DOMAIN v.evidence : v.evidence[i].source = "ClamAv"
      BY <3>2, <3>3, <3>4, ConfidentHasFile
    <3>6. \E j, k \in DOMAIN v.evidence :
             v.evidence[j].source = "ClamAv" /\ v.evidence[k].source # "ClamAv"
      BY <3>4, <3>5
    <3>7. Anchor \in Places
      BY DEF Places
    <3> QED
      BY <1>3, <2>2, <3>1, <3>2, <3>3, <3>6, <3>7
  <2> QED
    BY <1>5, <2>1, <2>2 DEF HandleVerdict
<1>6. CASE ~Ingest /\ ~HandleVerdict
  <2>1. UNCHANGED edges
    BY <1>6 DEF LanesNext, Write, WriteTorn, ReadFails, SkipLine, ReadAlert, NoFlow, Trace,
                UpsertFails, UpsertAndSubmit, FileInfected, Correlate, laneVars, allVars, spectral
  <2> QED
    BY <1>2, <2>1
<1> QED
  BY <1>4, <1>5, <1>6

LEMMA ContainedFollows ==
    ASSUME EvidenceInv, ContainedInv
    PROVE  ContainedOnTwoObservations
<1> SUFFICES ASSUME NEW i \in DOMAIN edges, edges[i][2] = Anchor
             PROVE  \E v \in decided :
                      /\ v.host = edges[i][1]
                      /\ {origin[v.evidence[j].id + 1][1] : j \in DOMAIN v.evidence}
                           = {"line", "file"}
  BY DEF ContainedOnTwoObservations
<1>1. PICK v \in decided :
             /\ v.host = edges[i][1]
             /\ \E j, k \in DOMAIN v.evidence :
                   v.evidence[j].source = "ClamAv" /\ v.evidence[k].source # "ClamAv"
  BY DEF ContainedInv
<1>2. \A j \in DOMAIN v.evidence :
        origin[v.evidence[j].id + 1][1] = IF v.evidence[j].source = "ClamAv" THEN "file" ELSE "line"
  BY DEF EvidenceInv, Genuine
<1>3. {origin[v.evidence[j].id + 1][1] : j \in DOMAIN v.evidence} = {"line", "file"}
  BY <1>1, <1>2
<1> QED
  BY <1>1, <1>3

LanesInv == TaskInv /\ PointsInv /\ EvidenceInv /\ ContainedInv

LEMMA LanesInvariant == LanesSpec => []LanesInv
<1>1. LanesSpec => [](TypeOK /\ EvidenceCountsOnce)
  BY LanesRefineCorrelation, TypeCorrect, EvidenceCounted, PTL
<1>2. LanesInit => LanesInv
  <2> SUFFICES ASSUME LanesInit PROVE LanesInv
    OBVIOUS
  <2>1. TaskInv
    BY TaskInit
  <2>2. PointsInv
    BY DEF LanesInit, PointsInv, EvidenceStored
  <2>3. EvidenceInv
    BY DEF LanesInit, Init, EvidenceInv, Vacant
  <2>4. ContainedInv
    BY DEF LanesInit, ContainedInv
  <2> QED
    BY <2>1, <2>2, <2>3, <2>4 DEF LanesInv
<1>3. TypeOK /\ EvidenceCountsOnce /\ LanesInv /\ [LanesNext]_allVars => LanesInv'
  <2> SUFFICES ASSUME TypeOK, EvidenceCountsOnce, LanesInv, [LanesNext]_allVars PROVE LanesInv'
    OBVIOUS
  <2> USE DEF LanesInv
  <2>1. TaskInv'
    BY TaskStep
  <2>2. PointsInv'
    BY PointsStep DEF EvidenceInv
  <2>3. EvidenceInv'
    BY EvidenceStep DEF EvidenceCountsOnce, PointsInv
  <2>4. ContainedInv'
    BY ContainedStep
  <2> QED
    BY <2>1, <2>2, <2>3, <2>4
<1> QED
  BY <1>1, <1>2, <1>3, PTL DEF LanesSpec

\* Whatever lines and files the lanes see, however often one line counts and whatever
\* calls fail, a host is contained without a human only after an observation of its
\* traffic and one of its files, and spectral evidence has its stored flow
\* (verdict_to_flow_prediction, ReviewTrigger::evaluate, ingest_cic).
THEOREM ContainmentIsTraceable == LanesSpec => []ContainmentTraceable
<1>1. LanesInv => ContainmentTraceable
  BY ContainedFollows DEF LanesInv, ContainmentTraceable, PointsInv
<1> QED
  BY <1>1, LanesInvariant, PTL

---------------------------------------------------------------------------
(* The graph that is embedded                                              *)

\* Natural numbers from a set that has no least missing one.
LEMMA EveryNumber ==
    ASSUME NEW T, 0 \in T, \A n \in Nat : n \in T => n + 1 \in T
    PROVE  \A n \in Nat : n \in T
<1> DEFINE R == {p \in Nat \X Nat : p[1] < p[2]}
           Missing == {n \in Nat : n \notin T}
<1>0. IsWellFoundedOn(R, Nat)
  BY NatLessThanWellFounded DEF OpToRel
<1>1. CASE Missing # {}
  <2>1. PICK n \in Missing : \A m \in Missing : ~(<<m, n>> \in R)
    <3>1. Missing \subseteq Nat
      OBVIOUS
    <3> HIDE DEF R, Missing
    <3> QED
      BY <1>0, <1>1, <3>1, WFMin
  <2>2. n \in Nat \ {0} /\ n - 1 \in Nat /\ (n - 1) + 1 = n
    OBVIOUS
  <2>3. n - 1 \in Missing
    BY <2>2
  <2>4. <<n - 1, n>> \in R
    BY <2>2
  <2> QED
    BY <2>1, <2>3, <2>4
<1>2. CASE Missing = {}
  BY <1>2
<1> QED
  BY <1>1, <1>2

\* The rings around node zero that bfs_distances goes through.
IsRing(ring, n, links, zero) ==
    /\ ring[0] = {zero}
    /\ \A d \in 1..n : ring[d] = ring[d - 1] \union Neighbours(ring[d - 1], links)

RingEquation(f, n, links, zero) ==
    f = [d \in 0..n |-> IF d = 0 THEN {zero} ELSE f[d - 1] \union Neighbours(f[d - 1], links)]

LEMMA RingExists ==
    ASSUME NEW links, NEW zero, NEW n \in Nat
    PROVE  \E ring : RingEquation(ring, n, links, zero)
<1> DEFINE Ring(f, k) == RingEquation(f, k, links, zero)
           T == {k \in Nat : \E f : Ring(f, k)}
<1>1. 0 \in T
  <2>1. Ring([d \in 0..0 |-> {zero}], 0)
    BY DEF RingEquation
  <2> QED
    BY <2>1
<1>2. ASSUME NEW k \in Nat, k \in T PROVE k + 1 \in T
  <2>1. PICK f : Ring(f, k)
    BY <1>2
  <2> DEFINE g == [d \in 0..(k + 1) |-> IF d = k + 1 THEN f[k] \union Neighbours(f[k], links)
                                        ELSE f[d]]
  <2>2. \A d \in 0..k : g[d] = f[d]
    OBVIOUS
  <2>3. /\ f[0] = {zero}
        /\ \A d \in 1..k : f[d] = f[d - 1] \union Neighbours(f[d - 1], links)
    <3>1. \A d \in 0..k : f[d] = IF d = 0 THEN {zero}
                                 ELSE f[d - 1] \union Neighbours(f[d - 1], links)
      BY <2>1 DEF RingEquation
    <3>2. f[0] = {zero}
      <4>1. 0 \in 0..k
        OBVIOUS
      <4> QED
        BY <3>1, <4>1
    <3>3. ASSUME NEW d \in 1..k PROVE f[d] = f[d - 1] \union Neighbours(f[d - 1], links)
      <4>1. d \in 0..k /\ d # 0
        OBVIOUS
      <4> QED
        BY <3>1, <4>1
    <3> QED
      BY <3>2, <3>3
  <2>4. \A d \in 0..(k + 1) : g[d] = IF d = 0 THEN {zero}
                                     ELSE g[d - 1] \union Neighbours(g[d - 1], links)
    <3> SUFFICES ASSUME NEW d \in 0..(k + 1)
                 PROVE  g[d] = IF d = 0 THEN {zero}
                               ELSE g[d - 1] \union Neighbours(g[d - 1], links)
      OBVIOUS
    <3>1. CASE d = k + 1
      <4>1. g[d] = f[k] \union Neighbours(f[k], links) /\ g[d - 1] = f[k] /\ d # 0
        BY <2>2, <3>1
      <4> QED
        BY <4>1
    <3>2. CASE d = 0
      BY <2>2, <2>3, <3>2
    <3>3. CASE d \in 1..k
      <4>1. g[d] = f[d] /\ g[d - 1] = f[d - 1] /\ d # 0
        BY <2>2, <3>3
      <4> QED
        BY <2>3, <3>3, <4>1
    <3> QED
      BY <3>1, <3>2, <3>3
  <2>5. DOMAIN g = 0..(k + 1) /\ g = [d \in DOMAIN g |-> g[d]]
    OBVIOUS
  <2> HIDE DEF g
  <2>6. Ring(g, k + 1)
    BY <2>4, <2>5 DEF RingEquation
  <2> QED
    BY <2>6
<1> HIDE DEF T
<1>3. n \in T
  BY <1>1, <1>2, EveryNumber
<1> QED
  BY <1>3 DEF T

LEMMA ReachedRing ==
    ASSUME NEW nodes, NEW links, NEW zero, Cardinality(nodes) \in Nat
    PROVE  \E ring : /\ IsRing(ring, Cardinality(nodes), links, zero)
                     /\ Reached(nodes, links, zero) = ring[Cardinality(nodes)]
<1> PICK n \in Nat : n = Cardinality(nodes)
  OBVIOUS
<1> DEFINE ring == CHOOSE f : RingEquation(f, n, links, zero)
<1>1. \E f : RingEquation(f, n, links, zero)
  BY RingExists
<1>2. RingEquation(ring, n, links, zero)
  BY <1>1
<1>3. Reached(nodes, links, zero) = ring[n]
  BY DEF Reached, RingEquation
<1> HIDE DEF ring
<1>4. \A d \in 0..n : ring[d] = IF d = 0 THEN {zero}
                                ELSE ring[d - 1] \union Neighbours(ring[d - 1], links)
  BY <1>2 DEF RingEquation
<1>5. ring[0] = {zero}
  <2>1. 0 \in 0..n
    OBVIOUS
  <2> QED
    BY <1>4, <2>1
<1>6. ASSUME NEW d \in 1..n PROVE ring[d] = ring[d - 1] \union Neighbours(ring[d - 1], links)
  <2>1. d \in 0..n /\ d # 0
    OBVIOUS
  <2> QED
    BY <1>4, <2>1
<1> QED
  BY <1>3, <1>5, <1>6 DEF IsRing

\* A set with a link into every other set that holds node zero, is all there is.
LEMMA ReachedCut ==
    ASSUME NEW nodes, NEW links, NEW zero, Cardinality(nodes) \in Nat,
           NEW S, zero \in S, ~(Reached(nodes, links, zero) \subseteq S)
    PROVE  \E u \in S : \E v : v \notin S /\ {u, v} \in links
<1> PICK n \in Nat : n = Cardinality(nodes)
  OBVIOUS
<1>1. PICK ring : IsRing(ring, n, links, zero) /\ Reached(nodes, links, zero) = ring[n]
  BY ReachedRing
<1> SUFFICES ASSUME \A u \in S : \A v : {u, v} \in links => v \in S
             PROVE  FALSE
  OBVIOUS
<1> DEFINE T == {d \in Nat : d <= n => ring[d] \subseteq S}
<1>2. 0 \in T
  BY <1>1 DEF IsRing
<1>3. ASSUME NEW d \in Nat, d \in T PROVE d + 1 \in T
  <2> SUFFICES ASSUME d + 1 <= n PROVE ring[d + 1] \subseteq S
    OBVIOUS
  <2>1. ring[d] \subseteq S
    BY <1>3
  <2>2. d + 1 \in 1..n /\ (d + 1) - 1 = d
    OBVIOUS
  <2>3. ring[d + 1] = ring[d] \union Neighbours(ring[d], links)
    BY <1>1, <2>2 DEF IsRing
  <2> QED
    BY <2>1, <2>3 DEF Neighbours
<1> HIDE DEF T
<1>4. n \in T
  BY <1>2, <1>3, EveryNumber
<1> QED
  BY <1>1, <1>4 DEF T

\* After as many rings as there are nodes nothing more is reached.
LEMMA ReachedClosed ==
    ASSUME NEW nodes, NEW links, NEW zero, IsFiniteSet(nodes), zero \in nodes,
           \A l \in links : l \subseteq nodes
    PROVE  LET R == Reached(nodes, links, zero)
           IN  R \subseteq nodes /\ zero \in R /\ Neighbours(R, links) \subseteq R
<1>0. Cardinality(nodes) \in Nat
  BY FS_CardinalityType
<1> PICK n \in Nat : n = Cardinality(nodes)
  BY <1>0
<1>1. PICK ring : IsRing(ring, n, links, zero) /\ Reached(nodes, links, zero) = ring[n]
  BY ReachedRing
<1>2. ASSUME NEW d \in Nat, d + 1 <= n
      PROVE  ring[d + 1] = ring[d] \union Neighbours(ring[d], links)
  <2>1. d + 1 \in 1..n /\ (d + 1) - 1 = d
    BY <1>2
  <2> QED
    BY <1>1, <2>1 DEF IsRing
<1>3. \A S : Neighbours(S, links) \subseteq nodes
  BY DEF Neighbours
<1> DEFINE Within == {d \in Nat : d <= n => ring[d] \subseteq nodes /\ zero \in ring[d]}
           Closed(d) == Neighbours(ring[d], links) \subseteq ring[d]
<1>4. \A d \in Nat : d \in Within
  <2>1. 0 \in Within
    BY <1>1 DEF IsRing
  <2>2. \A d \in Nat : d \in Within => d + 1 \in Within
    BY <1>2, <1>3
  <2> HIDE DEF Within
  <2> QED
    BY <2>1, <2>2, EveryNumber
<1>5. \A d \in 0..n : Closed(d) => Closed(n)
  <2> SUFFICES ASSUME NEW d \in 0..n, Closed(d) PROVE Closed(n)
    OBVIOUS
  <2> DEFINE Same == {e \in Nat : d + e <= n => ring[d + e] = ring[d]}
  <2>1. 0 \in Same
    OBVIOUS
  <2>2. ASSUME NEW e \in Nat, e \in Same PROVE e + 1 \in Same
    <3> SUFFICES ASSUME d + (e + 1) <= n PROVE ring[d + (e + 1)] = ring[d]
      OBVIOUS
    <3>1. ring[d + e] = ring[d]
      BY <2>2
    <3>2. d + e \in Nat /\ (d + e) + 1 <= n /\ d + (e + 1) = (d + e) + 1
      OBVIOUS
    <3>3. ring[(d + e) + 1] = ring[d + e] \union Neighbours(ring[d + e], links)
      BY <1>2, <3>2
    <3> QED
      BY <3>1, <3>2, <3>3
  <2> HIDE DEF Same
  <2>3. n - d \in Same
    BY <2>1, <2>2, EveryNumber
  <2>4. ring[n] = ring[d]
    <3>1. d + (n - d) = n
      OBVIOUS
    <3>2. ring[d + (n - d)] = ring[d]
      BY <2>3, <3>1 DEF Same
    <3> QED
      BY <3>1, <3>2
  <2> QED
    BY <2>4
<1> HIDE DEF Closed
<1>6. Closed(n)
  <2> SUFFICES ASSUME ~Closed(n) PROVE FALSE
    OBVIOUS
  <2>1. \A d \in 0..n : ~Closed(d)
    BY <1>5
  <2> DEFINE Large == {d \in Nat : d <= n => /\ IsFiniteSet(ring[d])
                                            /\ Cardinality(ring[d]) >= d + 1}
  <2>2. 0 \in Large
    <3>1. ring[0] = {zero}
      BY <1>1 DEF IsRing
    <3>2. IsFiniteSet({zero}) /\ Cardinality({zero}) = 1
      BY FS_Singleton
    <3>3. IsFiniteSet(ring[0]) /\ Cardinality(ring[0]) >= 0 + 1
      BY <3>1, <3>2
    <3> QED
      BY <3>3
  <2>3. ASSUME NEW d \in Nat, d \in Large PROVE d + 1 \in Large
    <3> SUFFICES ASSUME d + 1 <= n
                 PROVE  IsFiniteSet(ring[d + 1]) /\ Cardinality(ring[d + 1]) >= (d + 1) + 1
      OBVIOUS
    <3>1. IsFiniteSet(ring[d]) /\ Cardinality(ring[d]) >= d + 1 /\ d \in 0..n
      BY <2>3
    <3>2. ring[d] \subseteq ring[d + 1] /\ ring[d + 1] # ring[d]
      <4>1. ~(Neighbours(ring[d], links) \subseteq ring[d])
        BY <2>1, <3>1 DEF Closed
      <4> QED
        BY <1>2, <4>1
    <3>3. IsFiniteSet(ring[d + 1])
      <4>1. ring[d + 1] \subseteq nodes
        BY <1>4
      <4> QED
        BY <4>1, FS_Subset
    <3>4. /\ Cardinality(ring[d]) <= Cardinality(ring[d + 1])
          /\ Cardinality(ring[d + 1]) # Cardinality(ring[d])
          /\ Cardinality(ring[d]) \in Nat /\ Cardinality(ring[d + 1]) \in Nat
      BY <3>1, <3>2, <3>3, FS_Subset, FS_CardinalityType
    <3> QED
      BY <3>1, <3>3, <3>4
  <2> HIDE DEF Large
  <2>4. n \in Large
    BY <2>2, <2>3, EveryNumber
  <2>5. Cardinality(ring[n]) >= n + 1 /\ IsFiniteSet(ring[n])
    BY <2>4 DEF Large
  <2>6. Cardinality(ring[n]) <= n /\ Cardinality(ring[n]) \in Nat
    <3>1. ring[n] \subseteq nodes
      BY <1>4
    <3> QED
      BY <2>5, <3>1, FS_Subset, FS_CardinalityType
  <2> QED
    BY <2>5, <2>6
<1> QED
  BY <1>1, <1>4, <1>6 DEF Closed

\* The links of a graph, each between two of its nodes.
IsGraph(nodes, links, zero) ==
    /\ IsFiniteSet(nodes)
    /\ zero \in nodes
    /\ \A l \in links : \E a, b \in nodes : l = {a, b}

\* When bfs_distances gives every node a distance, no cut separates a part.
LEMMA AllReached ==
    ASSUME NEW nodes, NEW links, NEW zero, IsGraph(nodes, links, zero),
           nodes \subseteq Reached(nodes, links, zero)
    PROVE  Connected(nodes, links)
<1>0. Cardinality(nodes) \in Nat
  BY FS_CardinalityType DEF IsGraph
<1> SUFFICES ASSUME NEW S \in (SUBSET nodes) \ {{}, nodes}
             PROVE  \E l \in links : l \cap S # {} /\ l \ S # {}
  BY DEF Connected
<1>1. CASE zero \in S
  <2>1. ~(Reached(nodes, links, zero) \subseteq S)
    OBVIOUS
  <2>2. PICK u \in S : \E v : v \notin S /\ {u, v} \in links
    BY <1>0, <1>1, <2>1, ReachedCut
  <2> QED
    BY <2>2
<1>2. CASE zero \notin S
  <2> DEFINE C == nodes \ S
  <2>1. zero \in C /\ ~(Reached(nodes, links, zero) \subseteq C)
    BY <1>2 DEF IsGraph
  <2>2. PICK u \in C : \E v : v \notin C /\ {u, v} \in links
    <3> HIDE DEF C
    <3> QED
      BY <1>0, <2>1, ReachedCut
  <2>3. PICK v : v \notin C /\ {u, v} \in links
    BY <2>2
  <2>4. v \in S /\ u \notin S
    <3>1. {u, v} \subseteq nodes
      BY <2>3 DEF IsGraph
    <3> QED
      BY <2>3, <3>1
  <2> QED
    BY <2>3, <2>4
<1> QED
  BY <1>1, <1>2

\* When it does not, what is reached is a part of its own.
LEMMA SomeStray ==
    ASSUME NEW nodes, NEW links, NEW zero, IsGraph(nodes, links, zero),
           ~(nodes \subseteq Reached(nodes, links, zero))
    PROVE  ~Connected(nodes, links)
<1> PICK R : R = Reached(nodes, links, zero)
  OBVIOUS
<1>1. R \subseteq nodes /\ zero \in R /\ Neighbours(R, links) \subseteq R
  <2>1. \A l \in links : l \subseteq nodes
    BY DEF IsGraph
  <2> QED
    BY <2>1, ReachedClosed DEF IsGraph
<1>2. R \in (SUBSET nodes) \ {{}, nodes}
  BY <1>1
<1> SUFFICES ASSUME NEW l \in links, l \cap R # {}, l \ R # {}
             PROVE  FALSE
  BY <1>2 DEF Connected
<1>3. PICK u \in l, v \in l : u \in R /\ v \notin R
  OBVIOUS
<1>4. l = {u, v}
  BY <1>3 DEF IsGraph
<1>5. v \in Neighbours(R, links)
  BY <1>3, <1>4 DEF Neighbours
<1> QED
  BY <1>1, <1>3, <1>5

\* The hub mends it: every stray node and node zero are stapled to it.
LEMMA HubMends ==
    ASSUME NEW nodes, NEW links, NEW zero, IsGraph(nodes, links, zero), Hub \notin nodes,
           NEW stray, stray = nodes \ Reached(nodes, links, zero)
    PROVE  Connected(nodes \union {Hub}, links \union Staples(stray, zero))
<1>0. Cardinality(nodes) \in Nat
  BY FS_CardinalityType DEF IsGraph
<1> DEFINE all == links \union Staples(stray, zero)
<1>1. \A x \in stray \union {zero} : {x, Hub} \in all
  BY DEF Staples
<1> HIDE DEF all
<1>2. ASSUME NEW S, NEW w \in nodes, Hub \in S, w \notin S
      PROVE  \E u \in S : \E v \in nodes : v \notin S /\ {u, v} \in all
  <2>1. CASE \E x \in stray \union {zero} : x \notin S
    <3>1. PICK x \in stray \union {zero} : x \notin S
      BY <2>1
    <3>2. {Hub, x} \in all /\ x \in nodes
      <4>1. {x, Hub} \in all
        BY <1>1
      <4>2. {x, Hub} = {Hub, x}
        OBVIOUS
      <4> QED
        BY <4>1, <4>2 DEF IsGraph
    <3> QED
      BY <1>2, <3>1, <3>2
  <2>2. CASE stray \union {zero} \subseteq S
    <3>1. zero \in S /\ ~(Reached(nodes, links, zero) \subseteq S)
      BY <1>2, <2>2
    <3>2. PICK u \in S : \E v : v \notin S /\ {u, v} \in links
      BY <1>0, <3>1, ReachedCut
    <3>3. PICK v : v \notin S /\ {u, v} \in links
      BY <3>2
    <3>4. v \in nodes
      BY <3>3 DEF IsGraph
    <3> QED
      BY <3>3, <3>4 DEF all
  <2> QED
    BY <2>1, <2>2
<1>3. ASSUME NEW S \in (SUBSET (nodes \union {Hub})) \ {{}, nodes \union {Hub}}
      PROVE  \E l \in all : l \cap S # {} /\ l \ S # {}
  <2>1. CASE Hub \in S
    <3>1. PICK w \in nodes : w \notin S
      BY <2>1
    <3>2. PICK u \in S : \E v \in nodes : v \notin S /\ {u, v} \in all
      BY <1>2, <2>1, <3>1
    <3> QED
      BY <3>2
  <2>2. CASE Hub \notin S
    <3> DEFINE C == (nodes \union {Hub}) \ S
    <3>1. PICK w \in nodes : w \in S
      BY <2>2
    <3>2. Hub \in C /\ w \notin C
      BY <2>2, <3>1
    <3>3. \A u \in C : u \notin S
      OBVIOUS
    <3>4. \A v \in nodes : v \notin C => v \in S
      OBVIOUS
    <3> HIDE DEF C
    <3>5. PICK u \in C : \E v \in nodes : v \notin C /\ {u, v} \in all
      BY <1>2, <3>2
    <3> QED
      BY <3>3, <3>4, <3>5
  <2> QED
    BY <2>1, <2>2
<1> QED
  BY <1>3 DEF Connected, all

\* Finitely many flows name finitely many entities.
LEMMA EntitiesFinite ==
    ASSUME NEW P, NEW es \in Seq(P \X P)
    PROVE  IsFiniteSet(Entities(es)) /\ Entities(es) \subseteq P
<1>1. /\ Len(es) \in Nat /\ DOMAIN es = 1..Len(es)
      /\ \A i \in 1..Len(es) : es[i] \in P \X P
  <2>1. Len(es) \in Nat /\ DOMAIN es = 1..Len(es)
    BY LenProperties
  <2>2. \A i \in 1..Len(es) : es[i] \in P \X P
    BY ElementOfSeq
  <2> QED
    BY <2>1, <2>2
<1> DEFINE D == 1..Len(es)
           Of(k) == {es[i][k] : i \in D}
<1>2. IsFiniteSet(D)
  BY <1>1, FS_Interval
<1>3. \A k \in {1, 2} : IsFiniteSet(Of(k))
  <2> SUFFICES ASSUME NEW k \in {1, 2} PROVE IsFiniteSet(Of(k))
    OBVIOUS
  <2>1. [i \in D |-> es[i][k]] \in Surjection(D, Of(k))
    BY DEF Surjection
  <2> HIDE DEF Of, D
  <2> QED
    BY <1>2, <2>1, FS_Surjection
<1>4. Entities(es) = Of(1) \union Of(2)
  BY <1>1 DEF Entities
<1>5. Entities(es) \subseteq P
  BY <1>1 DEF Entities
<1> HIDE DEF Of
<1> QED
  BY <1>3, <1>4, <1>5, FS_Union

\* What build collects from the flows is a graph, and the hub is no part of it.
LEMMA FlowGraph ==
    ASSUME NEW P, Hub \notin P, NEW es \in Seq(P \X P), Len(es) >= 1
    PROVE  /\ IsGraph(Nodes(es), Links(es), es[1][1])
           /\ Hub \notin Nodes(es)
<1>1. IsFiniteSet(Entities(es)) /\ Entities(es) \subseteq P
  BY EntitiesFinite
<1>2. /\ Entities(es) \subseteq Nodes(es)
      /\ Nodes(es) \subseteq Entities(es) \union {Padding}
  BY DEF Nodes
<1>3. IsFiniteSet(Nodes(es))
  <2>1. IsFiniteSet({Padding})
    BY FS_Singleton
  <2>2. IsFiniteSet(Entities(es) \union {Padding})
    BY <1>1, <2>1, FS_Union
  <2> QED
    BY <1>2, <2>2, FS_Subset
<1>4. \A i \in DOMAIN es : es[i][1] \in Nodes(es) /\ es[i][2] \in Nodes(es)
  BY <1>2 DEF Entities
<1>5. 1 \in DOMAIN es
  BY LenProperties
<1>6. \A l \in Links(es) : \E a, b \in Nodes(es) : l = {a, b}
  BY <1>4 DEF Links
<1>7. Hub \notin Nodes(es)
  BY <1>1, <1>2 DEF Hub, Padding
<1> QED
  BY <1>3, <1>4, <1>5, <1>6, <1>7 DEF IsGraph

LEMMA WholeGraph ==
    ASSUME edges \in Seq(Places \X Places)
    PROVE  GraphWhole
<1> SUFFICES ASSUME Rebuilt
             PROVE  LET g == Build(edges)
                        flows == {{edges[i][1], edges[i][2]} : i \in DOMAIN edges}
                    IN  /\ Connected(g.nodes, g.links)
                        /\ Hub \in g.nodes <=> ~Connected(Nodes(edges), Links(edges))
                        /\ \A l \in g.links : Hub \in l \/ l \in flows
  BY DEF GraphWhole
<1>0. Len(edges) \in Nat /\ Len(edges) >= 1
  BY LenProperties DEF Rebuilt
<1>1. IsGraph(Nodes(edges), Links(edges), edges[1][1]) /\ Hub \notin Nodes(edges)
  BY <1>0, PlacesAreNoHub, FlowGraph
<1> DEFINE zero == edges[1][1]
           reached == Reached(Nodes(edges), Links(edges), zero)
           stray == Nodes(edges) \ reached
           flows == {{edges[i][1], edges[i][2]} : i \in DOMAIN edges}
<1>2. \A l \in Links(edges) : l \in flows
  BY DEF Links
<1>3. CASE stray = {}
  <2>1. Build(edges) = [nodes |-> Nodes(edges), links |-> Links(edges)]
    BY <1>3 DEF Build
  <2>2. Connected(Nodes(edges), Links(edges))
    BY <1>1, <1>3, AllReached
  <2> QED
    BY <1>1, <1>2, <2>1, <2>2
<1>4. CASE stray # {}
  <2>1. Build(edges) = [nodes |-> Nodes(edges) \union {Hub},
                        links |-> Links(edges) \union Staples(stray, zero)]
    BY <1>4 DEF Build
  <2>2. ~Connected(Nodes(edges), Links(edges))
    BY <1>1, <1>4, SomeStray
  <2>3. Connected(Nodes(edges) \union {Hub}, Links(edges) \union Staples(stray, zero))
    BY <1>1, HubMends
  <2>4. \A l \in Staples(stray, zero) : Hub \in l
    BY DEF Staples
  <2>5. Hub \in Build(edges).nodes /\ Connected(Build(edges).nodes, Build(edges).links)
    BY <2>1, <2>3
  <2>6. \A l \in Build(edges).links : Hub \in l \/ l \in flows
    <3>1. Build(edges).links = Links(edges) \union Staples(stray, zero)
      BY <2>1
    <3> HIDE DEF stray, zero, flows
    <3> QED
      BY <1>2, <2>4, <3>1
  <2> QED
    BY <2>2, <2>5, <2>6
<1> QED
  BY <1>3, <1>4

\* The graph the spectral engine embeds is connected after any flows and confirmed
\* threats, with a hub exactly when they leave it in pieces, and no link is made up
\* between entities (SpectralSecurityGraph::build, build_connected_graph).
THEOREM GraphIsWhole == LanesSpec => []GraphWhole
<1>1. LanesSpec => []LanesInv
  BY LanesInvariant
<1>2. LanesInv => GraphWhole
  BY WholeGraph DEF LanesInv, ContainedInv
<1> QED
  BY <1>1, <1>2, PTL
=============================================================================
