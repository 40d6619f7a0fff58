-------------------------------- MODULE Lanes --------------------------------
(***************************************************************************)
(* The orchestrator's three lanes, composed with the correlation engine:   *)
(* where the events that Correlation takes as given come from.             *)
(*                                                                         *)
(* run_traffic_lanes tails the file that holds nsm's alerts.  Each alert   *)
(* becomes XDP evidence and then, when it has a source address, is put     *)
(* through the spectral engine and becomes spectral evidence too.  The     *)
(* spectral engine records the flow in memory first and then talks to the  *)
(* Qdrant server twice; either call may fail, and a failed upsert may have *)
(* been carried out nevertheless.  A second thread scans files.  The       *)
(* consumer of the verdicts passes each through the review queue's trigger *)
(* and runs containment, which feeds a confirmed host back into the        *)
(* spectral graph.                                                         *)
(*                                                                         *)
(* task is the position of run_traffic_lanes:                              *)
(*   read    at lines.next_line()                                          *)
(*   xdp     in submit_alert; ingest_cic follows if there is a source      *)
(*   trace   awaiting the scrolls of trace_bfs_blast_radius (anomaly only) *)
(*   upsert  awaiting upsert_points                                        *)
(*   ended   returned: reading the file failed                             *)
(* The senders are held for the life of the process, so the engine never   *)
(* shuts down here.                                                        *)
(***************************************************************************)
EXTENDS Correlation, SpectralGraph

CONSTANTS Alerts,      \* lines nsm may write; one that does not parse names no host
          Files,       \* hosts with a watched directory
          MaxInputs    \* bound: lines written and infected files, together

None == "none"

Anchor == "anchor"

(* An alert's addresses are IP addresses; the host that it is about is its *)
(* source, or its destination when it has no source.                       *)
ASSUME LanesAssumption ==
  /\ Files \subseteq Hosts
  /\ Hosts \cap {None, Anchor, Hub} = {}
  /\ \A a \in Alerts : /\ a.src \in Hosts \cup {None}
                       /\ a.src = None => a.dst \in Hosts \cup {None}
                       /\ a.dst \notin {Anchor, Hub}

VARIABLES log,         \* lines written and not yet read
          written,     \* how many lines were written
          task,        \* run_traffic_lanes
          edges,       \* observed_edges
          regNodes,    \* nodes at the regularizer's last tick
          points,      \* ids of the points in the Qdrant collection
          nextPoint,   \* edge_counter
          scanned,     \* infected files so far
          origin       \* history: per event, the line or file it comes from

spectral == <<edges, regNodes, points, nextPoint>>
laneVars == <<log, written, task, edges, regNodes, points, nextPoint, scanned, origin>>

Idle == [pc |-> "read", alert |-> None, line |-> 0, score |-> 0]

LanesInit == /\ Init
             /\ log = <<>> /\ written = 0 /\ task = Idle
             /\ edges = <<>> /\ regNodes = 0
             /\ points = {} /\ nextPoint = 1
             /\ scanned = 0 /\ origin = <<>>

-----------------------------------------------------------------------------
(* nsm and its file.                                                       *)

NoHost == [src |-> None, dst |-> None]

Line(a, n) == [alert |-> a, line |-> n]

Write == /\ written + scanned < MaxInputs
         /\ \E a \in Alerts : log' = Append(log, Line(a, written + 1))
         /\ written' = written + 1
         /\ UNCHANGED <<vars, task, spectral, scanned, origin>>

(* The reader meets the end of the file in the middle of a line: it takes  *)
(* each half for a line, and neither parses.                               *)
WriteTorn == /\ written + scanned < MaxInputs /\ log = <<>>
             /\ log' = <<Line(NoHost, written + 1), Line(NoHost, written + 1)>>
             /\ written' = written + 1
             /\ UNCHANGED <<vars, task, spectral, scanned, origin>>

(* nsm_alert_host: the source, else the destination.                       *)
AlertHost(a) == IF a.src # None THEN a.src ELSE a.dst

(* nsm_alert_flow_key: no destination means a flow from the source to      *)
(* itself, no source no flow.                                              *)
FlowTarget(a) == IF a.dst # None THEN a.dst ELSE a.src

(* next_line fails, and both lanes end with the task.                      *)
ReadFails == /\ task.pc = "read"
             /\ task' = [Idle EXCEPT !.pc = "ended"]
             /\ UNCHANGED <<vars, log, written, spectral, scanned, origin>>

(* A line that does not parse, or names no host, is passed over.           *)
SkipLine == /\ task.pc = "read" /\ log # <<>>
            /\ AlertHost(Head(log).alert) = None
            /\ log' = Tail(log)
            /\ UNCHANGED <<vars, written, task, spectral, scanned, origin>>

(* submit_alert: nsm blocked at most for a time, no human approved it.     *)
SubmitAlert(a) == XdpSubmit(AlertHost(a), FALSE)

ReadAlert ==
  /\ task.pc = "read" /\ log # <<>> /\ staged["Spectral"] = <<>>
  /\ AlertHost(Head(log).alert) # None
  /\ SubmitAlert(Head(log).alert)
  /\ origin' = Append(origin, <<"line", Head(log).line>>)
  /\ task' = [Idle EXCEPT !.pc = "xdp", !.alert = Head(log).alert, !.line = Head(log).line]
  /\ log' = Tail(log)
  /\ UNCHANGED <<written, spectral, scanned>>

-----------------------------------------------------------------------------
(* The spectral engine.                                                    *)

(* An alert that names no source ends with the XDP evidence.               *)
NoFlow == /\ task.pc = "xdp" /\ staged["Xdp"] = <<>> /\ task.alert.src = None
          /\ task' = Idle
          /\ UNCHANGED <<vars, log, written, spectral, scanned, origin>>

(* The row of features keeps the addresses.                                *)
Row(a) == [src_ip |-> a.src, dst_ip |-> FlowTarget(a)]

GraphEdge(row) == <<row.src_ip, row.dst_ip>>

(* The regularizer is made anew when the number of nodes changes, and not  *)
(* run at all on one node.                                                 *)
RegTick(es) == IF Cardinality(Entities(es)) >= 2 THEN Cardinality(Entities(es)) ELSE regNodes

(* ingest_cic up to its first await: the edge, the regularizer's tick over *)
(* a snapshot of the edges, the score.  A flow is an anomaly when its      *)
(* score exceeds the threshold, which is ten tenths of itself.             *)
Ingest ==
  /\ task.pc = "xdp" /\ staged["Xdp"] = <<>> /\ task.alert.src # None
  /\ edges' = Append(edges, GraphEdge(Row(task.alert)))
  /\ regNodes' = RegTick(edges')
  /\ \E score \in Scores :
       task' = [task EXCEPT !.score = score,
                            !.pc = IF score > 10 THEN "trace" ELSE "upsert"]
  /\ UNCHANGED <<vars, log, written, points, nextPoint, scanned, origin>>

(* rebuild_spectral, for the report of an anomaly.                         *)
Rebuilt == Len(edges) >= 2

(* Mutant: the error leaves the loop.                                      *)
GiveUpForGood == task' = [Idle EXCEPT !.pc = "left"]

(* Any error of ingest_cic is a warning, and the next line is read.        *)
GiveUp == task' = Idle

(* trace_bfs_blast_radius: its result only goes into the report.           *)
Trace == /\ task.pc = "trace"
         /\ task' = [task EXCEPT !.pc = "upsert"] \/ GiveUp
         /\ UNCHANGED <<vars, log, written, spectral, scanned, origin>>

(* The point's id is drawn before the call, so a failure leaves a gap; the *)
(* server may have stored the point of a call that failed for the client.  *)
UpsertFails ==
  /\ task.pc = "upsert"
  /\ nextPoint' = nextPoint + 1
  /\ points' \in {points, points \cup {nextPoint}}
  /\ GiveUp
  /\ UNCHANGED <<vars, log, written, edges, regNodes, scanned, origin>>

Stored == {points \cup {nextPoint}}

(* The rest of ingest_and_submit: the score over the threshold, clamped.   *)
Normalized(score) == IF score > 10 THEN 10 ELSE IF score < 0 THEN 0 ELSE score

UpsertAndSubmit ==
  /\ task.pc = "upsert"
  /\ nextPoint' = nextPoint + 1
  /\ points' \in Stored
  /\ SpectralSubmit(AlertHost(task.alert), Normalized(task.score))
  /\ origin' = Append(origin, <<"line", task.line, nextPoint>>)
  /\ task' = Idle
  /\ UNCHANGED <<log, written, edges, regNodes, scanned>>

-----------------------------------------------------------------------------
(* The file lane and the way back.                                         *)

(* scan_react_and_submit on an infected file.                              *)
FileInfected ==
  /\ written + scanned < MaxInputs
  /\ scanned' = scanned + 1
  /\ \E h \in Files, quarantined \in BOOLEAN : ClamAvSubmit(h, quarantined)
  /\ origin' = Append(origin, <<"file", scanned + 1>>)
  /\ UNCHANGED <<log, written, task, spectral>>

(* Mutant: the fused confidence alone decides.                             *)
OutOfDistributionNever(v) == FALSE

(* verdict_to_flow_prediction: a single lane's call always wants a human.  *)
OutOfDistribution(v) == v.reason = "SingleLaneCritical"

(* The tenths that the confidences of a verdict's evidence come to: their  *)
(* number is the sum of the confidences.                                   *)
Tenths(v) == {p \in (DOMAIN v.evidence) \X (1..10) : p[2] <= v.evidence[p[1]].confidence}

(* mean_confidence against min_attack_confidence.  A mean of exactly nine  *)
(* tenths is an f32 on either side of the f64 0.90, by the rounding of its *)
(* sum; two values round down, and no other sum here comes to it.          *)
Confident(v) == Cardinality(Tenths(v)) > 9 * Len(v.evidence)

(* The review queue resolves the verdict by itself, in favour of           *)
(* containment.  No one answers for the verdicts it keeps.                 *)
Cleared(v) == ~OutOfDistribution(v) /\ Confident(v)

(* handle_verdicts takes a verdict.  The response policy may still hold    *)
(* back; the action ends in record_confirmed_threat, which adds an edge to *)
(* the anchor, without a tick.                                             *)
HandleVerdict ==
  /\ Consume
  /\ \/ Cleared(Head(out)) /\ edges' = Append(edges, <<Head(out).host, Anchor>>)
     \/ UNCHANGED edges
  /\ UNCHANGED <<log, written, task, regNodes, points, nextPoint, scanned, origin>>

Correlate == /\ (\E l \in Lanes : TrySend(l)) \/ HandleEvent \/ SweepExpired \/ Tick
             /\ UNCHANGED laneVars

LanesNext == \/ Write \/ WriteTorn \/ ReadFails \/ SkipLine \/ ReadAlert \/ NoFlow \/ Ingest \/ Trace
             \/ UpsertFails \/ UpsertAndSubmit \/ FileInfected \/ HandleVerdict
             \/ Correlate

allVars == <<vars, laneVars>>

LanesSpec == LanesInit /\ [][LanesNext]_allVars

(* The runtime polls both tasks; the Qdrant client times its calls out.    *)
LanesFairness ==
  /\ WF_allVars(SkipLine \/ ReadAlert \/ NoFlow \/ Ingest \/ Trace
                \/ UpsertFails \/ UpsertAndSubmit)
  /\ WF_allVars(Correlate)

LanesFairSpec == LanesSpec /\ LanesFairness

-----------------------------------------------------------------------------
(* Spectral evidence is never about a flow the collection lacks: whatever  *)
(* calls to Qdrant fail, an event of the spectral lane has its point, and  *)
(* an investigator who follows the verdict finds the flow behind it        *)
(* (ingest_cic's upsert comes before ingest_and_submit's send).            *)
EvidenceStored ==
  \A i \in DOMAIN origin :
    Len(origin[i]) = 3 => origin[i][3] \in points

(* The graph that is embedded after any sequence of flows and confirmed    *)
(* threats, self-loops included, is connected; the hub is there only when  *)
(* the flows alone leave it in pieces; and it joins entities but never     *)
(* links two of them.                                                      *)
GraphWhole ==
  Rebuilt =>
    LET g == Build(edges)
        flows == {{edges[i][1], edges[i][2]} : i \in DOMAIN edges}
    IN  /\ Connected(g.nodes, g.links)
        /\ Hub \in g.nodes <=> ~Connected(Nodes(edges), Links(edges))
        /\ \A l \in g.links : Hub \in l \/ l \in flows

(* Once nsm falls silent every line it wrote has been read, unless reading *)
(* the file itself failed, and all the evidence from it handled by the     *)
(* engine or counted as dropped: no error of the spectral engine ends the  *)
(* tail of the alerts (run_traffic_lanes).                                 *)
AlertsAreHandled ==
  <>[](/\ (log = <<>> /\ task.pc = "read") \/ task.pc = "ended"
       /\ chan = <<>> /\ \A l \in Lanes : staged[l] = <<>>)

(* Whatever the lanes see, and however one alert line is amplified into    *)
(* evidence of two lanes, the orchestrator contains a host on its own only *)
(* when the traffic and a file of that host were both observed             *)
(* (verdict_to_flow_prediction, ReviewTrigger::evaluate and the confidence *)
(* each lane's sender gives).                                              *)
ContainedOnTwoObservations ==
  \A i \in DOMAIN edges :
    edges[i][2] = Anchor
    => \E v \in decided :
         /\ v.host = edges[i][1]
         /\ {origin[v.evidence[j].id + 1][1] : j \in DOMAIN v.evidence} = {"line", "file"}

(* "A single lane's own critical call, on its own, is weaker evidence than *)
(* two independent lanes agreeing": a verdict that says several lanes      *)
(* agreed rests on at least two observations.                              *)
CorroborationIsTwoObservations ==
  \A v \in decided :
    v.reason = "MultiLaneCorroboration"
    => \E i, j \in DOMAIN v.evidence :
         LET a == origin[v.evidence[i].id + 1]
             b == origin[v.evidence[j].id + 1]
         IN  <<a[1], a[2]>> # <<b[1], b[2]>>

(* Containment can be traced back: to a file and a line, and from spectral *)
(* evidence to its stored flow.                                            *)
ContainmentTraceable == ContainedOnTwoObservations /\ EvidenceStored
=============================================================================
