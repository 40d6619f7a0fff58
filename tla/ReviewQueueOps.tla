--------------------------- MODULE ReviewQueueOps ---------------------------
(***************************************************************************)
(* The data of review-queue and what each of its operations computes, as   *)
(* functions of a queue value: the items with their lifecycle state and    *)
(* the audit graph's decisions.  ReviewQueue runs them on the queue of  *)
(* a process, ReviewStore on the copies that commands load from a file.    *)
(*                                                                         *)
(* Confidences and margins are in ten-thousandths, so that the rounding of *)
(* to_millis is visible.  A decision's id is its flow and sequence number. *)
(***************************************************************************)
EXTENDS Integers, FiniteSets

CONSTANTS
    Flows,              \* flow ids
    Predictions,        \* what the classifiers may say about a flow
    MinAttack,          \* TriggerConfig::min_attack_confidence
    MinBenign,          \* TriggerConfig::min_benign_confidence
    MinMargin,          \* TriggerConfig::min_margin
    SlaPolicy,          \* "FailSafe" or "FailSecure"
    AutoContainAbove    \* FailSecure's auto_contain_above_confidence, in millis

Prediction == [label: {"Benign", "Attack"}, confidence: Int,
               margin: SUBSET Int,          \* at most one: margin() is an Option
               ood: BOOLEAN]

ASSUME ReviewQueueAssumption ==
    /\ IsFiniteSet(Flows)
    /\ Predictions \subseteq Prediction
    /\ MinAttack \in Int /\ MinBenign \in Int /\ MinMargin \in Int
    /\ SlaPolicy \in {"FailSafe", "FailSecure"}
    /\ AutoContainAbove \in Nat

Verdicts == {"ExecuteContainment", "Dismiss", "EscalateFurther"}

Decision == [flow: Flows, seq: Nat,
             reviewer: {"Human", "SystemSlaTimeout", "SystemAutoResolve"},
             verdict: Verdicts]

\* An item's state; decision holds the sequence number once there is one.
Item == [state: {"AutoResolved", "Pending", "UnderReview", "Resolved"},
         prediction: Prediction, enqueued_at: Nat, decision: SUBSET Nat]

\* items is a partial function: its domain is the flows ever ingested, which is
\* also the set of prediction nodes of the audit graph.
Queue == [items: UNION {[S -> Item] : S \in SUBSET Flows},
          decisions: SUBSET Decision, seq: Nat]

NewQueue == [items |-> [f \in {} |-> {}], decisions |-> {}, seq |-> 0]

---------------------------------------------------------------------------
(* The trigger                                                             *)

IsBenign(p) == p.label = "Benign"

\* Mutant: the benign floor is used for attacks too.
EvaluateOneFloor(p) ==
    IF p.ood THEN "NovelPattern"
    ELSE IF p.confidence < MinBenign THEN "LowConfidenceAttack"
    ELSE IF \E m \in p.margin : m < MinMargin THEN "NarrowMargin"
    ELSE "None"

\* ReviewTrigger::evaluate
Evaluate(p) ==
    IF p.ood THEN "NovelPattern"
    ELSE IF ~IsBenign(p) /\ p.confidence < MinAttack THEN "LowConfidenceAttack"
    ELSE IF IsBenign(p) /\ p.confidence < MinBenign THEN "LowConfidenceAttack"
    ELSE IF \E m \in p.margin : m < MinMargin THEN "NarrowMargin"
    ELSE "None"

\* to_millis clamps and rounds half up: 0.8995 becomes 900.
ToMillis(confidence) ==
    IF confidence < 0 THEN 0
    ELSE IF confidence > 10000 THEN 1000
    ELSE (confidence + 5) \div 10

---------------------------------------------------------------------------
(* Operations                                                              *)

\* items.insert, or the assignment of an item's state.
SetItem(items, f, item) ==
    [g \in DOMAIN items \union {f} |-> IF g = f THEN item ELSE items[g]]

\* engine_bridge::record_decision and next_decision_id: a decision node, linked
\* to the flow's prediction node.
AddDecision(queue, f, reviewer, verdict) ==
    queue.decisions \union
        {[flow |-> f, seq |-> queue.seq, reviewer |-> reviewer, verdict |-> verdict]}

\* The verdict ingest gives a prediction that cleared the trigger.
AutoVerdict(p) == IF IsBenign(p) THEN "Dismiss" ELSE "ExecuteContainment"

IngestQueue(queue, f, p, now) ==
    IF Evaluate(p) = "None"
    THEN [items |-> SetItem(queue.items, f,
                        [state |-> "AutoResolved", prediction |-> p,
                         enqueued_at |-> now, decision |-> {queue.seq}]),
          decisions |-> AddDecision(queue, f, "SystemAutoResolve", AutoVerdict(p)),
          seq |-> queue.seq + 1]
    ELSE [queue EXCEPT !.items = SetItem(@, f,
                        [state |-> "Pending", prediction |-> p,
                         enqueued_at |-> now, decision |-> {}])]

\* Mutant: an item someone claimed is not open to the sweep or to a decision.
OpenPendingOnly(queue, f) ==
    f \in DOMAIN queue.items /\ queue.items[f].state = "Pending"

\* Mutant: a resolved item can be decided again.
OpenAgain(queue, f) ==
    f \in DOMAIN queue.items /\ queue.items[f].state # "AutoResolved"

Open(queue, f) ==
    /\ f \in DOMAIN queue.items
    /\ queue.items[f].state \in {"Pending", "UnderReview"}

Claimable(queue, f) ==
    f \in DOMAIN queue.items /\ queue.items[f].state = "Pending"

ClaimQueue(queue, f) == [queue EXCEPT !.items[f].state = "UnderReview"]

\* The end of record_decision, which each round of the sweep's loop repeats.
ResolveQueue(queue, f, reviewer, verdict) ==
    [items |-> SetItem(queue.items, f,
                   [queue.items[f] EXCEPT !.state = "Resolved",
                                          !.decision = {queue.seq}]),
     decisions |-> AddDecision(queue, f, reviewer, verdict),
     seq |-> queue.seq + 1]

\* sweep_expired's verdict for an item nobody reviewed in time.
SlaVerdict(p) ==
    IF /\ SlaPolicy = "FailSecure"
       /\ ~IsBenign(p)
       /\ ToMillis(p.confidence) >= AutoContainAbove
    THEN "ExecuteContainment" ELSE "Dismiss"

ExpiredFlows(queue, cutoff) ==
    {f \in DOMAIN queue.items :
        Open(queue, f) /\ queue.items[f].enqueued_at <= cutoff}

\* What the whole loop over the expired flows leaves when flow f is resolved in round
\* round[f], the first being 0.
SweptQueue(queue, expired, round) ==
    [items |-> [f \in DOMAIN queue.items |->
                  IF f \in expired
                  THEN [queue.items[f] EXCEPT !.state = "Resolved",
                                              !.decision = {queue.seq + round[f]}]
                  ELSE queue.items[f]],
     decisions |-> queue.decisions \union
                     {[flow |-> f, seq |-> queue.seq + round[f], reviewer |-> "SystemSlaTimeout",
                       verdict |-> SlaVerdict(queue.items[f].prediction)] : f \in expired},
     seq |-> queue.seq + Cardinality(expired)]

\* The map's order decides which flow gets which sequence number.
SweptQueues(queue, expired) ==
    {SweptQueue(queue, expired, round) :
        round \in {r \in [expired -> 0..(Cardinality(expired) - 1)] :
                     \A f, g \in expired : r[f] = r[g] => f = g}}

\* The sequence numbers of the decisions the audit graph holds on a flow.
DecisionSeqs(queue, f) == {d.seq : d \in {e \in queue.decisions : e.flow = f}}

---------------------------------------------------------------------------
(* The containment gate                                                    *)

ContainDecisions(queue, f) ==
    {d \in queue.decisions : d.flow = f /\ d.verdict = "ExecuteContainment"}

\* ContainmentExecutor::check walks the graph's links into the flow's node.
Check(queue, f) ==
    LET n == Cardinality(ContainDecisions(queue, f))
    IN  IF n = 0 THEN "NotApproved" ELSE IF n = 1 THEN "Approved" ELSE "Conflicting"

---------------------------------------------------------------------------
(* Persistence                                                             *)

\* rehydrate replays the items, then the decisions; create_link refuses a
\* decision on a flow that has no item.
Loads(snapshot) == \A d \in snapshot.decisions : d.flow \in DOMAIN snapshot.items

\* Mutant: the audit graph is rebuilt without its decisions.
RehydrateItemsOnly(snapshot) == [snapshot EXCEPT !.decisions = {}]

Rehydrate(snapshot) == snapshot

---------------------------------------------------------------------------
(* What a queue value looks like                                           *)

\* A queue has its type, and next_decision_seq is above every number given out.
QueueOK(q) ==
    /\ DOMAIN q.items \subseteq Flows
    /\ q.items \in [DOMAIN q.items -> Item]
    /\ q.decisions \subseteq Decision
    /\ q.seq \in Nat
    /\ \A d \in q.decisions : d.seq < q.seq

\* The flow waits for its decision.
Undecided(q, f) ==
    f \in DOMAIN q.items /\ q.items[f].state \notin {"AutoResolved", "Resolved"}

\* Items and audit graph tell the same story: an item that waits has no decision, any
\* other has exactly the one its state names.
DecidedOnce(q) ==
    \A f \in DOMAIN q.items :
        /\ DecisionSeqs(q, f) = q.items[f].decision
        /\ Cardinality(q.items[f].decision) = IF Undecided(q, f) THEN 0 ELSE 1
=============================================================================
