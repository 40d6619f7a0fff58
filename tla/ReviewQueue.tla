---------------------------- MODULE ReviewQueue ----------------------------
(***************************************************************************)
(* review-queue inside one process: the ReviewQueue object, the     *)
(* save of its state and a crash with a restart from the saved file.       *)
(*                                                                         *)
(* Every operation runs under the queue's one mutex and is one step.  save *)
(* is not: it takes the mutex once per part of the snapshot, and the sweep *)
(* notifies its sinks after it released the mutex.  The type would let     *)
(* other threads in meanwhile; the programs of this repository keep the    *)
(* queue to one thread, which may stop at each of these points.            *)
(***************************************************************************)
EXTENDS ReviewQueueOps, Sequences

CONSTANTS
    SlaSeconds,     \* the sweep's sla_seconds
    MaxTime,        \* bound of the model: the clock stops here, and no flow
                    \* is ingested whose deadline would lie beyond
    MaxSeq,         \* bound of the model: decisions
    MaxCrashes      \* bound of the model: restarts of the process

ASSUME ReviewQueueProcessAssumption ==
    /\ SlaSeconds \in Nat
    /\ MaxTime \in Nat
    /\ MaxSeq \in Nat
    /\ MaxCrashes \in Nat

VARIABLES
    now,        \* wall clock
    up,         \* the process runs: its last load succeeded
    queue,      \* ReviewQueue's Inner and decision_seq
    save,       \* save's position and the parts of the snapshot taken so far
    file,       \* the state file: none, or one snapshot
    alerted,    \* history: decisions handed to the alert sink
    unalerted,  \* SLA breaches collected under the lock, not yet notified
    crashes     \* number of restarts

vars == <<now, up, queue, save, file, alerted, unalerted, crashes>>

Idle == [pc |-> "idle", part |-> NewQueue]

\* The thread is neither in a save nor in a sweep that has alerts to deliver.
Free == up /\ save.pc = "idle" /\ unalerted = {}

---------------------------------------------------------------------------
(* Operations on the queue                                                 *)

\* ingest; a flow that was ingested before is refused.
Ingest(f, p) ==
    /\ Free
    /\ f \notin DOMAIN queue.items
    /\ queue.seq < MaxSeq /\ now + SlaSeconds <= MaxTime    \* bounds
    /\ queue' = IngestQueue(queue, f, p, now)
    /\ UNCHANGED <<now, up, save, file, alerted, unalerted, crashes>>

Claim(f) ==
    /\ Free
    /\ Claimable(queue, f)
    /\ queue' = ClaimQueue(queue, f)
    /\ UNCHANGED <<now, up, save, file, alerted, unalerted, crashes>>

\* record_decision with a reviewer and a rationale; any reviewer may decide, the
\* one who claimed the item or another.
RecordDecision(f, verdict) ==
    /\ Free
    /\ Open(queue, f)
    /\ queue.seq < MaxSeq                                   \* bound
    /\ queue' = ResolveQueue(queue, f, "Human", verdict)
    /\ UNCHANGED <<now, up, save, file, alerted, unalerted, crashes>>

\* The locked part of sweep_expired_with_sink.
SweepLocked ==
    /\ Free
    /\ LET expired == ExpiredFlows(queue, now - SlaSeconds)
       IN  /\ expired # {}
           /\ queue.seq + Cardinality(expired) <= MaxSeq     \* bound
           /\ queue' \in SweptQueues(queue, expired)
    /\ unalerted' = queue'.decisions \ queue.decisions
    /\ UNCHANGED <<now, up, save, file, alerted, crashes>>

\* Mutant: only dismissals are handed to the sink.
DeliveredDismissals(d) ==
    IF d.verdict = "Dismiss" THEN alerted \union {d} ELSE alerted

Delivered(d) == alerted \union {d}

\* The rest of the sweep, after the lock is released: one notify per breach.
Notify ==
    /\ up
    /\ unalerted # {}
    /\ \E d \in unalerted :
         /\ alerted' = Delivered(d)
         /\ unalerted' = unalerted \ {d}
    /\ UNCHANGED <<now, up, queue, save, file, crashes>>

\* execute_containment_if_approved runs its caller's action, and changes nothing of
\* the queue.
Approved(f) == Check(queue, f) = "Approved"

---------------------------------------------------------------------------
(* Persistence                                                             *)

\* save: snapshot_items, snapshot_decisions and next_decision_seq each take the
\* lock on their own; then the temporary file is written and renamed.
SaveItems ==
    /\ Free
    /\ save' = [pc |-> "items", part |-> [NewQueue EXCEPT !.items = queue.items]]
    /\ UNCHANGED <<now, up, queue, file, alerted, unalerted, crashes>>

SaveDecisions ==
    /\ up /\ save.pc = "items"
    /\ save' = [pc |-> "decisions", part |-> [save.part EXCEPT !.decisions = queue.decisions]]
    /\ UNCHANGED <<now, up, queue, file, alerted, unalerted, crashes>>

SaveSeq ==
    /\ up /\ save.pc = "decisions"
    /\ save' = [pc |-> "seq", part |-> [save.part EXCEPT !.seq = queue.seq]]
    /\ UNCHANGED <<now, up, queue, file, alerted, unalerted, crashes>>

SaveFile ==
    /\ up /\ save.pc = "seq"
    /\ file' = <<save.part>>
    /\ save' = Idle
    /\ UNCHANGED <<now, up, queue, alerted, unalerted, crashes>>

\* The process stops at any point and is started again: load_or_new.
Restart ==
    /\ crashes < MaxCrashes                                  \* bound
    /\ crashes' = crashes + 1
    /\ save' = Idle
    /\ unalerted' = {}
    /\ up' = (file = <<>> \/ Loads(file[1]))
    /\ queue' = IF file # <<>> /\ Loads(file[1]) THEN Rehydrate(file[1]) ELSE NewQueue
    /\ UNCHANGED <<now, file, alerted>>

Tick ==
    /\ now < MaxTime
    /\ now' = now + 1
    /\ UNCHANGED <<up, queue, save, file, alerted, unalerted, crashes>>

---------------------------------------------------------------------------
Init ==
    /\ now = 0
    /\ up = TRUE
    /\ queue = NewQueue
    /\ save = Idle
    /\ file = <<>>
    /\ alerted = {}
    /\ unalerted = {}
    /\ crashes = 0

Next ==
    \/ \E f \in Flows, p \in Predictions : Ingest(f, p)
    \/ \E f \in Flows : Claim(f)
    \/ \E f \in Flows, v \in Verdicts : RecordDecision(f, v)
    \/ SweepLocked
    \/ Notify
    \/ SaveItems
    \/ SaveDecisions
    \/ SaveSeq
    \/ SaveFile
    \/ Restart
    \/ Tick

Spec == Init /\ [][Next]_vars

\* The clock runs, the sweep delivers its alerts and a save that was started goes on.
\* A timer calls the sweep again and again, as the README asks of a deployment, and
\* its call has its turn however often saves come in between: strong fairness.
Fairness ==
    /\ WF_vars(Tick)
    /\ SF_vars(SweepLocked)
    /\ WF_vars(Notify)
    /\ WF_vars(SaveDecisions) /\ WF_vars(SaveSeq) /\ WF_vars(SaveFile)

FairSpec == Spec /\ Fairness

---------------------------------------------------------------------------
(* Properties                                                              *)

\* Every variable has its type, and the sequence numbers that decisions got from
\* next_decision_id are all below the counter, so none is given out twice.
TypeOK ==
    /\ now \in Nat
    /\ up \in BOOLEAN
    /\ QueueOK(queue)
    /\ save.pc \in {"idle", "items", "decisions", "seq"}
    /\ alerted \subseteq Decision
    /\ unalerted \subseteq Decision
    /\ crashes \in 0..MaxCrashes

\* A flow is decided once: whichever of record_decision, the sweep and ingest's
\* auto-resolve gets there first, no other succeeds, and an item's state agrees
\* with the audit graph (the type's documentation: "a record_decision and a
\* concurrent sweep_expired on the same flow can never both succeed").
OneDecisionPerFlow == DecidedOnce(queue)

\* Nothing is approved for containment without authority: a human said so of a flow
\* that was up for review, or the prediction was an attack that cleared every
\* threshold of the trigger, or the item timed out under fail-secure with enough
\* confidence.  Under fail-safe a timeout never authorizes containment
\* (sweep_expired_with_sink), before or after a restart.
ContainmentAuthorized ==
    \A f \in {f \in Flows : Approved(f)} : \A d \in ContainDecisions(queue, f) :
        LET p == queue.items[f].prediction
        IN  \/ d.reviewer = "Human" /\ Evaluate(p) # "None"
            \/ /\ d.reviewer = "SystemAutoResolve"
               /\ ~IsBenign(p) /\ ~p.ood
               /\ p.confidence >= MinAttack
               /\ \A m \in p.margin : m >= MinMargin
            \/ /\ d.reviewer = "SystemSlaTimeout"
               /\ SlaPolicy = "FailSecure"
               /\ ~IsBenign(p)
               /\ ToMillis(p.confidence) >= AutoContainAbove

\* What save wrote can be loaded, and nothing in it has been decided in the
\* audit trail but not in the items or the other way round (store::save and
\* ReviewQueue::rehydrate).
SavedStateLoads ==
    file # <<>> => Loads(file[1]) /\ DecidedOnce(file[1])

\* Every timeout decision on disk went through the alert sink first: a crash
\* between the sweep and the save repeats an alert but never skips one.
SavedTimeoutsAlerted ==
    file # <<>> =>
        \A d \in file[1].decisions :
            d.reviewer = "SystemSlaTimeout" => d \in alerted

\* The audit trail on disk only grows, whatever crashes and restarts happen
\* between two saves.
FileKeepsDecisions ==
    [][file # <<>> => file' # <<>> /\ file[1].decisions \subseteq file'[1].decisions]_vars

\* Nobody waits for ever: an item that is open, claimed by a reviewer who went
\* away or not, is resolved by a reviewer or by the sweep.
OpenItemsAreResolved ==
    \A f \in Flows : Undecided(queue, f) ~> ~Undecided(queue, f)

\* States are well typed, each flow has at most one decision, whoever races for it, and
\* the one that allows containment was made by someone who may (record_decision,
\* sweep_expired, ingest).
DecidedWithAuthority == TypeOK /\ OneDecisionPerFlow /\ ContainmentAuthorized

\* The state file is an audit trail: it only grows, any crash leaves one that loads,
\* and every timeout in it was announced (store::save, sweep_expired_with_sink).
TrailOnDisk == FileKeepsDecisions /\ [](SavedStateLoads /\ SavedTimeoutsAlerted)
=============================================================================
