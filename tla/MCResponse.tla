----------------------------- MODULE MCResponse -----------------------------
(***************************************************************************)
(* Small instances for TLC of what becomes of a verdict: the queue of the  *)
(* reviewers, beside its state file (ReviewQueue), and the containment of  *)
(* what was cleared (Containment).  A behaviour is one of the one or of    *)
(* the other, as `part' says from the start; the orchestrator's own queue  *)
(* is in memory and nothing takes an item from it to containment.          *)
(*                                                                         *)
(* ReviewQueue: predictions on both sides of every threshold of            *)
(* TriggerConfig::default.  Containment: two hosts with IPv4 addresses,    *)
(* and two with IPv6 addresses in one /32; one of either pair is on the    *)
(* allowlist.                                                              *)
(***************************************************************************)
EXTENDS ReviewQueue, Containment, TLC

VARIABLE part

Pred(label, confidence, margin, ood) ==
    [label |-> label, confidence |-> confidence, margin |-> margin, ood |-> ood]

MCPredictions ==
    { Pred("Attack", 9500, {}, FALSE),        \* clears the trigger
      Pred("Attack", 8995, {}, FALSE),        \* below 0.90, but 900 millis
      Pred("Attack", 8000, {}, FALSE),        \* low confidence
      Pred("Attack", 9500, {1000}, FALSE),    \* narrow margin
      Pred("Attack", 10000, {}, TRUE),        \* out of distribution
      Pred("Benign", 8500, {5000}, FALSE) }   \* clears the benign floor

\* The IPv6 hosts of the model share their /32.
MCSlash32 == [h \in Hosts |-> IF h \in V4 THEN {h} ELSE Hosts \ V4]

MCInit ==
    /\ part \in {"queue", "containment"}
    /\ Init
    /\ ContainmentInit

MCNext ==
    \/ part = "queue" /\ Next /\ UNCHANGED <<part, containmentVars>>
    \/ part = "containment" /\ ContainmentNext /\ UNCHANGED <<part, vars>>

MCSpec == MCInit /\ [][MCNext]_<<part, vars, containmentVars>>

\* The fairness of both parts.  The clock of the queue is the one of these actions that
\* is enabled in the state the other part leaves it in.
MCFairSpec ==
    /\ MCSpec
    /\ WF_vars(part = "queue" /\ Tick)
    /\ SF_vars(SweepLocked)
    /\ WF_vars(Notify)
    /\ WF_vars(SaveDecisions) /\ WF_vars(SaveSeq) /\ WF_vars(SaveFile)
    /\ ContainmentFairness
=============================================================================
