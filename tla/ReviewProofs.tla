---------------------------- MODULE ReviewProofs -------------------------
(***************************************************************************)
(* What the review queue guarantees for every set of flows, programs and  *)
(* predictions and every policy, proved with TLAPS.                        *)
(*                                                                         *)
(* The first part is about the operations of ReviewQueueOps alone: each    *)
(* takes a good queue to a good one, takes no decision back and decides    *)
(* only with authority.  So every queue a program holds and every snapshot *)
(* in an inode is good however the programs of ReviewStore overlap         *)
(* (StoreType); what the state file holds besides depends on who saves     *)
(* when (WholeInv and AckedInv).  In ReviewQueue's one process the file    *)
(* keeps up with the queue, and with it the trail (QueueInv).              *)
(***************************************************************************)
EXTENDS ReviewQueue, ReviewStore, FiniteSetTheorems, TLAPS

---------------------------------------------------------------------------
(* The operations on a queue                                               *)

\* An item that waits has no decision, any other the one it names.
Agree(q) ==
    \A f \in DOMAIN q.items :
        /\ DecisionSeqs(q, f) = q.items[f].decision
        /\ Undecided(q, f) => q.items[f].decision = {}
        /\ ~Undecided(q, f) => \E n : q.items[f].decision = {n}

\* Numbers are given out once, the audit graph has no decision without an item, and
\* items and decisions agree.
Good(q) ==
    /\ q \in Queue
    /\ \A d \in q.decisions : d.seq < q.seq
    /\ Loads(q)
    /\ Agree(q)

GoodQueues == {q \in Queue : Good(q)}

LEMMA GoodDecided ==
    ASSUME NEW q, Good(q)
    PROVE  DecidedOnce(q)
<1> SUFFICES ASSUME NEW f \in DOMAIN q.items
             PROVE  /\ DecisionSeqs(q, f) = q.items[f].decision
                    /\ Cardinality(q.items[f].decision) = IF Undecided(q, f) THEN 0 ELSE 1
  BY DEF DecidedOnce
<1>1. CASE Undecided(q, f)
  BY <1>1, FS_EmptySet DEF Good, Agree
<1>2. CASE ~Undecided(q, f)
  <2>1. PICK n : q.items[f].decision = {n}
    BY <1>2 DEF Good, Agree
  <2>2. Cardinality({n}) = 1
    BY FS_Singleton
  <2> QED
    BY <1>2, <2>1, <2>2 DEF Good, Agree
<1> QED
  BY <1>1, <1>2

LEMMA QueueFields ==
    ASSUME NEW q \in Queue
    PROVE  /\ DOMAIN q.items \subseteq Flows /\ q.items \in [DOMAIN q.items -> Item]
           /\ q.decisions \subseteq Decision /\ q.seq \in Nat
<1>1. q.items \in UNION {[S -> Item] : S \in SUBSET Flows} /\ q.decisions \subseteq Decision /\ q.seq \in Nat
  BY DEF Queue
<1>2. PICK S \in SUBSET Flows : q.items \in [S -> Item]
  BY <1>1
<1> QED
  BY <1>1, <1>2

LEMMA QueueMade ==
    ASSUME NEW S, S \subseteq Flows, NEW m \in [S -> Item], NEW D, D \subseteq Decision, NEW n \in Nat
    PROVE  [items |-> m, decisions |-> D, seq |-> n] \in Queue
<1>1. m \in UNION {[T -> Item] : T \in SUBSET Flows}
  OBVIOUS
<1> QED
  BY <1>1 DEF Queue

\* A flow that waits, or was never seen, has no decision.
LEMMA NoneYet ==
    ASSUME NEW q, Good(q), NEW f, f \notin DOMAIN q.items \/ Undecided(q, f)
    PROVE  \A d \in q.decisions : d.flow # f
<1>1. CASE f \notin DOMAIN q.items
  BY <1>1 DEF Good, Loads
<1>2. CASE Undecided(q, f)
  <2>1. DecisionSeqs(q, f) = {}
    BY <1>2 DEF Good, Agree, Undecided
  <2> QED
    BY <2>1 DEF DecisionSeqs
<1> QED
  BY <1>1, <1>2

\* Some flows that wait or are new are decided, each once; the others are left alone.
LEMMA DecideAll ==
    ASSUME NEW q, Good(q), NEW E, E \subseteq Flows,
           \A f \in E : f \notin DOMAIN q.items \/ Undecided(q, f),
           NEW m \in [DOMAIN q.items \union E -> Item],
           \A f \in DOMAIN q.items \ E : m[f] = q.items[f],
           NEW N, N \subseteq Decision, NEW s \in Nat, q.seq <= s,
           \A d \in N : d.flow \in E /\ d.seq < s,
           \A f \in E : /\ m[f].state \in {"Resolved", "AutoResolved"}
                        /\ m[f].decision = {d.seq : d \in {e \in N : e.flow = f}}
                        /\ \E n : m[f].decision = {n}
    PROVE  Good([items |-> m, decisions |-> q.decisions \union N, seq |-> s])
<1> DEFINE r == [items |-> m, decisions |-> q.decisions \union N, seq |-> s]
<1>0. /\ DOMAIN q.items \subseteq Flows /\ q.items \in [DOMAIN q.items -> Item]
      /\ q.decisions \subseteq Decision /\ q.seq \in Nat
  BY QueueFields DEF Good
<1>1. r \in Queue
  <2>1. DOMAIN q.items \union E \subseteq Flows /\ q.decisions \union N \subseteq Decision
    BY <1>0
  <2> QED
    BY <2>1, QueueMade
<1>2. r.items = m /\ r.decisions = q.decisions \union N /\ r.seq = s
      /\ DOMAIN m = DOMAIN q.items \union E
  OBVIOUS
<1> HIDE DEF r
<1>3. \A d \in r.decisions : d.seq < r.seq
  <2>1. \A d \in q.decisions : d.seq \in Nat /\ d.seq < q.seq
    BY <1>0 DEF Decision, Good
  <2> QED
    BY <1>0, <1>2, <2>1
<1>4. Loads(r)
  BY <1>2 DEF Loads, Good
<1>5. Agree(r)
  <2> SUFFICES ASSUME NEW f \in DOMAIN q.items \union E
               PROVE  /\ DecisionSeqs(r, f) = m[f].decision
                      /\ Undecided(r, f) => m[f].decision = {}
                      /\ ~Undecided(r, f) => \E n : m[f].decision = {n}
    BY <1>2 DEF Agree
  <2>1. CASE f \in E
    <3>1. \A d \in q.decisions : d.flow # f
      BY <2>1, NoneYet
    <3>2. {e \in r.decisions : e.flow = f} = {e \in N : e.flow = f}
      BY <1>2, <3>1
    <3>3. ~Undecided(r, f)
      BY <1>2, <2>1 DEF Undecided
    <3> QED
      BY <2>1, <3>2, <3>3 DEF DecisionSeqs
  <2>2. CASE f \notin E
    <3>1. {e \in r.decisions : e.flow = f} = {e \in q.decisions : e.flow = f}
      BY <1>2, <2>2
    <3>2. m[f] = q.items[f] /\ f \in DOMAIN q.items
      BY <2>2
    <3>3. Undecided(r, f) <=> Undecided(q, f)
      BY <1>2, <3>2 DEF Undecided
    <3> QED
      BY <3>1, <3>2, <3>3, ZenonT(30) DEF DecisionSeqs, Good, Agree
  <2> QED
    BY <2>1, <2>2
<1> QED
  BY <1>1, <1>3, <1>4, <1>5 DEF Good, r

\* An item is put into the queue, or changed, and waits for its decision.
LEMMA LeaveOpen ==
    ASSUME NEW q, Good(q), NEW f \in Flows, f \notin DOMAIN q.items \/ Undecided(q, f),
           NEW item \in Item, item.state \in {"Pending", "UnderReview"}, item.decision = {}
    PROVE  Good([items |-> SetItem(q.items, f, item), decisions |-> q.decisions, seq |-> q.seq])
<1> DEFINE m == SetItem(q.items, f, item)
           r == [items |-> m, decisions |-> q.decisions, seq |-> q.seq]
<1>0. /\ DOMAIN q.items \subseteq Flows /\ q.items \in [DOMAIN q.items -> Item]
      /\ q.decisions \subseteq Decision /\ q.seq \in Nat
  BY QueueFields DEF Good
<1>1. /\ m \in [DOMAIN q.items \union {f} -> Item] /\ m[f] = item
      /\ \A g \in DOMAIN q.items \ {f} : m[g] = q.items[g]
      /\ DOMAIN m = DOMAIN q.items \union {f}
  BY <1>0 DEF SetItem
<1>2. r \in Queue
  <2>1. DOMAIN q.items \union {f} \subseteq Flows
    BY <1>0
  <2> HIDE DEF m
  <2> QED
    BY <1>0, <1>1, <2>1, QueueMade
<1>3. r.items = m /\ r.decisions = q.decisions /\ r.seq = q.seq
  OBVIOUS
<1> HIDE DEF r, m
<1>4. Loads(r)
  BY <1>1, <1>3 DEF Loads, Good
<1>5. Agree(r)
  <2> SUFFICES ASSUME NEW g \in DOMAIN q.items \union {f}
               PROVE  /\ DecisionSeqs(r, g) = m[g].decision
                      /\ Undecided(r, g) => m[g].decision = {}
                      /\ ~Undecided(r, g) => \E n : m[g].decision = {n}
    BY <1>1, <1>3 DEF Agree
  <2>1. DecisionSeqs(r, g) = DecisionSeqs(q, g)
    BY <1>3 DEF DecisionSeqs
  <2>2. CASE g = f
    <3>1. DecisionSeqs(q, f) = {}
      BY NoneYet DEF DecisionSeqs
    <3>2. Undecided(r, f)
      BY <1>1, <1>3 DEF Undecided
    <3> QED
      BY <1>1, <2>1, <2>2, <3>1, <3>2
  <2>3. CASE g # f
    <3>1. m[g] = q.items[g] /\ g \in DOMAIN q.items
      BY <1>1, <2>3
    <3>2. Undecided(r, g) <=> Undecided(q, g)
      BY <1>1, <1>3, <3>1 DEF Undecided
    <3> QED
      BY <2>1, <3>1, <3>2 DEF Good, Agree
  <2> QED
    BY <2>2, <2>3
<1> QED
  BY <1>2, <1>3, <1>4, <1>5 DEF Good, r, m

\* One flow is decided.
LEMMA DecideOne ==
    ASSUME NEW q, Good(q), NEW f \in Flows, f \notin DOMAIN q.items \/ Undecided(q, f),
           NEW item \in Item, item.state \in {"Resolved", "AutoResolved"}, item.decision = {q.seq},
           NEW reviewer \in {"Human", "SystemSlaTimeout", "SystemAutoResolve"}, NEW verdict \in Verdicts
    PROVE  Good([items |-> SetItem(q.items, f, item),
                 decisions |-> AddDecision(q, f, reviewer, verdict), seq |-> q.seq + 1])
<1> DEFINE m == SetItem(q.items, f, item)
           d == [flow |-> f, seq |-> q.seq, reviewer |-> reviewer, verdict |-> verdict]
           N == {d}
<1>0. /\ DOMAIN q.items \subseteq Flows /\ q.items \in [DOMAIN q.items -> Item]
      /\ q.decisions \subseteq Decision /\ q.seq \in Nat
  BY QueueFields DEF Good
<1>1. /\ m \in [DOMAIN q.items \union {f} -> Item] /\ m[f] = item
      /\ \A g \in DOMAIN q.items \ {f} : m[g] = q.items[g]
  BY <1>0 DEF SetItem
<1>2. d \in Decision /\ d.flow = f /\ d.seq = q.seq
  BY <1>0 DEF Decision
<1>3. AddDecision(q, f, reviewer, verdict) = q.decisions \union N
  BY DEF AddDecision
<1> HIDE DEF m, d
<1>4. \A e \in N : e.flow \in {f} /\ e.seq < q.seq + 1
  BY <1>0, <1>2
<1>5. m[f].decision = {e.seq : e \in {x \in N : x.flow = f}}
  BY <1>1, <1>2
<1>6. N \subseteq Decision /\ q.seq + 1 \in Nat /\ q.seq <= q.seq + 1 /\ {f} \subseteq Flows
  BY <1>0, <1>2
<1>7. \A g \in {f} : /\ m[g].state \in {"Resolved", "AutoResolved"}
                     /\ m[g].decision = {e.seq : e \in {x \in N : x.flow = g}}
                     /\ \E n : m[g].decision = {n}
  BY <1>1, <1>5
<1> HIDE DEF N
<1>8. PICK s \in Nat : s = q.seq + 1
  BY <1>6
<1>9. Good([items |-> m, decisions |-> q.decisions \union N, seq |-> s])
  <2>1. \A e \in N : e.flow \in {f} /\ e.seq < s
    BY <1>4, <1>8
  <2>2. q.seq <= s
    BY <1>6, <1>8
  <2>3. PICK E : E = {f}
    OBVIOUS
  <2>4. /\ E \subseteq Flows /\ \A g \in E : g \notin DOMAIN q.items \/ Undecided(q, g)
        /\ m \in [DOMAIN q.items \union E -> Item]
        /\ \A g \in DOMAIN q.items \ E : m[g] = q.items[g]
        /\ \A e \in N : e.flow \in E /\ e.seq < s
    BY <1>1, <1>6, <2>1, <2>3
  <2>5. \A g \in E : /\ m[g].state \in {"Resolved", "AutoResolved"}
                     /\ m[g].decision = {e.seq : e \in {x \in N : x.flow = g}}
                     /\ \E n : m[g].decision = {n}
    BY <1>7, <2>3
  <2> QED
    BY <1>6, <2>2, <2>4, <2>5, DecideAll
<1> QED
  BY <1>3, <1>8, <1>9 DEF m

\* q became r: r is good and keeps what was decided in q.
Grew(q, r) == Good(r) /\ q.decisions \subseteq r.decisions

\* ReviewQueue::ingest of a flow that is not in the queue.
LEMMA IngestGrew ==
    ASSUME NEW q, Good(q), NEW f \in Flows, f \notin DOMAIN q.items, NEW p \in Predictions,
           NEW time \in Nat
    PROVE  Grew(q, IngestQueue(q, f, p, time))
<1>0. q.seq \in Nat /\ p \in Prediction
  BY QueueFields, ReviewQueueAssumption DEF Good
<1>1. CASE Evaluate(p) = "None"
  <2> DEFINE item == [state |-> "AutoResolved", prediction |-> p, enqueued_at |-> time,
                      decision |-> {q.seq}]
  <2>1. item \in Item /\ item.state = "AutoResolved" /\ item.decision = {q.seq}
    BY <1>0 DEF Item
  <2>2. AutoVerdict(p) \in Verdicts
    BY DEF AutoVerdict, Verdicts
  <2> DEFINE r == [items |-> SetItem(q.items, f, item),
                   decisions |-> AddDecision(q, f, "SystemAutoResolve", AutoVerdict(p)),
                   seq |-> q.seq + 1]
  <2>3. IngestQueue(q, f, p, time) = r
    BY <1>1 DEF IngestQueue
  <2>4. r.decisions = AddDecision(q, f, "SystemAutoResolve", AutoVerdict(p))
    OBVIOUS
  <2>5. q.decisions \subseteq r.decisions
    BY <2>4 DEF AddDecision
  <2>6. Good(r)
    <3> HIDE DEF item
    <3> QED
      BY <2>1, <2>2, DecideOne
  <2> QED
    BY <2>3, <2>5, <2>6 DEF Grew
<1>2. CASE Evaluate(p) # "None"
  <2> DEFINE item == [state |-> "Pending", prediction |-> p, enqueued_at |-> time, decision |-> {}]
             r == [items |-> SetItem(q.items, f, item), decisions |-> q.decisions, seq |-> q.seq]
  <2>1. item \in Item /\ item.state = "Pending" /\ item.decision = {}
    BY <1>0 DEF Item
  <2>2. IngestQueue(q, f, p, time) = r
    <3> HIDE DEF item
    <3>1. q \in Queue
      BY DEF Good
    <3>2. IngestQueue(q, f, p, time) = [q EXCEPT !.items = SetItem(@, f, item)]
      BY <1>2 DEF IngestQueue, item
    <3> QED
      BY <3>1, <3>2 DEF Queue
  <2>3. Good(r)
    <3> HIDE DEF item
    <3> QED
      BY <2>1, LeaveOpen
  <2> QED
    BY <2>2, <2>3 DEF Grew
<1> QED
  BY <1>1, <1>2

LEMMA ClaimGrew ==
    ASSUME NEW q, Good(q), NEW f \in Flows, Claimable(q, f)
    PROVE  Grew(q, ClaimQueue(q, f))
<1> DEFINE item == [q.items[f] EXCEPT !.state = "UnderReview"]
           r == [items |-> SetItem(q.items, f, item), decisions |-> q.decisions, seq |-> q.seq]
<1>0. f \in DOMAIN q.items /\ q.items[f].state = "Pending" /\ q.items \in [DOMAIN q.items -> Item]
      /\ q \in Queue
  BY QueueFields DEF Good, Claimable
<1>1. Undecided(q, f)
  BY <1>0 DEF Undecided
<1>2. item \in Item /\ item.state = "UnderReview" /\ item.decision = {}
  <2>1. q.items[f] \in Item /\ q.items[f].decision = {}
    BY <1>0, <1>1 DEF Good, Agree
  <2> QED
    BY <2>1 DEF Item
<1>3. ClaimQueue(q, f) = r
  <2>1. [q.items EXCEPT ![f].state = "UnderReview"] = SetItem(q.items, f, item)
    BY <1>0 DEF SetItem
  <2>2. ClaimQueue(q, f) = [q EXCEPT !.items = [q.items EXCEPT ![f].state = "UnderReview"]]
    BY <1>0 DEF ClaimQueue, Queue
  <2> HIDE DEF item
  <2> QED
    BY <1>0, <2>1, <2>2 DEF Queue
<1>4. Good(r)
  <2> HIDE DEF item
  <2> QED
    BY <1>1, <1>2, LeaveOpen
<1> QED
  BY <1>3, <1>4 DEF Grew

\* record_decision
LEMMA ResolveGrew ==
    ASSUME NEW q, Good(q), NEW f \in Flows, Open(q, f), NEW verdict \in Verdicts
    PROVE  Grew(q, ResolveQueue(q, f, "Human", verdict))
<1> DEFINE item == [q.items[f] EXCEPT !.state = "Resolved", !.decision = {q.seq}]
<1>0. f \in DOMAIN q.items /\ q.items \in [DOMAIN q.items -> Item] /\ q.seq \in Nat
  BY QueueFields DEF Good, Open
<1>1. Undecided(q, f)
  BY DEF Undecided, Open
<1>2. item \in Item /\ item.state = "Resolved" /\ item.decision = {q.seq}
  <2>1. q.items[f] \in Item
    BY <1>0
  <2> QED
    BY <1>0, <2>1 DEF Item
<1> DEFINE r == [items |-> SetItem(q.items, f, item), decisions |-> AddDecision(q, f, "Human", verdict),
                 seq |-> q.seq + 1]
<1>3. ResolveQueue(q, f, "Human", verdict) = r
  BY DEF ResolveQueue
<1>4. q.decisions \subseteq r.decisions
  BY DEF AddDecision
<1>5. Good(r)
  <2> HIDE DEF item
  <2> QED
    BY <1>1, <1>2, DecideOne
<1> QED
  BY <1>3, <1>4, <1>5 DEF Grew

\* sweep_expired: any open flows, resolved in any order.
LEMMA SweptGrew ==
    ASSUME NEW q, Good(q), NEW E, \A f \in E : Open(q, f), NEW r \in SweptQueues(q, E)
    PROVE  Grew(q, r)
<1>0. /\ DOMAIN q.items \subseteq Flows /\ q.items \in [DOMAIN q.items -> Item]
      /\ q.decisions \subseteq Decision /\ q.seq \in Nat
  BY QueueFields DEF Good
<1>1. E \subseteq DOMAIN q.items /\ E \subseteq Flows /\ \A f \in E : Undecided(q, f)
  BY <1>0 DEF Open, Undecided
<1>2. PICK n \in Nat : n = Cardinality(E)
  BY <1>1, ReviewQueueAssumption, FS_Subset, FS_CardinalityType
<1>3. PICK round \in [E -> 0..(n - 1)] : r = SweptQueue(q, E, round)
  BY <1>2 DEF SweptQueues
<1> DEFINE m == [f \in DOMAIN q.items |->
                   IF f \in E THEN [q.items[f] EXCEPT !.state = "Resolved", !.decision = {q.seq + round[f]}]
                   ELSE q.items[f]]
           D(f) == [flow |-> f, seq |-> q.seq + round[f], reviewer |-> "SystemSlaTimeout",
                    verdict |-> SlaVerdict(q.items[f].prediction)]
           N == {D(f) : f \in E}
<1>4. \A f \in E : round[f] \in Nat /\ q.seq + round[f] \in Nat /\ q.seq + round[f] < q.seq + n
  BY <1>0, <1>2, <1>3
<1>5. PICK s \in Nat : s = q.seq + n /\ q.seq <= s
  BY <1>0, <1>2
<1>6. r = [items |-> m, decisions |-> q.decisions \union N, seq |-> s]
  BY <1>2, <1>3, <1>5 DEF SweptQueue
<1>7. \A f \in E : /\ m[f] \in Item /\ m[f].state = "Resolved"
                   /\ m[f].decision = {q.seq + round[f]}
  <2> SUFFICES ASSUME NEW f \in E
               PROVE  /\ m[f] \in Item /\ m[f].state = "Resolved"
                      /\ m[f].decision = {q.seq + round[f]}
    OBVIOUS
  <2>1. m[f] = [q.items[f] EXCEPT !.state = "Resolved", !.decision = {q.seq + round[f]}]
    BY <1>1
  <2>2. PICK x \in Nat : x = q.seq + round[f]
    BY <1>4
  <2>3. PICK i \in Item : i = q.items[f]
    BY <1>0, <1>1
  <2>4. [i EXCEPT !.state = "Resolved", !.decision = {x}] \in Item
    BY DEF Item
  <2>5. /\ [i EXCEPT !.state = "Resolved", !.decision = {x}].state = "Resolved"
        /\ [i EXCEPT !.state = "Resolved", !.decision = {x}].decision = {x}
    BY DEF Item
  <2> QED
    BY <2>1, <2>2, <2>3, <2>4, <2>5
<1>8. \A f \in E : D(f) \in Decision /\ D(f).flow = f /\ D(f).seq = q.seq + round[f]
  <2>1. \A f \in E : SlaVerdict(q.items[f].prediction) \in Verdicts
    BY DEF SlaVerdict, Verdicts
  <2> QED
    BY <1>1, <1>4, <2>1 DEF Decision
<1>9. DOMAIN m = DOMAIN q.items /\ \A f \in DOMAIN q.items \ E : m[f] = q.items[f]
  OBVIOUS
<1>10. m \in [DOMAIN q.items -> Item]
  <2>1. \A f \in DOMAIN q.items : m[f] \in Item
    BY <1>0, <1>7, <1>9
  <2>2. m = [f \in DOMAIN q.items |-> m[f]]
    OBVIOUS
  <2> HIDE DEF m
  <2> QED
    BY <2>1, <2>2
<1> HIDE DEF m, D
<1>11. m \in [DOMAIN q.items \union E -> Item]
  <2>1. DOMAIN q.items \union E = DOMAIN q.items
    BY <1>1
  <2> QED
    BY <1>10, <2>1
<1>12. N \subseteq Decision /\ \A d \in N : d.flow \in E /\ d.seq < s
  BY <1>4, <1>5, <1>8
<1>13. \A f \in E : m[f].decision = {d.seq : d \in {e \in N : e.flow = f}}
  <2> SUFFICES ASSUME NEW f \in E
               PROVE  {d.seq : d \in {e \in N : e.flow = f}} = {q.seq + round[f]}
    BY <1>7
  <2>1. {e \in N : e.flow = f} = {D(f)}
    BY <1>8
  <2> QED
    BY <1>8, <2>1
<1> HIDE DEF N
<1>14. Good([items |-> m, decisions |-> q.decisions \union N, seq |-> s])
  <2>1. \A f \in E : /\ m[f].state \in {"Resolved", "AutoResolved"}
                     /\ m[f].decision = {d.seq : d \in {e \in N : e.flow = f}}
                     /\ \E x : m[f].decision = {x}
    BY <1>7, <1>13
  <2> QED
    BY <1>1, <1>5, <1>9, <1>11, <1>12, <2>1, DecideAll
<1>15. r.decisions = q.decisions \union N
  BY <1>6
<1> QED
  BY <1>6, <1>14, <1>15 DEF Grew

LEMMA GrewTwice ==
    ASSUME NEW q, NEW r, NEW s, Grew(q, r), Grew(r, s)
    PROVE  Grew(q, s)
BY DEF Grew

\* What siem-server does between its load and its save.
LEMMA ServerGrew ==
    ASSUME NEW q, Good(q), NEW f \in Flows, NEW g \in Flows, f # g, {f, g} \cap DOMAIN q.items = {},
           NEW prediction \in Predictions, NEW doubtful \in Predictions,
           NEW r \in ServerSwept(ServerDecided(q, f, prediction), g, doubtful)
    PROVE  Grew(q, r)
<1> DEFINE asked == IngestQueue(q, f, prediction, 0)
           decided == ServerDecided(q, f, prediction)
           again == IngestQueue(decided, g, doubtful, 0)
<1>1. Grew(q, asked)
  BY IngestGrew
<1>2. Grew(asked, decided)
  <2>1. CASE Open(asked, f)
    <3>1. decided = ResolveQueue(asked, f, "Human", "ExecuteContainment")
      BY <2>1 DEF ServerDecided
    <3>2. Good(asked) /\ "ExecuteContainment" \in Verdicts
      BY <1>1 DEF Grew, Verdicts
    <3> HIDE DEF asked, decided
    <3> QED
      BY <2>1, <3>1, <3>2, ResolveGrew
  <2>2. CASE ~Open(asked, f)
    BY <1>1, <2>2 DEF ServerDecided, Grew
  <2> QED
    BY <2>1, <2>2
<1>3. g \notin DOMAIN decided.items
  <2>1. q \in Queue
    BY DEF Good
  <2>2. DOMAIN asked.items = DOMAIN q.items \union {f}
    BY <2>1 DEF IngestQueue, SetItem, Queue
  <2>3. DOMAIN decided.items = DOMAIN asked.items
    <3>1. CASE Open(asked, f)
      <4>1. decided = ResolveQueue(asked, f, "Human", "ExecuteContainment")
        BY <3>1 DEF ServerDecided
      <4>2. decided.items = SetItem(asked.items, f, [asked.items[f] EXCEPT !.state = "Resolved",
                                                                      !.decision = {asked.seq}])
        BY <4>1 DEF ResolveQueue
      <4> HIDE DEF asked, decided
      <4> QED
        BY <2>2, <4>2 DEF SetItem
    <3>2. CASE ~Open(asked, f)
      BY <3>2 DEF ServerDecided
    <3> QED
      BY <3>1, <3>2
  <2> QED
    BY <2>2, <2>3
<1>4. Grew(decided, again)
  <2>1. Good(decided)
    BY <1>2 DEF Grew
  <2> HIDE DEF decided
  <2> QED
    BY <1>3, <2>1, IngestGrew
<1>5. Grew(again, r)
  <2>1. r \in SweptQueues(again, ExpiredFlows(again, 0))
    BY DEF ServerSwept
  <2> HIDE DEF again
  <2>2. \A h \in ExpiredFlows(again, 0) : Open(again, h)
    BY DEF ExpiredFlows
  <2>3. Good(again)
    BY <1>4 DEF Grew
  <2> QED
    BY <2>1, <2>2, <2>3, SweptGrew
<1> HIDE DEF asked, decided, again
<1> QED
  BY <1>1, <1>2, <1>4, <1>5, GrewTwice

---------------------------------------------------------------------------
(* Who may allow containment                                               *)

\* The reviewer of a decision to contain a flow predicted as p may make it.
Authority(p, reviewer) ==
    \/ reviewer = "Human" /\ Evaluate(p) # "None"
    \/ reviewer = "SystemAutoResolve" /\ Evaluate(p) = "None" /\ ~IsBenign(p)
    \/ reviewer = "SystemSlaTimeout" /\ SlaVerdict(p) = "ExecuteContainment"

\* Only what the trigger asks about waits for a decision, and every decision to contain
\* was made with authority.
Vouched(q) ==
    /\ \A f \in DOMAIN q.items : Undecided(q, f) => Evaluate(q.items[f].prediction) # "None"
    /\ \A d \in q.decisions : d.verdict = "ExecuteContainment" =>
         Authority(q.items[d.flow].prediction, d.reviewer)

\* Items that keep their prediction, and wait only if they did, keep a queue vouched for;
\* so do new decisions made with authority.
LEMMA VouchedKept ==
    ASSUME NEW q, Good(q), Vouched(q), NEW r,
           \A f \in DOMAIN q.items : /\ r.items[f].prediction = q.items[f].prediction
                                     /\ Undecided(r, f) => Undecided(q, f),
           DOMAIN r.items = DOMAIN q.items,
           \A d \in r.decisions \ q.decisions :
             d.verdict = "ExecuteContainment" => Authority(r.items[d.flow].prediction, d.reviewer)
    PROVE  Vouched(r)
<1>1. \A d \in q.decisions : d.flow \in DOMAIN q.items
  BY DEF Good, Loads
<1>2. \A d \in q.decisions : d.verdict = "ExecuteContainment" =>
        Authority(r.items[d.flow].prediction, d.reviewer)
  BY <1>1 DEF Vouched
<1>3. \A f \in DOMAIN r.items : Undecided(r, f) => Evaluate(r.items[f].prediction) # "None"
  BY DEF Vouched
<1> QED
  BY <1>2, <1>3 DEF Vouched

LEMMA IngestVouched ==
    ASSUME NEW q, Good(q), Vouched(q), NEW f \in Flows, f \notin DOMAIN q.items,
           NEW p \in Predictions, NEW time \in Nat
    PROVE  Vouched(IngestQueue(q, f, p, time))
<1> DEFINE r == IngestQueue(q, f, p, time)
<1>0. q \in Queue /\ \A d \in q.decisions : d.flow \in DOMAIN q.items
  BY DEF Good, Loads
<1>1. PICK item : /\ r.items = SetItem(q.items, f, item) /\ item.prediction = p
                  /\ item.state = "Pending" => Evaluate(p) # "None"
                  /\ item.state \in {"Pending", "AutoResolved"}
  <2>1. CASE Evaluate(p) = "None"
    BY <2>1 DEF IngestQueue
  <2>2. CASE Evaluate(p) # "None"
    BY <1>0, <2>2 DEF IngestQueue, Queue
  <2> QED
    BY <2>1, <2>2
<1>2. /\ DOMAIN r.items = DOMAIN q.items \union {f} /\ r.items[f] = item
      /\ \A g \in DOMAIN q.items : r.items[g] = q.items[g]
  BY <1>1 DEF SetItem
<1>3. \A d \in r.decisions : d \in q.decisions
        \/ /\ d.flow = f /\ d.reviewer = "SystemAutoResolve" /\ Evaluate(p) = "None"
           /\ d.verdict = AutoVerdict(p)
  <2>1. CASE Evaluate(p) = "None"
    BY <2>1 DEF IngestQueue, AddDecision
  <2>2. CASE Evaluate(p) # "None"
    BY <1>0, <2>2 DEF IngestQueue, Queue
  <2> QED
    BY <2>1, <2>2
<1> HIDE DEF r
<1>4. \A g \in DOMAIN r.items : Undecided(r, g) => Evaluate(r.items[g].prediction) # "None"
  BY <1>1, <1>2 DEF Vouched, Undecided
<1>5. \A d \in q.decisions : d.verdict = "ExecuteContainment" =>
        Authority(r.items[d.flow].prediction, d.reviewer)
  BY <1>0, <1>2 DEF Vouched
<1>6. Evaluate(p) = "None" /\ AutoVerdict(p) = "ExecuteContainment" =>
        Authority(p, "SystemAutoResolve")
  BY DEF AutoVerdict, Authority
<1>7. Vouched(r)
  BY <1>1, <1>2, <1>3, <1>4, <1>5, <1>6 DEF Vouched
<1> QED
  BY <1>7 DEF r

LEMMA ClaimVouched ==
    ASSUME NEW q, Good(q), Vouched(q), NEW f \in Flows, Claimable(q, f)
    PROVE  Vouched(ClaimQueue(q, f))
<1> DEFINE r == ClaimQueue(q, f)
<1>0. /\ q \in Queue /\ f \in DOMAIN q.items /\ q.items[f].state = "Pending"
      /\ q.items \in [DOMAIN q.items -> Item]
  BY QueueFields DEF Good, Claimable
<1>1. /\ r.items = [q.items EXCEPT ![f].state = "UnderReview"] /\ r.decisions = q.decisions
  BY <1>0 DEF ClaimQueue, Queue
<1>2. DOMAIN r.items = DOMAIN q.items
  BY <1>1
<1>3. \A g \in DOMAIN q.items : r.items[g].prediction = q.items[g].prediction
  BY <1>0, <1>1 DEF Item
<1>4. \A g \in DOMAIN q.items : Undecided(r, g) => Undecided(q, g)
  BY <1>0, <1>1 DEF Undecided
<1> HIDE DEF r
<1>5. Vouched(r)
  BY <1>1, <1>2, <1>3, <1>4, VouchedKept
<1> QED
  BY <1>5 DEF r

LEMMA ResolveVouched ==
    ASSUME NEW q, Good(q), Vouched(q), NEW f \in Flows, Open(q, f), NEW verdict \in Verdicts
    PROVE  Vouched(ResolveQueue(q, f, "Human", verdict))
<1> DEFINE r == ResolveQueue(q, f, "Human", verdict)
           item == [q.items[f] EXCEPT !.state = "Resolved", !.decision = {q.seq}]
<1>0. /\ f \in DOMAIN q.items /\ Undecided(q, f) /\ q.items \in [DOMAIN q.items -> Item]
  BY QueueFields DEF Good, Open, Undecided
<1>1. item.prediction = q.items[f].prediction /\ item.state = "Resolved"
  BY <1>0 DEF Item
<1>2. r.items = SetItem(q.items, f, item) /\ r.decisions = AddDecision(q, f, "Human", verdict)
  BY DEF ResolveQueue
<1> HIDE DEF item
<1>3. /\ DOMAIN r.items = DOMAIN q.items /\ r.items[f] = item
      /\ \A g \in DOMAIN q.items \ {f} : r.items[g] = q.items[g]
  BY <1>0, <1>2 DEF SetItem
<1>4. \A d \in r.decisions \ q.decisions : d.flow = f /\ d.reviewer = "Human"
  BY <1>2 DEF AddDecision
<1> HIDE DEF r
<1>5. Authority(r.items[f].prediction, "Human")
  BY <1>0, <1>1, <1>3 DEF Authority, Vouched
<1>6. \A g \in DOMAIN q.items : /\ r.items[g].prediction = q.items[g].prediction
                                /\ Undecided(r, g) => Undecided(q, g)
  BY <1>0, <1>1, <1>3 DEF Undecided
<1>7. Vouched(r)
  BY <1>3, <1>4, <1>5, <1>6, VouchedKept
<1> QED
  BY <1>7 DEF r

LEMMA SweptVouched ==
    ASSUME NEW q, Good(q), Vouched(q), NEW E, \A f \in E : Open(q, f), NEW r \in SweptQueues(q, E)
    PROVE  Vouched(r)
<1>0. /\ E \subseteq DOMAIN q.items /\ \A f \in E : Undecided(q, f)
      /\ q.items \in [DOMAIN q.items -> Item]
  BY QueueFields DEF Good, Open, Undecided
<1>1. PICK round : r = SweptQueue(q, E, round)
  BY DEF SweptQueues
<1>2. /\ r.items = [f \in DOMAIN q.items |->
                      IF f \in E THEN [q.items[f] EXCEPT !.state = "Resolved",
                                                         !.decision = {q.seq + round[f]}]
                      ELSE q.items[f]]
      /\ r.decisions = q.decisions \union
           {[flow |-> f, seq |-> q.seq + round[f], reviewer |-> "SystemSlaTimeout",
             verdict |-> SlaVerdict(q.items[f].prediction)] : f \in E}
  BY <1>1 DEF SweptQueue
<1>3. \A g \in DOMAIN q.items : /\ r.items[g].prediction = q.items[g].prediction
                                /\ IF g \in E THEN r.items[g].state = "Resolved"
                                   ELSE r.items[g] = q.items[g]
  <2> SUFFICES ASSUME NEW g \in DOMAIN q.items
               PROVE  /\ r.items[g].prediction = q.items[g].prediction
                      /\ IF g \in E THEN r.items[g].state = "Resolved"
                         ELSE r.items[g] = q.items[g]
    OBVIOUS
  <2>1. PICK i \in Item : i = q.items[g]
    BY <1>0
  <2>2. \A n : LET j == [i EXCEPT !.state = "Resolved", !.decision = n]
               IN  j.prediction = i.prediction /\ j.state = "Resolved"
    BY DEF Item
  <2>3. CASE g \in E
    <3>1. r.items[g] = [i EXCEPT !.state = "Resolved", !.decision = {q.seq + round[g]}]
      BY <1>2, <2>1, <2>3
    <3> QED
      BY <2>1, <2>2, <2>3, <3>1
  <2>4. CASE g \notin E
    BY <1>2, <2>4
  <2> QED
    BY <2>3, <2>4
<1>4. \A g \in DOMAIN q.items : Undecided(r, g) => Undecided(q, g)
  BY <1>0, <1>3 DEF Undecided
<1>5. \A d \in r.decisions \ q.decisions :
        /\ d.flow \in DOMAIN q.items /\ d.reviewer = "SystemSlaTimeout"
        /\ d.verdict = SlaVerdict(q.items[d.flow].prediction)
  <2> SUFFICES ASSUME NEW d \in r.decisions \ q.decisions
               PROVE  /\ d.flow \in DOMAIN q.items /\ d.reviewer = "SystemSlaTimeout"
                      /\ d.verdict = SlaVerdict(q.items[d.flow].prediction)
    OBVIOUS
  <2>1. PICK f \in E : d = [flow |-> f, seq |-> q.seq + round[f], reviewer |-> "SystemSlaTimeout",
                           verdict |-> SlaVerdict(q.items[f].prediction)]
    BY <1>2
  <2> QED
    BY <1>0, <2>1
<1>6. \A d \in r.decisions \ q.decisions :
        d.verdict = "ExecuteContainment" => Authority(r.items[d.flow].prediction, d.reviewer)
  BY <1>3, <1>5 DEF Authority
<1>7. DOMAIN r.items = DOMAIN q.items
  BY <1>2
<1> QED
  BY <1>3, <1>4, <1>6, <1>7, VouchedKept

---------------------------------------------------------------------------
(* The programs and the file                                               *)

Contents == [kind : {"empty", "torn", "full"}, queue : GoodQueues]

Files == [content : [Inodes -> Contents], path : SUBSET Inodes, tmp : SUBSET Inodes]

Proc == [pc : {"exited", "loaded", "operated", "opened", "written"}, queue : GoodQueues,
         fd : SUBSET Inodes, stale : BOOLEAN]

\* Whatever an inode holds came from one program's good queue; only a program that is in
\* the middle of fs::write has a file open.
StoreType ==
    /\ fs \in Files
    /\ proc \in [Procs -> Proc]
    /\ \A p \in Procs : /\ proc[p].fd # {} => proc[p].pc = "opened"
                        /\ proc[p].pc = "exited" => ~proc[p].stale

Saving(pc) == pc \in {"opened", "written"}

\* Without a clash of writes the temporary file belongs to one saver, who finds in it what
\* it left there, and it is not the state file.
WholeInv == "write" \notin clashes =>
    /\ \A p, q \in Procs : Saving(proc[p].pc) /\ Saving(proc[q].pc) => p = q
    /\ fs.path \cap fs.tmp = {}
    /\ \A i \in fs.path : fs.content[i].kind = "full"
    /\ \A p \in Procs : proc[p].pc = "opened" =>
         \E i \in Inodes : proc[p].fd = {i} /\ fs.tmp = {i} /\ fs.content[i].kind = "empty"
    /\ \A p \in Procs : proc[p].pc = "written" =>
         \E i \in Inodes : fs.tmp = {i} /\ fs.content[i] = Full(proc[p].queue)

\* Without a clash what was acknowledged is in the state file and in the queue of every
\* program that need not expect its save to clash.
AckedInv == clashes = {} =>
    /\ \A i \in fs.path : acked \subseteq fs.content[i].queue.decisions
    /\ fs.path = {} => acked = {}
    /\ \A p \in Procs : proc[p].pc # "exited" /\ ~proc[p].stale => acked \subseteq proc[p].queue.decisions

StoreInv == StoreType /\ WholeInv /\ AckedInv

LEMMA NewGood == NewQueue \in GoodQueues /\ Empty \in Contents /\ Torn \in Contents
<1>1. [f \in {} |-> {}] \in [{} -> Item]
  OBVIOUS
<1>2. NewQueue \in Queue
  <2>1. {} \subseteq Flows /\ {} \subseteq Decision /\ 0 \in Nat
    OBVIOUS
  <2> QED
    BY <1>1, <2>1, QueueMade DEF NewQueue
<1>3. DOMAIN NewQueue.items = {} /\ NewQueue.decisions = {}
  BY DEF NewQueue
<1>4. Good(NewQueue)
  BY <1>2, <1>3 DEF Good, Loads, Agree
<1> QED
  BY <1>2, <1>4 DEF GoodQueues, Empty, Torn, Contents

LEMMA InGoodQueues == \A q : q \in GoodQueues <=> Good(q)
BY DEF GoodQueues, Good

\* A program whose copy has gone out of date.
LEMMA StaleMoves ==
    ASSUME NEW r \in Proc
    PROVE  /\ [r EXCEPT !.stale = TRUE] \in Proc
           /\ [r EXCEPT !.stale = TRUE].pc = r.pc
           /\ [r EXCEPT !.stale = TRUE].queue = r.queue
           /\ [r EXCEPT !.stale = TRUE].fd = r.fd
           /\ [r EXCEPT !.stale = TRUE].stale = TRUE
BY DEF Proc

LEMMA ExitedProc ==
    /\ Exited \in Proc /\ Exited.pc = "exited" /\ Exited.fd = {} /\ Exited.stale = FALSE
BY NewGood DEF Exited, Proc

\* The changes of the files.
LEMMA FileMoves ==
    ASSUME NEW x \in Files, NEW i \in Inodes, NEW c \in Contents
    PROVE  /\ OpenTmp(x, i, c) \in Files
           /\ OpenTmp(x, i, c).path = x.path /\ OpenTmp(x, i, c).tmp = {i}
           /\ OpenTmp(x, i, c).content[i] = c
           /\ \A j \in Inodes \ {i} : OpenTmp(x, i, c).content[j] = x.content[j]
           /\ WriteInode(x, i, c) \in Files
           /\ WriteInode(x, i, c).path = x.path /\ WriteInode(x, i, c).tmp = x.tmp
           /\ WriteInode(x, i, c).content[i] = c
           /\ \A j \in Inodes \ {i} : WriteInode(x, i, c).content[j] = x.content[j]
           /\ RenameTmp(x) \in Files
           /\ RenameTmp(x).path = x.tmp /\ RenameTmp(x).tmp = {}
           /\ RenameTmp(x).content = x.content
<1>1. /\ OpenTmp(x, i, c) \in Files
      /\ OpenTmp(x, i, c).path = x.path /\ OpenTmp(x, i, c).tmp = {i}
      /\ OpenTmp(x, i, c).content[i] = c
      /\ \A j \in Inodes \ {i} : OpenTmp(x, i, c).content[j] = x.content[j]
  BY DEF OpenTmp, Files
<1>2. /\ WriteInode(x, i, c) \in Files
      /\ WriteInode(x, i, c).path = x.path /\ WriteInode(x, i, c).tmp = x.tmp
      /\ WriteInode(x, i, c).content[i] = c
      /\ \A j \in Inodes \ {i} : WriteInode(x, i, c).content[j] = x.content[j]
  BY DEF WriteInode, Files
<1>3. /\ RenameTmp(x) \in Files
      /\ RenameTmp(x).path = x.tmp /\ RenameTmp(x).tmp = {}
      /\ RenameTmp(x).content = x.content
  BY DEF RenameTmp, Files
<1> QED
  BY <1>1, <1>2, <1>3

\* One program's record is replaced.
LEMMA ProcSet ==
    ASSUME NEW f \in [Procs -> Proc], NEW p \in Procs, NEW r \in Proc
    PROVE  /\ [f EXCEPT ![p] = r] \in [Procs -> Proc]
           /\ [f EXCEPT ![p] = r][p] = r
           /\ \A q \in Procs \ {p} : [f EXCEPT ![p] = r][q] = f[q]
OBVIOUS

\* A step of one program that touches no file and ends outside of a save.
LEMMA Outside ==
    ASSUME StoreInv, NEW p \in Procs, NEW r \in Proc, proc' = [proc EXCEPT ![p] = r],
           UNCHANGED <<fs, acked, clashes>>, ~Saving(r.pc), r.fd = {},
           r.pc = "exited" => ~r.stale,
           clashes = {} /\ r.pc # "exited" /\ ~r.stale => acked \subseteq r.queue.decisions
    PROVE  StoreInv'
<1>1. /\ proc' \in [Procs -> Proc] /\ proc'[p] = r
      /\ \A q \in Procs \ {p} : proc'[q] = proc[q]
  BY ProcSet DEF StoreInv, StoreType
<1>2. StoreType'
  BY <1>1 DEF StoreInv, StoreType
<1>3. WholeInv'
  <2>1. \A q \in Procs : Saving(proc'[q].pc) => q # p /\ proc'[q] = proc[q]
    BY <1>1
  <2>2. \A q \in Procs : proc'[q].pc \in {"opened", "written"} => q # p /\ proc'[q] = proc[q]
    BY <2>1 DEF Saving
  <2> QED
    BY <2>1, <2>2 DEF StoreInv, WholeInv
<1>4. AckedInv'
  BY <1>1 DEF StoreInv, AckedInv
<1> QED
  BY <1>2, <1>3, <1>4 DEF StoreInv

LEMMA Untouched ==
    ASSUME StoreInv, UNCHANGED <<fs, proc, acked, clashes>>
    PROVE  StoreInv'
BY DEF StoreInv, StoreType, WholeInv, AckedInv

LEMMA LoadStep ==
    ASSUME StoreInv, NEW p \in Procs, Load(p)
    PROVE  StoreInv'
<1>0. proc[p] \in Proc /\ proc[p].pc = "exited" /\ UNCHANGED <<fs, acked, clashes>>
      /\ ~proc[p].stale /\ proc[p].fd = {}
  BY DEF Load, StoreInv, StoreType
<1>1. ASSUME NEW q \in GoodQueues, clashes = {} => acked \subseteq q.decisions,
             proc' = [proc EXCEPT ![p] = [@ EXCEPT !.pc = "loaded", !.queue = q]]
      PROVE  StoreInv'
  <2> DEFINE r == [proc[p] EXCEPT !.pc = "loaded", !.queue = q]
  <2>1. r \in Proc /\ r.pc = "loaded" /\ r.queue = q /\ r.fd = {} /\ ~r.stale
    <3>1. PICK x \in Proc : x = proc[p]
      BY <1>0
    <3>2. LET y == [x EXCEPT !.pc = "loaded", !.queue = q]
          IN  y \in Proc /\ y.pc = "loaded" /\ y.queue = q /\ y.fd = x.fd /\ y.stale = x.stale
      BY DEF Proc
    <3> QED
      BY <1>0, <3>1, <3>2
  <2>2. proc' = [proc EXCEPT ![p] = r]
    BY <1>1
  <2> HIDE DEF r
  <2>3. ~Saving(r.pc)
    BY <2>1 DEF Saving
  <2> QED
    BY <1>0, <1>1, <2>1, <2>2, <2>3, Outside
<1>2. CASE fs.path = {} /\ proc' = [proc EXCEPT ![p] = [@ EXCEPT !.pc = "loaded", !.queue = NewQueue]]
  <2>1. clashes = {} => acked = {}
    BY <1>2 DEF StoreInv, AckedInv
  <2> QED
    BY <1>1, <1>2, <2>1, NewGood
<1>3. CASE \E i \in fs.path :
             proc' = [proc EXCEPT ![p] = [@ EXCEPT !.pc = "loaded", !.queue = Rehydrate(fs.content[i].queue)]]
  <2>1. PICK i \in fs.path :
             proc' = [proc EXCEPT ![p] = [@ EXCEPT !.pc = "loaded", !.queue = fs.content[i].queue]]
    BY <1>3 DEF Rehydrate
  <2>2. fs.content[i].queue \in GoodQueues
    BY DEF StoreInv, StoreType, Files, Contents
  <2>3. clashes = {} => acked \subseteq fs.content[i].queue.decisions
    BY DEF StoreInv, AckedInv
  <2> QED
    BY <1>1, <2>1, <2>2, <2>3
<1>4. CASE UNCHANGED proc
  BY <1>0, <1>4, Untouched
<1> QED
  BY <1>2, <1>3, <1>4 DEF Load

LEMMA OperateStep ==
    ASSUME StoreInv, NEW p \in Procs, NEW q, Operate(p, q), Grew(proc[p].queue, q)
    PROVE  StoreInv'
<1> DEFINE r == [proc[p] EXCEPT !.pc = "operated", !.queue = q]
<1>0. /\ proc[p] \in Proc /\ proc[p].pc = "loaded" /\ UNCHANGED <<fs, acked, clashes>>
      /\ proc[p].fd = {} /\ proc' = [proc EXCEPT ![p] = r]
  BY DEF Operate, StoreInv, StoreType
<1>1. q \in GoodQueues
  BY InGoodQueues DEF Grew
<1>2. r \in Proc /\ r.pc = "operated" /\ r.queue = q /\ r.fd = {} /\ r.stale = proc[p].stale
  <2>1. PICK x \in Proc : x = proc[p]
    BY <1>0
  <2>2. LET y == [x EXCEPT !.pc = "operated", !.queue = q]
        IN  y \in Proc /\ y.pc = "operated" /\ y.queue = q /\ y.fd = x.fd /\ y.stale = x.stale
    BY <1>1 DEF Proc
  <2> QED
    BY <1>0, <2>1, <2>2
<1> HIDE DEF r
<1>3. clashes = {} /\ ~r.stale => acked \subseteq r.queue.decisions
  BY <1>0, <1>2 DEF StoreInv, AckedInv, Grew
<1>4. ~Saving(r.pc)
  BY <1>2 DEF Saving
<1> QED
  BY <1>0, <1>2, <1>3, <1>4, Outside

\* The command is over without having touched a file.
LEMMA ExitStep ==
    ASSUME StoreInv, NEW p \in Procs, proc' = [proc EXCEPT ![p] = Exited],
           UNCHANGED <<fs, acked, clashes>>
    PROVE  StoreInv'
<1>1. ~Saving(Exited.pc)
  BY ExitedProc DEF Saving
<1> QED
  BY <1>1, ExitedProc, Outside

\* Without a clash of writes the inode a program opens is not the state file's.
LEMMA TargetApart ==
    ASSUME StoreInv, NEW i \in SaveTarget
    PROVE  i \in Inodes /\ ("write" \notin clashes => i \notin fs.path)
BY DEF StoreInv, StoreType, Files, WholeInv, SaveTarget, TmpInodes, Unused

LEMMA SaveOpenStep ==
    ASSUME StoreInv, NEW p \in Procs, SaveOpen(p)
    PROVE  StoreInv'
<1>1. PICK i \in SaveTarget : /\ fs' = OpenTmp(fs, i, Empty)
                              /\ proc' = [proc EXCEPT ![p] = [@ EXCEPT !.pc = "opened", !.fd = {i}]]
  BY DEF SaveOpen
<1> DEFINE r == [proc[p] EXCEPT !.pc = "opened", !.fd = {i}]
<1>2. proc[p] \in Proc /\ fs \in Files /\ i \in Inodes /\ proc[p].pc = "operated" /\ acked' = acked
  BY TargetApart DEF SaveOpen, StoreInv, StoreType
<1>3. /\ r \in Proc /\ r.pc = "opened" /\ r.queue = proc[p].queue /\ r.fd = {i}
      /\ r.stale = proc[p].stale
  <2>1. PICK x \in Proc, S \in SUBSET Inodes : x = proc[p] /\ S = {i}
    BY <1>2
  <2>2. LET y == [x EXCEPT !.pc = "opened", !.fd = S]
        IN  y \in Proc /\ y.pc = "opened" /\ y.queue = x.queue /\ y.fd = S /\ y.stale = x.stale
    BY DEF Proc
  <2> QED
    BY <2>1, <2>2
<1> HIDE DEF r
<1>4. /\ proc' \in [Procs -> Proc] /\ proc'[p] = r
      /\ \A q \in Procs \ {p} : proc'[q] = proc[q]
  <2>1. proc' = [proc EXCEPT ![p] = r]
    BY <1>1 DEF r
  <2> QED
    BY <1>3, <2>1, ProcSet DEF StoreInv, StoreType
<1>5. /\ fs' \in Files /\ fs'.path = fs.path /\ fs'.tmp = {i} /\ fs'.content[i] = Empty
      /\ \A j \in Inodes \ {i} : fs'.content[j] = fs.content[j]
  BY <1>1, <1>2, NewGood, FileMoves
<1>6. StoreType'
  BY <1>3, <1>4, <1>5 DEF StoreInv, StoreType
<1>7. "write" \notin clashes' => /\ "write" \notin clashes /\ i \notin fs.path
                                 /\ \A q \in Procs : ~Saving(proc[q].pc)
  <2>1. clashes' = clashes \union {"write" : q \in {q \in Procs : proc[q].pc \in {"opened", "written"}}}
    BY DEF SaveOpen
  <2> QED
    BY <2>1, TargetApart DEF Saving
<1>8. fs.path \subseteq Inodes
  BY <1>2 DEF Files
<1>9. WholeInv'
  <2> SUFFICES ASSUME "write" \notin clashes'
               PROVE  /\ \A a, b \in Procs : Saving(proc'[a].pc) /\ Saving(proc'[b].pc) => a = b
                      /\ fs'.path \cap fs'.tmp = {}
                      /\ \A j \in fs'.path : fs'.content[j].kind = "full"
                      /\ \A a \in Procs : proc'[a].pc = "opened" =>
                           \E j \in Inodes : /\ proc'[a].fd = {j} /\ fs'.tmp = {j}
                                             /\ fs'.content[j].kind = "empty"
                      /\ \A a \in Procs : proc'[a].pc = "written" =>
                           \E j \in Inodes : fs'.tmp = {j} /\ fs'.content[j] = Full(proc'[a].queue)
    BY DEF WholeInv, Full
  <2>1. \A a \in Procs : Saving(proc'[a].pc) => a = p
    BY <1>4, <1>7
  <2>2. fs'.path \cap fs'.tmp = {}
    BY <1>5, <1>7
  <2>3. \A j \in fs'.path : fs'.content[j].kind = "full"
    BY <1>5, <1>7, <1>8 DEF StoreInv, WholeInv
  <2>4. Empty.kind = "empty"
    BY DEF Empty
  <2>5. \A a \in Procs : proc'[a].pc = "opened" \/ proc'[a].pc = "written" => proc'[a] = r
    BY <1>4, <2>1 DEF Saving
  <2>6. r.pc # "written"
    BY <1>3
  <2> QED
    BY <1>2, <1>3, <1>5, <2>1, <2>2, <2>3, <2>4, <2>5, <2>6
<1>10. AckedInv'
  <2> SUFFICES ASSUME clashes' = {}
               PROVE  /\ \A j \in fs'.path : acked \subseteq fs'.content[j].queue.decisions
                      /\ fs'.path = {} => acked = {}
                      /\ \A a \in Procs : proc'[a].pc # "exited" /\ ~proc'[a].stale =>
                                            acked \subseteq proc'[a].queue.decisions
    BY <1>2 DEF AckedInv
  <2>1. clashes = {}
    BY DEF SaveOpen
  <2>2. \A j \in fs'.path : fs'.content[j] = fs.content[j]
    BY <1>5, <1>7, <1>8
  <2>3. ~r.stale => acked \subseteq r.queue.decisions
    BY <1>2, <1>3, <2>1 DEF StoreInv, AckedInv
  <2> QED
    BY <1>4, <1>5, <2>1, <2>2, <2>3 DEF StoreInv, AckedInv
<1> QED
  BY <1>6, <1>9, <1>10 DEF StoreInv

\* Without a clash of writes the program that has a file open is the only one in a save,
\* and what it has open is the temporary file.
LEMMA OpenedAlone ==
    ASSUME StoreInv, "write" \notin clashes, NEW p \in Procs, NEW i \in proc[p].fd
    PROVE  /\ fs.tmp = {i} /\ i \notin fs.path /\ fs.content[i].kind = "empty"
           /\ \A q \in Procs : Saving(proc[q].pc) => q = p
<1>1. proc[p].pc = "opened"
  BY DEF StoreInv, StoreType
<1>2. PICK j \in Inodes : proc[p].fd = {j} /\ fs.tmp = {j} /\ fs.content[j].kind = "empty"
  BY <1>1 DEF StoreInv, WholeInv
<1>3. i = j
  BY <1>2
<1>4. \A q \in Procs : Saving(proc[q].pc) => q = p
  BY <1>1 DEF StoreInv, WholeInv, Saving
<1> QED
  BY <1>2, <1>3, <1>4 DEF StoreInv, WholeInv

LEMMA SaveWriteStep ==
    ASSUME StoreInv, NEW p \in Procs, SaveWrite(p)
    PROVE  StoreInv'
<1>0. /\ proc[p] \in Proc /\ proc[p].fd \subseteq Inodes /\ proc[p].queue \in GoodQueues
      /\ fs \in Files /\ fs.path \subseteq Inodes
      /\ proc[p].pc = "opened" /\ UNCHANGED <<acked, clashes>>
  BY DEF SaveWrite, StoreInv, StoreType, Proc, Files
<1> DEFINE r == [proc[p] EXCEPT !.pc = "written", !.fd = {}]
<1>1. /\ r \in Proc /\ r.pc = "written" /\ r.queue = proc[p].queue /\ r.fd = {}
      /\ r.stale = proc[p].stale
  <2>1. PICK x \in Proc, S \in SUBSET Inodes : x = proc[p] /\ S = {}
    BY <1>0
  <2>2. LET y == [x EXCEPT !.pc = "written", !.fd = S]
        IN  y \in Proc /\ y.pc = "written" /\ y.queue = x.queue /\ y.fd = S /\ y.stale = x.stale
    BY DEF Proc
  <2> QED
    BY <2>1, <2>2
<1> HIDE DEF r
<1>2. /\ proc' \in [Procs -> Proc] /\ proc'[p] = r
      /\ \A q \in Procs \ {p} : proc'[q] = proc[q]
  <2>1. proc' = [proc EXCEPT ![p] = r]
    BY DEF SaveWrite, r
  <2> QED
    BY <1>1, <2>1, ProcSet DEF StoreInv, StoreType
<1>3. PICK i \in proc[p].fd : \/ fs' = WriteInode(fs, i, Full(proc[p].queue))
                              \/ fs.content[i].kind # "empty" /\ fs' = WriteInode(fs, i, Torn)
  BY DEF SaveWrite
<1>4. PICK c \in Contents : /\ fs' = WriteInode(fs, i, c)
                            /\ fs.content[i].kind = "empty" => c = Full(proc[p].queue)
  <2>1. Full(proc[p].queue) \in Contents
    BY <1>0 DEF Full, Contents
  <2> QED
    BY <1>3, <2>1, NewGood
<1>5. /\ fs' \in Files /\ fs'.path = fs.path /\ fs'.tmp = fs.tmp /\ fs'.content[i] = c
      /\ \A j \in Inodes \ {i} : fs'.content[j] = fs.content[j]
  BY <1>0, <1>4, FileMoves
<1>6. StoreType'
  BY <1>1, <1>2, <1>5 DEF StoreInv, StoreType
<1>7. "write" \notin clashes => /\ fs.tmp = {i} /\ i \notin fs.path /\ c = Full(proc[p].queue)
                                /\ \A q \in Procs : Saving(proc[q].pc) => q = p
  BY <1>4, OpenedAlone
<1>8. WholeInv'
  <2> SUFFICES ASSUME "write" \notin clashes
               PROVE  /\ \A a, b \in Procs : Saving(proc'[a].pc) /\ Saving(proc'[b].pc) => a = b
                      /\ fs'.path \cap fs'.tmp = {}
                      /\ \A j \in fs'.path : fs'.content[j].kind = "full"
                      /\ \A a \in Procs : proc'[a].pc = "opened" =>
                           \E j \in Inodes : /\ proc'[a].fd = {j} /\ fs'.tmp = {j}
                                             /\ fs'.content[j].kind = "empty"
                      /\ \A a \in Procs : proc'[a].pc = "written" =>
                           \E j \in Inodes : fs'.tmp = {j} /\ fs'.content[j] = Full(proc'[a].queue)
    BY <1>0 DEF WholeInv, Full
  <2>1. \A a \in Procs : Saving(proc'[a].pc) => a = p
    BY <1>2, <1>7
  <2>2. fs'.path \cap fs'.tmp = {}
    BY <1>5, <1>7
  <2>3. \A j \in fs'.path : fs'.content[j].kind = "full"
    BY <1>0, <1>5, <1>7 DEF StoreInv, WholeInv
  <2>4. \A a \in Procs : proc'[a].pc = "opened" \/ proc'[a].pc = "written" => proc'[a] = r
    BY <1>2, <2>1 DEF Saving
  <2>5. r.pc # "opened" /\ i \in Inodes /\ fs'.tmp = {i} /\ fs'.content[i] = Full(r.queue)
    BY <1>0, <1>1, <1>5, <1>7
  <2> QED
    BY <2>1, <2>2, <2>3, <2>4, <2>5
<1>9. AckedInv'
  <2> SUFFICES ASSUME clashes = {}
               PROVE  /\ \A j \in fs'.path : acked \subseteq fs'.content[j].queue.decisions
                      /\ fs'.path = {} => acked = {}
                      /\ \A a \in Procs : proc'[a].pc # "exited" /\ ~proc'[a].stale =>
                                            acked \subseteq proc'[a].queue.decisions
    BY <1>0 DEF AckedInv
  <2>1. \A j \in fs'.path : fs'.content[j] = fs.content[j]
    BY <1>0, <1>5, <1>7
  <2>2. ~r.stale => acked \subseteq r.queue.decisions
    BY <1>0, <1>1 DEF StoreInv, AckedInv
  <2> QED
    BY <1>2, <1>5, <2>1, <2>2 DEF StoreInv, AckedInv
<1> QED
  BY <1>6, <1>8, <1>9 DEF StoreInv

LEMMA SaveRenameStep ==
    ASSUME StoreInv, NEW p \in Procs, SaveRename(p)
    PROVE  StoreInv'
<1>1. CASE ~CanRename(fs)
  BY <1>1, ExitStep DEF SaveRename
<1>2. CASE CanRename(fs)
  <2>1. /\ fs' = RenameTmp(fs)
        /\ acked' = acked \union proc[p].queue.decisions
        /\ clashes' = IF proc[p].stale THEN clashes \union {"update"} ELSE clashes
        /\ proc' = [q \in Procs |-> IF q = p \/ proc[q].pc = "exited" THEN Exited
                                    ELSE [proc[q] EXCEPT !.stale = TRUE]]
        /\ proc[p].pc = "written"
    BY <1>2 DEF SaveRename
  <2>2. fs \in Files /\ proc \in [Procs -> Proc] /\ fs.tmp \subseteq Inodes
    BY DEF StoreInv, StoreType, Files
  <2>3. fs' \in Files /\ fs'.path = fs.tmp /\ fs'.tmp = {} /\ fs'.content = fs.content
    BY <2>1, <2>2 DEF RenameTmp, Files
  <2>4. \A q \in Procs : \/ proc'[q] = Exited
                         \/ /\ q # p /\ proc[q].pc # "exited" /\ proc'[q] \in Proc
                            /\ proc'[q].pc = proc[q].pc /\ proc'[q].queue = proc[q].queue
                            /\ proc'[q].fd = proc[q].fd /\ proc'[q].stale = TRUE
    BY <2>1, <2>2, StaleMoves
  <2>5. proc' \in [Procs -> Proc]
    <3>1. \A q \in Procs : proc'[q] \in Proc
      BY <2>4, ExitedProc
    <3>2. proc' = [q \in Procs |-> proc'[q]]
      BY <2>1
    <3> QED
      BY <3>1, <3>2
  <2>6. StoreType'
    BY <2>3, <2>4, <2>5, ExitedProc DEF StoreInv, StoreType
  <2>7. "write" \notin clashes' => "write" \notin clashes
    BY <2>1
  <2>8. "write" \notin clashes => /\ \E i \in Inodes : fs.tmp = {i} /\ fs.content[i] = Full(proc[p].queue)
                                  /\ \A q \in Procs : Saving(proc[q].pc) => q = p
    BY <2>1 DEF StoreInv, WholeInv, Saving
  <2>9. WholeInv'
    <3> SUFFICES ASSUME "write" \notin clashes'
                 PROVE  /\ \A a \in Procs : ~Saving(proc'[a].pc)
                        /\ fs'.path \cap fs'.tmp = {}
                        /\ \A j \in fs'.path : fs'.content[j].kind = "full"
      BY DEF WholeInv, Saving
    <3>1. \A a \in Procs : ~Saving(proc'[a].pc)
      BY <2>4, <2>7, <2>8, ExitedProc DEF Saving
    <3> QED
      BY <2>3, <2>7, <2>8, <3>1 DEF Full
  <2>10. AckedInv'
    <3> SUFFICES ASSUME clashes' = {}
                 PROVE  /\ \A j \in fs'.path : acked' \subseteq fs'.content[j].queue.decisions
                        /\ fs'.path = {} => acked' = {}
                        /\ \A a \in Procs : proc'[a].pc # "exited" /\ ~proc'[a].stale =>
                                              acked' \subseteq proc'[a].queue.decisions
      BY DEF AckedInv
    <3>1. clashes = {} /\ ~proc[p].stale
      BY <2>1, <2>2 DEF Proc
    <3>2. acked' = proc[p].queue.decisions
      BY <2>1, <3>1 DEF StoreInv, AckedInv
    <3>3. PICK i \in Inodes : fs.tmp = {i} /\ fs.content[i] = Full(proc[p].queue)
      BY <2>8, <3>1
    <3>4. \A j \in fs'.path : fs'.content[j] = Full(proc[p].queue)
      BY <2>3, <3>3
    <3>5. Full(proc[p].queue).queue = proc[p].queue
      BY DEF Full
    <3>6. \A j \in fs'.path : acked' \subseteq fs'.content[j].queue.decisions
      BY <3>2, <3>4, <3>5
    <3> QED
      BY <2>3, <2>4, <3>3, <3>6, ExitedProc
  <2> QED
    BY <2>6, <2>9, <2>10 DEF StoreInv
<1> QED
  BY <1>1, <1>2

LEMMA CrashStep ==
    ASSUME StoreInv, NEW p \in Procs, Crash(p)
    PROVE  StoreInv'
<1>0. proc' = [proc EXCEPT ![p] = Exited] /\ UNCHANGED <<acked, clashes>>
  BY DEF Crash
<1>1. CASE fs' = fs
  BY <1>0, <1>1, ExitStep
<1>2. CASE \E i \in proc[p].fd : fs' = WriteInode(fs, i, Torn)
  <2>1. PICK i \in proc[p].fd : fs' = WriteInode(fs, i, Torn)
    BY <1>2
  <2>2. fs \in Files /\ fs.path \subseteq Inodes /\ i \in Inodes /\ proc \in [Procs -> Proc]
    BY DEF StoreInv, StoreType, Proc, Files
  <2>3. /\ proc' \in [Procs -> Proc] /\ proc'[p] = Exited
        /\ \A q \in Procs \ {p} : proc'[q] = proc[q]
    BY <1>0, <2>2, ProcSet, ExitedProc
  <2>4. /\ fs' \in Files /\ fs'.path = fs.path /\ fs'.tmp = fs.tmp
        /\ \A j \in Inodes \ {i} : fs'.content[j] = fs.content[j]
    BY <2>1, <2>2, NewGood, FileMoves
  <2>5. StoreType'
    BY <2>3, <2>4, ExitedProc DEF StoreInv, StoreType
  <2>6. "write" \notin clashes => i \notin fs.path /\ \A q \in Procs : Saving(proc[q].pc) => q = p
    BY OpenedAlone
  <2>7. "write" \notin clashes => \A j \in fs'.path : fs'.content[j] = fs.content[j]
    BY <2>2, <2>4, <2>6
  <2>8. WholeInv'
    <3> SUFFICES ASSUME "write" \notin clashes
                 PROVE  /\ \A a \in Procs : ~Saving(proc'[a].pc)
                        /\ fs'.path \cap fs'.tmp = {}
                        /\ \A j \in fs'.path : fs'.content[j].kind = "full"
      BY <1>0 DEF WholeInv, Saving
    <3>1. \A a \in Procs : ~Saving(proc'[a].pc)
      BY <2>3, <2>6, ExitedProc DEF Saving
    <3> QED
      BY <2>4, <2>7, <3>1 DEF StoreInv, WholeInv
  <2>9. AckedInv'
    BY <1>0, <2>3, <2>4, <2>7, ExitedProc DEF StoreInv, AckedInv
  <2> QED
    BY <2>5, <2>8, <2>9 DEF StoreInv
<1> QED
  BY <1>1, <1>2 DEF Crash

LEMMA StoreStep ==
    ASSUME StoreInv, [StoreNext]_storeVars
    PROVE  StoreInv'
<1>1. CASE UNCHANGED storeVars
  BY <1>1, Untouched DEF storeVars
<1>2. ASSUME NEW p \in Procs,
             \/ Load(p) \/ CmdEnd(p) \/ SaveOpen(p) \/ SaveWrite(p) \/ SaveRename(p) \/ Crash(p)
      PROVE  StoreInv'
  BY <1>2, LoadStep, ExitStep, SaveOpenStep, SaveWriteStep, SaveRenameStep, CrashStep DEF CmdEnd
<1>3. ASSUME NEW p \in Procs, NEW f \in Flows,
             \/ \E prediction \in Predictions : CmdIngest(p, f, prediction)
             \/ CmdClaim(p, f)
             \/ \E v \in Verdicts : CmdReview(p, f, v)
             \/ \E g \in Flows : ServerRun(p, f, g)
      PROVE  StoreInv'
  <2> DEFINE q == proc[p].queue
  <2>0. Good(q)
    BY InGoodQueues DEF StoreInv, StoreType, Proc
  <2>1. ASSUME NEW prediction \in Predictions, CmdIngest(p, f, prediction) PROVE StoreInv'
    <3>1. Grew(q, IngestQueue(q, f, prediction, 0))
      BY <2>0, <2>1, IngestGrew DEF CmdIngest
    <3> QED
      BY <2>1, <3>1, OperateStep DEF CmdIngest
  <2>2. ASSUME CmdClaim(p, f) PROVE StoreInv'
    <3>1. Grew(q, ClaimQueue(q, f))
      BY <2>0, <2>2, ClaimGrew DEF CmdClaim
    <3> QED
      BY <2>2, <3>1, OperateStep DEF CmdClaim
  <2>3. ASSUME NEW v \in Verdicts, CmdReview(p, f, v) PROVE StoreInv'
    <3>1. Grew(q, ResolveQueue(q, f, "Human", v))
      BY <2>0, <2>3, ResolveGrew DEF CmdReview
    <3> QED
      BY <2>3, <3>1, OperateStep DEF CmdReview
  <2>4. ASSUME NEW g \in Flows, ServerRun(p, f, g) PROVE StoreInv'
    <3>1. PICK prediction \in Predictions, doubtful \in Predictions :
             \E swept \in ServerSwept(ServerDecided(q, f, prediction), g, doubtful) : Operate(p, swept)
      BY <2>4 DEF ServerRun
    <3>2. PICK swept \in ServerSwept(ServerDecided(q, f, prediction), g, doubtful) : Operate(p, swept)
      BY <3>1
    <3>3. f # g /\ {f, g} \cap DOMAIN q.items = {}
      BY <2>4 DEF ServerRun
    <3>4. Grew(q, swept)
      BY <2>0, <3>3, ServerGrew
    <3> QED
      BY <3>2, <3>4, OperateStep
  <2> QED
    BY <1>3, <2>1, <2>2, <2>3, <2>4
<1>4. ASSUME NEW p \in Procs, NEW due \in SUBSET Flows, CmdSweep(p, due) PROVE StoreInv'
  <2> DEFINE q == proc[p].queue
  <2>0. Good(q)
    BY InGoodQueues DEF StoreInv, StoreType, Proc
  <2>1. PICK swept \in SweptQueues(q, due) : Operate(p, swept)
    BY <1>4 DEF CmdSweep
  <2>2. Grew(q, swept)
    BY <1>4, <2>0, SweptGrew DEF CmdSweep
  <2> QED
    BY <2>1, <2>2, OperateStep
<1> QED
  BY <1>1, <1>2, <1>3, <1>4 DEF StoreNext

LEMMA StoreInvInit == StoreInit => StoreInv
<1> SUFFICES ASSUME StoreInit PROVE StoreInv
  OBVIOUS
<1>1. fs = NoFiles(Inodes, Empty) /\ proc = [p \in Procs |-> Exited] /\ acked = {} /\ clashes = {}
  BY DEF StoreInit
<1>2. fs \in Files /\ fs.path = {} /\ fs.tmp = {}
  BY <1>1, NewGood DEF NoFiles, Files
<1>3. proc \in [Procs -> Proc] /\ \A p \in Procs : proc[p] = Exited
  BY <1>1, ExitedProc
<1> QED
  BY <1>1, <1>2, <1>3, ExitedProc DEF StoreInv, StoreType, WholeInv, AckedInv, Saving

\* record_decision, sweep_expired, store::load_or_new and save: however many programs
\* overlap, the state file never holds two decisions on one flow, and its items agree with
\* its decisions; clashes and torn writes included.
THEOREM FilesDecidedOnce == StoreSpec => []FileDecidedOnce
<1>1. StoreInv => FileDecidedOnce
  <2> SUFFICES ASSUME StoreInv, NEW i \in fs.path PROVE DecidedOnce(fs.content[i].queue)
    BY DEF FileDecidedOnce
  <2>1. fs.content[i].queue \in GoodQueues
    BY DEF StoreInv, StoreType, Files, Contents
  <2> QED
    BY <2>1, InGoodQueues, GoodDecided
<1> QED
  BY <1>1, StoreInvInit, StoreStep, PTL DEF StoreSpec

\* store::save: as long as no save began during another one, the state file is whole at
\* every moment, through crashes at any step.
THEOREM FileIsWhole == StoreSpec => []WholeWithoutClash
<1>1. StoreInv => WholeWithoutClash
  <2> SUFFICES ASSUME StoreInv, "write" \notin clashes, NEW i \in fs.path
               PROVE  fs.content[i].kind = "full" /\ Loads(fs.content[i].queue)
    BY DEF WholeWithoutClash, StateFileWhole
  <2>1. fs.content[i].queue \in GoodQueues
    BY DEF StoreInv, StoreType, Files, Contents
  <2>2. Loads(fs.content[i].queue)
    BY <2>1, InGoodQueues DEF Good
  <2> QED
    BY <2>2 DEF StoreInv, WholeInv
<1> QED
  BY <1>1, StoreInvInit, StoreStep, PTL DEF StoreSpec

\* load_or_new, save and the commands of main.rs: as long as besides no save replaced one
\* that its program had not loaded, a decision that was reported stays in the file.
THEOREM AckedIsKept == StoreSpec => []AckedKeptWithoutClash
<1>1. StoreInv => AckedKeptWithoutClash
  BY DEF StoreInv, AckedInv, AckedKeptWithoutClash
<1> QED
  BY <1>1, StoreInvInit, StoreStep, PTL DEF StoreSpec
---------------------------------------------------------------------------
(* One process and its file                                                *)

SavePcs == {"idle", "items", "decisions", "seq"}

\* The queue and the snapshot on disk are good, whoever decided had the authority, and
\* the snapshot's trail is a part of the queue's.
HoldsInv ==
    /\ now \in Nat /\ up \in BOOLEAN /\ crashes \in 0..MaxCrashes
    /\ alerted \subseteq Decision /\ unalerted \subseteq Decision
    /\ Good(queue) /\ Vouched(queue)
    /\ \/ file = <<>>
       \/ \E s \in GoodQueues : file = <<s>> /\ Vouched(s) /\ s.decisions \subseteq queue.decisions

\* A snapshot taken part by part is one of the queue at one moment, since the queue stands
\* still until the save is over.
SaveInv ==
    /\ save \in [pc : SavePcs, part : Queue]
    /\ save.pc \in {"items", "decisions", "seq"} =>
         save.part.items = queue.items /\ unalerted = {}
    /\ save.pc \in {"decisions", "seq"} => save.part.decisions = queue.decisions
    /\ save.pc = "seq" => save.part.seq = queue.seq

TimedOut(D) == {d \in D : d.reviewer = "SystemSlaTimeout"}

\* A timeout is announced, or will be before anything is saved.
AlertInv ==
    /\ TimedOut(queue.decisions) \subseteq alerted \union unalerted
    /\ file # <<>> => TimedOut(file[1].decisions) \subseteq alerted

QueueInv == HoldsInv /\ SaveInv /\ AlertInv

LEMMA QueueInvInit == Init => QueueInv
<1> SUFFICES ASSUME Init PROVE QueueInv
  OBVIOUS
<1>1. Good(NewQueue) /\ NewQueue \in Queue
  BY NewGood DEF GoodQueues
<1>2. DOMAIN NewQueue.items = {} /\ NewQueue.decisions = {}
  BY DEF NewQueue
<1>3. Vouched(NewQueue)
  BY <1>2 DEF Vouched
<1>4. HoldsInv
  BY <1>1, <1>3, ReviewQueueProcessAssumption DEF Init, HoldsInv
<1>5. SaveInv
  <2>1. save = [pc |-> "idle", part |-> NewQueue]
    BY DEF Init, Idle
  <2> QED
    BY <1>1, <2>1 DEF SaveInv, SavePcs
<1>6. AlertInv
  BY <1>2 DEF Init, AlertInv, TimedOut
<1> QED
  BY <1>4, <1>5, <1>6 DEF QueueInv

\* An operation of a thread that is free, none of whose decisions is a timeout to alert.
LEMMA OperationStep ==
    ASSUME QueueInv, Free, Grew(queue, queue'), Vouched(queue'),
           UNCHANGED <<now, up, save, file, alerted, crashes>>,
           unalerted' \subseteq Decision,
           TimedOut(queue'.decisions \ queue.decisions) \subseteq unalerted'
    PROVE  QueueInv'
<1>1. Good(queue') /\ queue.decisions \subseteq queue'.decisions
  BY DEF Grew
<1>2. HoldsInv'
  BY <1>1 DEF QueueInv, HoldsInv
<1>3. SaveInv'
  BY DEF QueueInv, SaveInv, Free
<1>4. AlertInv'
  BY DEF QueueInv, AlertInv, Free, TimedOut
<1> QED
  BY <1>2, <1>3, <1>4 DEF QueueInv

LEMMA IngestStep ==
    ASSUME QueueInv, NEW f \in Flows, NEW p \in Predictions, Ingest(f, p)
    PROVE  QueueInv'
<1>0. Good(queue) /\ Vouched(queue) /\ now \in Nat /\ queue \in Queue
  BY DEF QueueInv, HoldsInv, Good
<1>1. Grew(queue, queue') /\ Vouched(queue')
  BY <1>0, IngestGrew, IngestVouched DEF Ingest
<1>2. \A d \in queue'.decisions \ queue.decisions : d.reviewer = "SystemAutoResolve"
  <2>1. CASE Evaluate(p) = "None"
    BY <2>1 DEF Ingest, IngestQueue, AddDecision
  <2>2. CASE Evaluate(p) # "None"
    BY <1>0, <2>2 DEF Ingest, IngestQueue, Queue
  <2> QED
    BY <2>1, <2>2
<1>3. TimedOut(queue'.decisions \ queue.decisions) \subseteq unalerted'
  BY <1>2 DEF TimedOut
<1>4. UNCHANGED <<now, up, save, file, alerted, unalerted, crashes>> /\ Free
  BY DEF Ingest
<1> QED
  BY <1>1, <1>3, <1>4, OperationStep DEF QueueInv, HoldsInv

LEMMA ClaimStep ==
    ASSUME QueueInv, NEW f \in Flows, Claim(f)
    PROVE  QueueInv'
<1>0. Good(queue) /\ Vouched(queue) /\ queue \in Queue
  BY DEF QueueInv, HoldsInv, Good
<1>1. Grew(queue, queue') /\ Vouched(queue')
  BY <1>0, ClaimGrew, ClaimVouched DEF Claim
<1>2. queue'.decisions = queue.decisions
  BY <1>0 DEF Claim, ClaimQueue, Queue
<1>3. TimedOut(queue'.decisions \ queue.decisions) \subseteq unalerted'
  BY <1>2 DEF TimedOut
<1>4. UNCHANGED <<now, up, save, file, alerted, unalerted, crashes>> /\ Free
  BY DEF Claim
<1> QED
  BY <1>1, <1>3, <1>4, OperationStep DEF QueueInv, HoldsInv

LEMMA DecisionStep ==
    ASSUME QueueInv, NEW f \in Flows, NEW v \in Verdicts, RecordDecision(f, v)
    PROVE  QueueInv'
<1>0. Good(queue) /\ Vouched(queue) /\ queue \in Queue
  BY DEF QueueInv, HoldsInv, Good
<1>1. Grew(queue, queue') /\ Vouched(queue')
  BY <1>0, ResolveGrew, ResolveVouched DEF RecordDecision
<1>2. \A d \in queue'.decisions \ queue.decisions : d.reviewer = "Human"
  BY DEF RecordDecision, ResolveQueue, AddDecision
<1>3. TimedOut(queue'.decisions \ queue.decisions) \subseteq unalerted'
  BY <1>2 DEF TimedOut
<1>4. UNCHANGED <<now, up, save, file, alerted, unalerted, crashes>> /\ Free
  BY DEF RecordDecision
<1> QED
  BY <1>1, <1>3, <1>4, OperationStep DEF QueueInv, HoldsInv

LEMMA SweepStep ==
    ASSUME QueueInv, SweepLocked
    PROVE  QueueInv'
<1>0. Good(queue) /\ Vouched(queue)
  BY DEF QueueInv, HoldsInv
<1>1. PICK E : E = ExpiredFlows(queue, now - SlaSeconds) /\ queue' \in SweptQueues(queue, E)
  BY DEF SweepLocked
<1>2. \A f \in E : Open(queue, f)
  BY <1>1 DEF ExpiredFlows
<1>3. Grew(queue, queue') /\ Vouched(queue')
  BY <1>0, <1>1, <1>2, SweptGrew, SweptVouched
<1>4. unalerted' = queue'.decisions \ queue.decisions
  BY DEF SweepLocked
<1>5. unalerted' \subseteq Decision
  BY <1>3, <1>4, QueueFields DEF Grew, Good
<1>6. TimedOut(queue'.decisions \ queue.decisions) \subseteq unalerted'
  BY <1>4 DEF TimedOut
<1>7. UNCHANGED <<now, up, save, file, alerted, crashes>> /\ Free
  BY DEF SweepLocked
<1> QED
  BY <1>3, <1>5, <1>6, <1>7, OperationStep

LEMMA NotifyStep ==
    ASSUME QueueInv, Notify
    PROVE  QueueInv'
<1>1. PICK d \in unalerted : alerted' = alerted \union {d} /\ unalerted' = unalerted \ {d}
  BY DEF Notify, Delivered
<1>2. UNCHANGED <<now, up, queue, save, file, crashes>>
  BY DEF Notify
<1>3. HoldsInv'
  BY <1>1, <1>2 DEF QueueInv, HoldsInv
<1>4. SaveInv'
  BY <1>1, <1>2 DEF QueueInv, SaveInv
<1>5. AlertInv'
  BY <1>1, <1>2 DEF QueueInv, AlertInv
<1> QED
  BY <1>3, <1>4, <1>5 DEF QueueInv

\* A save takes its parts one after the other.
LEMMA PartStep ==
    ASSUME QueueInv, SaveItems \/ SaveDecisions \/ SaveSeq
    PROVE  QueueInv'
<1>0. UNCHANGED <<now, up, queue, file, alerted, unalerted, crashes>>
  BY DEF SaveItems, SaveDecisions, SaveSeq
<1>1. HoldsInv' /\ AlertInv'
  BY <1>0 DEF QueueInv, HoldsInv, AlertInv
<1>2. queue \in Queue /\ save.part \in Queue /\ NewQueue \in Queue
  BY NewGood DEF QueueInv, HoldsInv, SaveInv, Good, GoodQueues
<1>3. SaveInv'
  <2>1. \A s \in Queue : /\ [s EXCEPT !.items = queue.items] \in Queue
                         /\ [s EXCEPT !.items = queue.items].items = queue.items
                         /\ [s EXCEPT !.decisions = queue.decisions] \in Queue
                         /\ [s EXCEPT !.decisions = queue.decisions].items = s.items
                         /\ [s EXCEPT !.decisions = queue.decisions].decisions = queue.decisions
                         /\ [s EXCEPT !.seq = queue.seq] \in Queue
                         /\ [s EXCEPT !.seq = queue.seq].items = s.items
                         /\ [s EXCEPT !.seq = queue.seq].decisions = s.decisions
                         /\ [s EXCEPT !.seq = queue.seq].seq = queue.seq
    BY <1>2 DEF Queue
  <2>2. PICK s \in Queue : /\ save'.part = s /\ save' = [pc |-> save'.pc, part |-> s]
                           /\ s.items = queue.items /\ unalerted = {}
                           /\ \/ save'.pc = "items"
                              \/ save'.pc = "decisions" /\ s.decisions = queue.decisions
                              \/ /\ save'.pc = "seq" /\ s.decisions = queue.decisions
                                 /\ s.seq = queue.seq
    <3>1. CASE SaveItems
      BY <1>2, <2>1, <3>1 DEF SaveItems, Free
    <3>2. CASE SaveDecisions
      <4>1. save' = [pc |-> "decisions", part |-> [save.part EXCEPT !.decisions = queue.decisions]]
        BY <3>2 DEF SaveDecisions
      <4>2. save.part.items = queue.items /\ unalerted = {}
        BY <3>2 DEF SaveDecisions, QueueInv, SaveInv
      <4>3. PICK s \in Queue : s = [save.part EXCEPT !.decisions = queue.decisions]
        BY <1>2, <2>1
      <4>4. /\ s.items = save.part.items /\ s.decisions = queue.decisions
            /\ save' = [pc |-> "decisions", part |-> s]
        BY <1>2, <2>1, <4>1, <4>3
      <4> QED
        BY <4>2, <4>4
    <3>3. CASE SaveSeq
      <4>1. save' = [pc |-> "seq", part |-> [save.part EXCEPT !.seq = queue.seq]]
        BY <3>3 DEF SaveSeq
      <4>2. save.part.items = queue.items /\ unalerted = {} /\ save.part.decisions = queue.decisions
        BY <3>3 DEF SaveSeq, QueueInv, SaveInv
      <4>3. PICK s \in Queue : s = [save.part EXCEPT !.seq = queue.seq]
        BY <1>2, <2>1
      <4>4. /\ s.items = save.part.items /\ s.decisions = save.part.decisions /\ s.seq = queue.seq
            /\ save' = [pc |-> "seq", part |-> s]
        BY <1>2, <2>1, <4>1, <4>3
      <4> QED
        BY <4>2, <4>4
    <3> QED
      BY <3>1, <3>2, <3>3
  <2> QED
    BY <1>0, <2>2 DEF SaveInv, SavePcs
<1> QED
  BY <1>1, <1>3 DEF QueueInv

\* What is renamed into place is the queue itself.
LEMMA SnapshotWhole ==
    ASSUME QueueInv, SaveFile
    PROVE  file' = <<queue>> /\ unalerted = {}
<1>1. save.part \in Queue /\ queue \in Queue
  BY DEF QueueInv, HoldsInv, SaveInv, Good
<1>2. save.part.items = queue.items /\ save.part.decisions = queue.decisions
      /\ save.part.seq = queue.seq /\ unalerted = {}
  BY DEF SaveFile, QueueInv, SaveInv
<1>3. save.part = queue
  BY <1>1, <1>2 DEF Queue
<1> QED
  BY <1>2, <1>3 DEF SaveFile

LEMMA SaveFileStep ==
    ASSUME QueueInv, SaveFile
    PROVE  QueueInv'
<1>0. UNCHANGED <<now, up, queue, alerted, unalerted, crashes>> /\ save' = Idle
  BY DEF SaveFile
<1>1. file' = <<queue>> /\ unalerted = {}
  BY SnapshotWhole
<1>2. queue \in GoodQueues
  BY InGoodQueues DEF QueueInv, HoldsInv
<1>3. HoldsInv'
  BY <1>0, <1>1, <1>2 DEF QueueInv, HoldsInv
<1>4. SaveInv'
  <2>1. NewQueue \in Queue
    BY NewGood DEF GoodQueues
  <2> QED
    BY <1>0, <2>1 DEF SaveInv, Idle, SavePcs
<1>5. AlertInv'
  BY <1>0, <1>1 DEF QueueInv, AlertInv
<1> QED
  BY <1>3, <1>4, <1>5 DEF QueueInv

LEMMA RestartStep ==
    ASSUME QueueInv, Restart
    PROVE  QueueInv'
<1>0. /\ UNCHANGED <<now, file, alerted>> /\ save' = Idle /\ unalerted' = {}
      /\ crashes' \in 0..MaxCrashes /\ up' \in BOOLEAN
  BY ReviewQueueProcessAssumption DEF Restart, QueueInv, HoldsInv
<1>1. /\ NewQueue \in GoodQueues /\ Good(NewQueue) /\ NewQueue \in Queue
      /\ DOMAIN NewQueue.items = {} /\ NewQueue.decisions = {}
  BY NewGood DEF GoodQueues, NewQueue
<1>2. Good(queue') /\ Vouched(queue') /\ (file = <<>> => queue' = NewQueue)
      /\ (file # <<>> => file = <<queue'>>)
  <2>1. CASE file = <<>>
    BY <1>1, <2>1 DEF Restart, Vouched
  <2>2. CASE file # <<>>
    <3>1. PICK s \in GoodQueues : file = <<s>> /\ Vouched(s)
      BY <2>2 DEF QueueInv, HoldsInv
    <3>2. Good(s) /\ Loads(s)
      BY InGoodQueues DEF Good
    <3>3. queue' = s
      BY <2>2, <3>1, <3>2 DEF Restart, Rehydrate
    <3> QED
      BY <2>2, <3>1, <3>2, <3>3
  <2> QED
    BY <2>1, <2>2
<1>3. queue' \in GoodQueues
  BY <1>2, InGoodQueues
<1>4. HoldsInv'
  BY <1>0, <1>2, <1>3 DEF QueueInv, HoldsInv
<1>5. SaveInv'
  BY <1>0, <1>1 DEF SaveInv, Idle, SavePcs
<1>6. AlertInv'
  <2>1. CASE file = <<>>
    BY <1>0, <1>1, <1>2, <2>1 DEF AlertInv, TimedOut
  <2>2. CASE file # <<>>
    <3>1. file[1] = queue'
      BY <1>2, <2>2
    <3> QED
      BY <1>0, <2>2, <3>1 DEF QueueInv, AlertInv
  <2> QED
    BY <2>1, <2>2
<1> QED
  BY <1>4, <1>5, <1>6 DEF QueueInv

LEMMA QueueStep ==
    ASSUME QueueInv, [Next]_vars
    PROVE  QueueInv'
<1>1. CASE UNCHANGED vars
  BY <1>1 DEF vars, QueueInv, HoldsInv, SaveInv, AlertInv
<1>2. CASE Tick
  BY <1>2 DEF Tick, QueueInv, HoldsInv, SaveInv, AlertInv
<1>3. CASE \/ \E f \in Flows, p \in Predictions : Ingest(f, p)
           \/ \E f \in Flows : Claim(f)
           \/ \E f \in Flows, v \in Verdicts : RecordDecision(f, v)
           \/ SweepLocked
  BY <1>3, IngestStep, ClaimStep, DecisionStep, SweepStep
<1>4. CASE Notify \/ SaveItems \/ SaveDecisions \/ SaveSeq \/ SaveFile \/ Restart
  BY <1>4, NotifyStep, PartStep, SaveFileStep, RestartStep
<1> QED
  BY <1>1, <1>2, <1>3, <1>4 DEF Next

\* ingest, record_decision, sweep_expired and rehydrate: whoever gets to a flow first, it
\* has one decision, and containment is approved only by who may approve it, before and
\* after any crash.
THEOREM DecisionsHaveAuthority == Spec => []DecidedWithAuthority
<1>1. QueueInv => DecidedWithAuthority
  <2> SUFFICES ASSUME QueueInv PROVE DecidedWithAuthority
    OBVIOUS
  <2>0. Good(queue) /\ Vouched(queue)
    BY DEF QueueInv, HoldsInv
  <2>1. TypeOK
    <3>1. QueueOK(queue)
      BY <2>0, QueueFields DEF QueueOK, Good
    <3> QED
      BY <3>1 DEF TypeOK, QueueInv, HoldsInv, SaveInv, SavePcs
  <2>2. OneDecisionPerFlow
    BY <2>0, GoodDecided DEF OneDecisionPerFlow
  <2>3. ContainmentAuthorized
    <3> SUFFICES ASSUME NEW f \in Flows, NEW d \in ContainDecisions(queue, f),
                        NEW p, p = queue.items[f].prediction
                 PROVE  \/ d.reviewer = "Human" /\ Evaluate(p) # "None"
                        \/ /\ d.reviewer = "SystemAutoResolve"
                           /\ ~IsBenign(p) /\ ~p.ood
                           /\ p.confidence >= MinAttack
                           /\ \A m \in p.margin : m >= MinMargin
                        \/ /\ d.reviewer = "SystemSlaTimeout"
                           /\ SlaPolicy = "FailSecure"
                           /\ ~IsBenign(p)
                           /\ ToMillis(p.confidence) >= AutoContainAbove
      BY DEF ContainmentAuthorized
    <3>1. d \in queue.decisions /\ d.flow = f /\ d.verdict = "ExecuteContainment"
      BY DEF ContainDecisions
    <3>2. Authority(p, d.reviewer)
      BY <2>0, <3>1 DEF Vouched
    <3>3. p \in Prediction
      <4>1. f \in DOMAIN queue.items /\ queue.items \in [DOMAIN queue.items -> Item]
        BY <2>0, <3>1, QueueFields DEF Good, Loads
      <4> QED
        BY <4>1 DEF Item
    <3>4. p.ood \in BOOLEAN /\ p.confidence \in Int /\ p.margin \subseteq Int
      BY <3>3 DEF Prediction
    <3>5. Evaluate(p) = "None" /\ ~IsBenign(p) =>
            ~p.ood /\ p.confidence >= MinAttack /\ \A m \in p.margin : m >= MinMargin
      BY <3>4, ReviewQueueAssumption DEF Evaluate
    <3>6. SlaVerdict(p) = "ExecuteContainment" =>
            SlaPolicy = "FailSecure" /\ ~IsBenign(p) /\ ToMillis(p.confidence) >= AutoContainAbove
      BY DEF SlaVerdict
    <3> QED
      BY <3>2, <3>5, <3>6 DEF Authority
  <2> QED
    BY <2>1, <2>2, <2>3 DEF DecidedWithAuthority
<1> QED
  BY <1>1, QueueInvInit, QueueStep, PTL DEF Spec

\* store::save, load_or_new and sweep_expired_with_sink: the trail in the state file only
\* grows, any crash leaves a file that loads, and every timeout in it was announced.
THEOREM TrailIsKept == Spec => TrailOnDisk
<1>1. QueueInv => SavedStateLoads /\ SavedTimeoutsAlerted
  <2> SUFFICES ASSUME QueueInv, file # <<>>
               PROVE  /\ Loads(file[1]) /\ DecidedOnce(file[1])
                      /\ \A d \in file[1].decisions : d.reviewer = "SystemSlaTimeout" => d \in alerted
    BY DEF SavedStateLoads, SavedTimeoutsAlerted
  <2>1. PICK s \in GoodQueues : file = <<s>>
    BY DEF QueueInv, HoldsInv
  <2>2. Good(s) /\ file[1] = s
    BY <2>1, InGoodQueues
  <2>3. Loads(s) /\ DecidedOnce(s)
    BY <2>2, GoodDecided DEF Good
  <2> QED
    BY <2>2, <2>3 DEF QueueInv, AlertInv, TimedOut
<1>2. QueueInv /\ [Next]_vars =>
        [file # <<>> => file' # <<>> /\ file[1].decisions \subseteq file'[1].decisions]_vars
  <2> SUFFICES ASSUME QueueInv, Next, file # <<>>
               PROVE  file' # <<>> /\ file[1].decisions \subseteq file'[1].decisions
    OBVIOUS
  <2>1. CASE SaveFile
    <3>1. file' = <<queue>>
      BY <2>1, SnapshotWhole
    <3>2. PICK s \in GoodQueues : file = <<s>> /\ s.decisions \subseteq queue.decisions
      BY DEF QueueInv, HoldsInv
    <3> QED
      BY <3>1, <3>2
  <2>2. CASE ~SaveFile
    BY <2>2 DEF Next, Ingest, Claim, RecordDecision, SweepLocked, Notify, SaveItems,
                SaveDecisions, SaveSeq, Restart, Tick
  <2> QED
    BY <2>1, <2>2
<1> QED
  BY <1>1, <1>2, QueueInvInit, QueueStep, PTL DEF Spec, TrailOnDisk, FileKeepsDecisions
=============================================================================
