-------------------------- MODULE PacketPathProofs --------------------------
(***************************************************************************)
(* What PacketPath guarantees for every number of workers and lanes, every *)
(* table size, timeout and configuration file, proved with TLAPS.          *)
(*                                                                         *)
(* The invariants are about parts of the state that share only the         *)
(* workers: ShapeInv says what a worker holds where, the others build on   *)
(* it.                                                                     *)
(***************************************************************************)
EXTENDS PacketPath, SequenceTheorems, FiniteSetTheorems, WellFoundedInduction, TLAPS

---------------------------------------------------------------------------
(* What a worker holds                                                     *)

Pkts == {raw.pkt : raw \in Raws}

\* A worker with nothing in hand, with a packet, with a verdict still to log or to put
\* into effect, with one to count, and with a number to broadcast.
Waiting(r) == r \in {[pc |-> "recv"], [pc |-> "stopped"]}

Holding(r) == r.pc \in {"lookup", "evaluate"} /\ r.pkt \in Pkts /\ r = [pc |-> r.pc, pkt |-> r.pkt]

Decided(r) ==
    /\ r.pc \in {"gate", "count", "act", "finish"} /\ r.then \in {"recv", "finish", "act"}
    /\ r.pkt \in Pkts
    /\ r = [pc |-> r.pc, then |-> r.then, pkt |-> r.pkt, verdict |-> r.verdict, block |-> r.block]

Finishing(r) ==
    /\ r.pc = "finish" /\ r.pkt \in Pkts
    /\ r = [pc |-> "finish", pkt |-> r.pkt, verdict |-> r.verdict, block |-> r.block]

Sending(r) == r.seq \in Nat /\ r = [pc |-> "send", seq |-> r.seq]

WorkerOK(r) == Waiting(r) \/ Holding(r) \/ Decided(r) \/ Finishing(r) \/ Sending(r)

ShapeInv ==
    /\ now \in Nat /\ seq \in Nat
    /\ engine \in ConfigFiles
    /\ w = [k \in Workers |-> w[k]]
    /\ \A k \in Workers : WorkerOK(w[k])

\* A worker's step replaces what that worker holds.
LEMMA StepSplit ==
    ASSUME w = [k \in Workers |-> w[k]], NEW k \in Workers, NEW rec, Step(k, rec)
    PROVE  /\ w'[k] = rec
           /\ \A u \in Workers \ {k} : w'[u] = w[u]
           /\ w' = [u \in Workers |-> w'[u]]
BY DEF Step

\* The positions at which each record is.
LEMMA Positions ==
    ASSUME NEW r, WorkerOK(r)
    PROVE  /\ r.pc \in {"lookup", "evaluate"} => Holding(r)
           /\ r.pc \in {"gate", "count", "act"} => Decided(r)
           /\ r.pc = "finish" => Decided(r) \/ Finishing(r)
           /\ r.pc = "send" => Sending(r)
           /\ r.pc \in {"recv", "stopped"} => Waiting(r)
BY DEF WorkerOK, Waiting, Holding, Decided, Finishing, Sending

\* A new record for the worker's next position, the rest of what it holds unchanged.
LEMMA Moved ==
    ASSUME NEW r, Decided(r), NEW p \in {"gate", "count", "act", "finish"}
    PROVE  /\ Decided([r EXCEPT !.pc = p])
           /\ [r EXCEPT !.pc = p].pc = p
           /\ [r EXCEPT !.pc = p].verdict = r.verdict
           /\ [r EXCEPT !.pc = p].pkt = r.pkt
           /\ [r EXCEPT !.pc = p].then = r.then
           /\ [r EXCEPT !.pc = p].block = r.block
<1> DEFINE s == [pc |-> p, then |-> r.then, pkt |-> r.pkt, verdict |-> r.verdict, block |-> r.block]
<1>1. [r EXCEPT !.pc = p] = s
  BY DEF Decided
<1>2. Decided(s)
  BY DEF Decided
<1> HIDE DEF s
<1>3. s.pc = p /\ s.verdict = r.verdict /\ s.pkt = r.pkt /\ s.then = r.then /\ s.block = r.block
  BY DEF s
<1> QED
  BY <1>1, <1>2, <1>3

\* What each step of a worker does to the record of that worker.
LEMMA WorkerMoves ==
    ASSUME ShapeInv, NEW k \in Workers
    PROVE  /\ \A raw \in Raws : Recv(k, raw) =>
                 \/ w' = w
                 \/ \E rec : /\ Step(k, rec) /\ WorkerOK(rec)
                             /\ \/ rec.pc = "gate" /\ rec.verdict \in {"none", "drop"}
                                \/ rec.pc = "lookup"
           /\ Lookup(k) => \E rec : /\ Step(k, rec) /\ WorkerOK(rec)
                                    /\ \/ rec.pc = "finish"
                                       \/ rec.pc = "evaluate" /\ rec.pkt = w[k].pkt
           /\ Evaluate(k) => \E rec : /\ Step(k, rec) /\ Decided(rec)
                                      /\ rec.pc \in {"gate", "act"} /\ rec.pkt = w[k].pkt
           /\ GateWindow(k) => \E rec : /\ Step(k, rec) /\ Decided(rec)
                                        /\ rec.pc = "count" /\ rec.pkt = w[k].pkt
                                        /\ rec.verdict = w[k].verdict
           /\ GateCount(k) => \E rec : /\ Step(k, rec) /\ WorkerOK(rec)
                                       /\ \/ rec.pc \in {"recv", "finish"}
                                          \/ /\ rec.pc = "act" /\ rec.pkt = w[k].pkt
                                             /\ rec.verdict = w[k].verdict
           /\ Act(k) => \E rec : Step(k, rec) /\ Decided(rec) /\ rec.pc = "finish"
<1>0. WorkerOK(w[k])
  BY DEF ShapeInv
<1>1. ASSUME NEW raw \in Raws, Recv(k, raw)
      PROVE  \/ w' = w
             \/ \E rec : /\ Step(k, rec) /\ WorkerOK(rec)
                         /\ \/ rec.pc = "gate" /\ rec.verdict \in {"none", "drop"}
                            \/ rec.pc = "lookup"
  <2>1. raw.pkt \in Pkts
    BY DEF Pkts
  <2>2. Decided([pc |-> "gate", then |-> "recv", pkt |-> raw.pkt, verdict |-> "none", block |-> 0])
    BY <2>1 DEF Decided
  <2>3. Decided([pc |-> "gate", then |-> "finish", pkt |-> raw.pkt, verdict |-> "drop", block |-> 0])
    BY <2>1 DEF Decided
  <2>4. Holding([pc |-> "lookup", pkt |-> raw.pkt])
    BY <2>1 DEF Holding
  <2> QED
    BY <1>1, <2>2, <2>3, <2>4 DEF Recv, WorkerOK
<1>2. ASSUME Lookup(k)
      PROVE  \E rec : /\ Step(k, rec) /\ WorkerOK(rec)
                      /\ \/ rec.pc = "finish"
                         \/ rec.pc = "evaluate" /\ rec.pkt = w[k].pkt
  <2>1. w[k].pkt \in Pkts
    BY <1>0, <1>2, Positions DEF Lookup, Holding
  <2>2. \A v : Finishing([pc |-> "finish", pkt |-> w[k].pkt, verdict |-> v, block |-> 0])
    BY <2>1 DEF Finishing
  <2>3. Holding([pc |-> "evaluate", pkt |-> w[k].pkt])
    BY <2>1 DEF Holding
  <2> QED
    BY <1>2, <2>2, <2>3 DEF Lookup, WorkerOK
<1>3. ASSUME Evaluate(k)
      PROVE  \E rec : /\ Step(k, rec) /\ Decided(rec)
                      /\ rec.pc \in {"gate", "act"} /\ rec.pkt = w[k].pkt
  <2>1. w[k].pkt \in Pkts
    BY <1>0, <1>3, Positions DEF Evaluate, Holding
  <2>2. \A v, b : \A p \in {"gate", "act"} :
           Decided([pc |-> p, then |-> "act", pkt |-> w[k].pkt, verdict |-> v, block |-> b])
    BY <2>1 DEF Decided
  <2> DEFINE d == Decision(w[k].pkt, Deciding(engine, w[k].pkt))
             p == IF d.log THEN "gate" ELSE "act"
             rec == [pc |-> p, then |-> "act", pkt |-> w[k].pkt, verdict |-> d.verdict,
                     block |-> d.block]
  <2>3. Step(k, rec)
    BY <1>3 DEF Evaluate
  <2>4. p \in {"gate", "act"}
    OBVIOUS
  <2> HIDE DEF d, p
  <2>5. Decided(rec) /\ rec.pc = p /\ rec.pkt = w[k].pkt
    BY <2>2, <2>4
  <2> QED
    BY <2>3, <2>4, <2>5
<1>4. ASSUME GateWindow(k)
      PROVE  \E rec : /\ Step(k, rec) /\ Decided(rec)
                      /\ rec.pc = "count" /\ rec.pkt = w[k].pkt
                      /\ rec.verdict = w[k].verdict
  BY <1>0, <1>4, Positions, Moved DEF GateWindow
<1>5. ASSUME GateCount(k)
      PROVE  \E rec : /\ Step(k, rec) /\ WorkerOK(rec)
                      /\ \/ rec.pc \in {"recv", "finish"}
                         \/ /\ rec.pc = "act" /\ rec.pkt = w[k].pkt
                            /\ rec.verdict = w[k].verdict
  <2>1. Decided(w[k])
    BY <1>0, <1>5, Positions DEF GateCount
  <2>2. CASE w[k].then = "recv"
    BY <1>5, <2>2 DEF GateCount, Idle, WorkerOK, Waiting
  <2>3. CASE w[k].then # "recv"
    <3>1. PICK p \in {"act", "finish"} : w[k].then = p
      BY <2>1, <2>3 DEF Decided
    <3> DEFINE rec == [w[k] EXCEPT !.pc = p]
    <3>2. Step(k, rec)
      BY <1>5, <2>3, <3>1 DEF GateCount
    <3>3. Decided(rec) /\ rec.pc = p /\ rec.verdict = w[k].verdict /\ rec.pkt = w[k].pkt
      <4>1. p \in {"gate", "count", "act", "finish"}
        OBVIOUS
      <4> QED
        BY <2>1, <4>1, Moved
    <3> HIDE DEF rec
    <3>4. WorkerOK(rec)
      BY <3>3 DEF WorkerOK
    <3>5. \/ rec.pc \in {"recv", "finish"}
          \/ rec.pc = "act" /\ rec.pkt = w[k].pkt /\ rec.verdict = w[k].verdict
      BY <3>1, <3>3
    <3> QED
      BY <3>2, <3>4, <3>5
  <2> QED
    BY <2>2, <2>3
<1>6. ASSUME Act(k) PROVE \E rec : Step(k, rec) /\ Decided(rec) /\ rec.pc = "finish"
  <2>1. Step(k, [w[k] EXCEPT !.pc = "finish"]) /\ w[k].pc = "act"
    BY <1>6 DEF Act
  <2>2. Decided(w[k])
    BY <1>0, <2>1, Positions
  <2>3. LET rec == [w[k] EXCEPT !.pc = "finish"] IN Decided(rec) /\ rec.pc = "finish"
    BY <2>2, Moved
  <2> QED
    BY <2>1, <2>3
<1> QED
  BY <1>1, <1>2, <1>3, <1>4, <1>5, <1>6

LEMMA ShapeStep ==
    ASSUME ShapeInv, [Next]_vars
    PROVE  ShapeInv'
<1>1. ASSUME NEW k \in Workers, NEW rec, Step(k, rec), WorkerOK(rec), seq' \in Nat,
             UNCHANGED <<now, engine>>
      PROVE  ShapeInv'
  <2>1. /\ w'[k] = rec
        /\ \A u \in Workers \ {k} : w'[u] = w[u]
        /\ w' = [u \in Workers |-> w'[u]]
    BY <1>1, StepSplit DEF ShapeInv
  <2>2. \A u \in Workers : WorkerOK(w'[u])
    BY <1>1, <2>1 DEF ShapeInv
  <2> QED
    BY <1>1, <2>1, <2>2 DEF ShapeInv
<1>2. ASSUME UNCHANGED <<now, engine, seq, w>> PROVE ShapeInv'
  BY <1>2 DEF ShapeInv
<1>3. ASSUME NEW k \in Workers, Worker(k) PROVE ShapeInv'
  <2>0. seq \in Nat /\ WorkerOK(w[k])
    BY DEF ShapeInv
  <2>1. ASSUME NEW raw \in Raws, Recv(k, raw) PROVE ShapeInv'
    <3>1. UNCHANGED <<now, engine, seq>>
      BY <2>1 DEF Recv, fwVars, laneVars
    <3> QED
      BY <1>1, <1>2, <2>0, <2>1, <3>1, WorkerMoves
  <2>2. ASSUME Lookup(k) \/ Evaluate(k) \/ GateWindow(k) \/ GateCount(k) \/ Act(k) PROVE ShapeInv'
    <3>1. UNCHANGED <<now, engine, seq>>
      BY <2>2 DEF Lookup, Evaluate, GateWindow, GateCount, Act, fwVars, laneVars
    <3>2. \E rec : Step(k, rec) /\ WorkerOK(rec)
      BY <2>2, WorkerMoves DEF WorkerOK
    <3> QED
      BY <1>1, <2>0, <3>1, <3>2
  <2>3. ASSUME Finish(k) PROVE ShapeInv'
    <3>1. UNCHANGED <<now, engine>> /\ seq' \in Nat
      BY <2>0, <2>3 DEF Finish, fwVars
    <3>2. \E rec : Step(k, rec) /\ WorkerOK(rec)
      <4>1. WorkerOK(Idle) /\ Sending([pc |-> "send", seq |-> seq])
        BY <2>0 DEF WorkerOK, Waiting, Sending, Idle
      <4> QED
        BY <2>3, <4>1 DEF Finish, WorkerOK
    <3> QED
      BY <1>1, <3>1, <3>2
  <2>4. ASSUME Send(k) \/ Stop(k) PROVE ShapeInv'
    <3>1. UNCHANGED <<now, engine, seq>>
      BY <2>4 DEF Send, Stop, fwVars, laneVars
    <3>2. WorkerOK(Idle) /\ WorkerOK([pc |-> "stopped"])
      BY DEF WorkerOK, Waiting, Idle
    <3>3. \E rec : Step(k, rec) /\ WorkerOK(rec)
      BY <2>4, <3>2 DEF Send, Stop
    <3> QED
      BY <1>1, <2>0, <3>1, <3>3
  <2> QED
    BY <1>3, <2>1, <2>2, <2>3, <2>4 DEF Worker
<1>4. ASSUME Subscribe \/ (\E l \in 1..MaxLanes : RecvLane(l)) \/ Shutdown \/ Maintenance
             \/ (\E ip, token : AdminUnban(ip, token))
      PROVE  ShapeInv'
  BY <1>2, <1>4 DEF Subscribe, RecvLane, Shutdown, Maintenance, AdminUnban, fwVars, laneVars
<1>5. ASSUME NEW file \in ConfigFiles, Reload(file) PROVE ShapeInv'
  <2>1. UNCHANGED <<now, seq, w>> /\ engine' \in ConfigFiles
    BY <1>5 DEF Reload, laneVars, ShapeInv
  <2> QED
    BY <2>1 DEF ShapeInv
<1>6. ASSUME Tick PROVE ShapeInv'
  <2>1. now' \in Nat /\ UNCHANGED <<engine, seq, w>>
    BY <1>6 DEF Tick, fwVars, laneVars, ShapeInv
  <2> QED
    BY <2>1 DEF ShapeInv
<1>7. ASSUME UNCHANGED vars PROVE ShapeInv'
  BY <1>2, <1>7 DEF vars, fwVars, laneVars
<1> QED
  BY <1>3, <1>4, <1>5, <1>6, <1>7 DEF Next

LEMMA ShapeInit == Init => ShapeInv
BY DEF Init, ShapeInv, WorkerOK, Waiting, Idle

---------------------------------------------------------------------------
(* The rule index                                                          *)

\* Looking up by protocol and port leaves out no rule that matches.
LEMMA IndexComplete ==
    ASSUME NEW cfg \in ConfigFiles, NEW pkt \in Pkts, NEW i \in DOMAIN cfg.rules,
           RuleMatches(cfg, cfg.rules[i], pkt)
    PROVE  i \in Candidates(cfg, pkt)
<1> USE PacketPathAssumption
<1> DEFINE r == cfg.rules[i]
<1>1. CASE ~Indexed(r)
  BY <1>1 DEF Candidates, WildcardRules
<1>2. CASE Indexed(r)
  <2>1. r.dstPort[1] \in Nat /\ r.dstPort[2] \in Nat /\ pkt.dport \in Nat
    <3>1. 1 \in 1..2 /\ 2 \in 1..2
      OBVIOUS
    <3> QED
      BY <3>1 DEF Pkts
  <2>2. r.protocol = pkt.proto
    BY <1>2 DEF Indexed, RuleMatches, ProtoMatches
  <2>3. r.dstPort[1] = pkt.dport
    BY <1>2, <2>1 DEF Indexed, ExactPort, RuleMatches, Contains
  <2> QED
    BY <1>2, <2>2, <2>3 DEF Candidates, ExactIndex
<1> QED
  BY <1>1, <1>2

LEMMA DecidingIsScan ==
    ASSUME NEW cfg \in ConfigFiles, NEW pkt \in Pkts
    PROVE  Deciding(cfg, pkt) = LinearScan(cfg, pkt)
<1>1. Candidates(cfg, pkt) \subseteq DOMAIN cfg.rules
  BY DEF Candidates, ExactIndex, WildcardRules
<1>2. Matching(cfg, pkt, Candidates(cfg, pkt)) = Matching(cfg, pkt, DOMAIN cfg.rules)
  BY <1>1, IndexComplete DEF Matching
<1> QED
  BY <1>2 DEF Deciding, LinearScan

\* Engine::new and evaluate: the index by protocol and port decides every packet a
\* worker can hold as the scan of the whole list would, for every configuration file
\* and every packet, and under whichever engine a reload installed.
THEOREM IndexExact == Spec => []IndexIsScan
<1>1. ShapeInv => IndexIsScan
  BY Positions, DecidingIsScan DEF ShapeInv, IndexIsScan, Holding
<1> QED
  BY <1>1, ShapeInit, ShapeStep, PTL DEF Spec

---------------------------------------------------------------------------
(* The connection table                                                    *)

\* The worker has found room for its flow and may still record it.
IsPending(r) ==
    /\ r.pc \in {"evaluate", "gate", "count", "act"}
    /\ r.pc = "evaluate" \/ r.verdict = "accept"

\* The flows of some of the workers.
PendingOf(S) == {FlowKey(w[k].pkt) : k \in {u \in S : IsPending(w[u])}}

\* A set of workers has at most as many flows in hand as it has workers.
LEMMA PendingFew ==
    ASSUME NEW S, S \subseteq Workers
    PROVE  /\ IsFiniteSet(PendingOf(S))
           /\ Cardinality(PendingOf(S)) <= Cardinality(S)
<1> DEFINE D == {u \in S : IsPending(w[u])}
           f == [k \in D |-> FlowKey(w[k].pkt)]
<1>1. IsFiniteSet(S) /\ D \subseteq S /\ IsFiniteSet(D) /\ Cardinality(D) <= Cardinality(S)
  BY PacketPathAssumption, FS_Subset
<1>2. f \in Surjection(D, PendingOf(S))
  BY DEF Surjection, PendingOf
<1> HIDE DEF f, D
<1>3. IsFiniteSet(PendingOf(S)) /\ Cardinality(PendingOf(S)) <= Cardinality(D)
  BY <1>1, <1>2, FS_Surjection
<1> QED
  BY <1>1, <1>3, FS_CardinalityType

LEMMA PendingAll == Pending = PendingOf(Workers)
BY DEF Pending, PendingOf, IsPending

FlowInv == IsFiniteSet(DOMAIN flows) /\ FlowBound

\* A step that brings no flow into play keeps the bound.
LEMMA FlowKept ==
    ASSUME FlowInv, DOMAIN flows' \subseteq DOMAIN flows \union Pending,
           Pending' \subseteq Pending
    PROVE  FlowInv'
<1> DEFINE U == DOMAIN flows \union Pending
<1>1. IsFiniteSet(Pending)
  BY PendingAll, PendingFew
<1>2. IsFiniteSet(U) /\ Cardinality(U) \in Nat
  BY <1>1, FS_Union, FS_CardinalityType DEF FlowInv
<1> DEFINE V == DOMAIN flows' \union Pending'
<1>3. V \subseteq U
  OBVIOUS
<1>4. Cardinality(U) <= MaxEntries + Cardinality(Workers) - 1
  BY DEF FlowInv, FlowBound
<1>5. IsFiniteSet(V) /\ Cardinality(V) <= Cardinality(U) /\ Cardinality(V) \in Nat
  <2> HIDE DEF U, V
  <2> QED
    BY <1>2, <1>3, FS_Subset, FS_CardinalityType
<1>6. IsFiniteSet(DOMAIN flows')
  <2>1. DOMAIN flows' \subseteq V
    OBVIOUS
  <2> HIDE DEF V
  <2> QED
    BY <1>5, <2>1, FS_Subset
<1>7. MaxEntries + Cardinality(Workers) - 1 \in Int
  BY PacketPathAssumption, FS_CardinalityType
<1>8. Cardinality(V) <= MaxEntries + Cardinality(Workers) - 1
  <2> HIDE DEF U, V
  <2> QED
    BY <1>2, <1>4, <1>5, <1>7
<1> QED
  BY <1>6, <1>8 DEF FlowInv, FlowBound

\* A worker that goes on with the flow it had, or with none, brings none into play.
LEMMA PendingKept ==
    ASSUME ShapeInv, NEW k \in Workers, NEW rec, Step(k, rec),
           IsPending(rec) => IsPending(w[k]) /\ rec.pkt = w[k].pkt
    PROVE  Pending' \subseteq Pending
<1>1. w'[k] = rec /\ \A u \in Workers \ {k} : w'[u] = w[u]
  BY StepSplit DEF ShapeInv
<1>2. ASSUME NEW x \in Pending' PROVE x \in Pending
  <2>1. PICK u \in Workers : IsPending(w'[u]) /\ x = FlowKey(w'[u].pkt)
    BY <1>2 DEF Pending, IsPending, FlowKey
  <2>2. IsPending(w[u]) /\ w'[u].pkt = w[u].pkt
    BY <1>1, <2>1
  <2>3. x = FlowKey(w[u].pkt)
    BY <2>1, <2>2
  <2> QED
    BY <2>2, <2>3 DEF Pending, IsPending
<1> QED
  BY <1>2

\* Admission: the table was not full, and every other worker adds at most one flow.
LEMMA AdmitBound ==
    ASSUME ShapeInv, FlowInv, NEW k \in Workers, NEW rec, Step(k, rec), FlowRoom,
           flows' = flows
    PROVE  FlowInv'
<1> DEFINE F == DOMAIN flows
           O == PendingOf(Workers \ {k})
           x == FlowKey(rec.pkt)
           V == DOMAIN flows' \union Pending'
<1>1. w'[k] = rec /\ \A u \in Workers \ {k} : w'[u] = w[u]
  BY StepSplit DEF ShapeInv
<1>2. Pending' \subseteq O \union {x}
  <2> SUFFICES ASSUME NEW y \in Pending' PROVE y \in O \union {x}
    OBVIOUS
  <2>1. PICK u \in Workers : IsPending(w'[u]) /\ y = FlowKey(w'[u].pkt)
    BY DEF Pending, IsPending, FlowKey
  <2>2. CASE u = k
    BY <1>1, <2>1, <2>2
  <2>3. CASE u # k
    <3>1. IsPending(w[u]) /\ y = FlowKey(w[u].pkt)
      BY <1>1, <2>1, <2>3
    <3> QED
      BY <2>3, <3>1 DEF PendingOf
  <2> QED
    BY <2>2, <2>3
<1>3. /\ IsFiniteSet(Workers) /\ Cardinality(Workers) \in Nat
      /\ IsFiniteSet(Workers \ {k}) /\ Cardinality(Workers \ {k}) = Cardinality(Workers) - 1
  BY PacketPathAssumption, FS_RemoveElement, FS_CardinalityType
<1>4. IsFiniteSet(O) /\ Cardinality(O) <= Cardinality(Workers) - 1 /\ Cardinality(O) \in Nat
  BY <1>3, PendingFew, FS_CardinalityType
<1>5. IsFiniteSet(F) /\ Cardinality(F) < MaxEntries /\ Cardinality(F) \in Nat
  BY FS_CardinalityType DEF FlowInv, FlowRoom
<1>6. V \subseteq (F \union O) \union {x}
  BY <1>2
<1> HIDE DEF F, O, V, x
<1>7. /\ IsFiniteSet(F \union O) /\ Cardinality(F \union O) \in Nat
      /\ Cardinality(F \union O) <= Cardinality(F) + Cardinality(O)
  <2>1. IsFiniteSet(F \union O) /\ IsFiniteSet(F \cap O)
        /\ Cardinality(F \union O) = Cardinality(F) + Cardinality(O) - Cardinality(F \cap O)
    BY <1>4, <1>5, FS_Union, FS_Subset
  <2>2. Cardinality(F \union O) \in Nat /\ Cardinality(F \cap O) \in Nat
    BY <2>1, FS_CardinalityType
  <2> QED
    BY <1>4, <1>5, <2>1, <2>2
<1>8. /\ IsFiniteSet((F \union O) \union {x}) /\ Cardinality((F \union O) \union {x}) \in Nat
      /\ Cardinality((F \union O) \union {x}) <= Cardinality(F) + Cardinality(O) + 1
  <2> DEFINE G == F \union O
  <2> HIDE DEF G
  <2>1. IsFiniteSet(G) /\ Cardinality(G) \in Nat /\ Cardinality(G) <= Cardinality(F) + Cardinality(O)
    BY <1>7 DEF G
  <2>2. /\ IsFiniteSet(G \union {x})
        /\ Cardinality(G \union {x}) = IF x \in G THEN Cardinality(G) ELSE Cardinality(G) + 1
    BY <2>1, FS_AddElement
  <2>3. Cardinality(G \union {x}) \in Nat
    BY <2>2, FS_CardinalityType
  <2>4. Cardinality(G \union {x}) <= Cardinality(F) + Cardinality(O) + 1
    BY <1>4, <1>5, <2>1, <2>2, <2>3
  <2> QED
    BY <2>2, <2>3, <2>4 DEF G
<1>9. Cardinality(V) <= Cardinality((F \union O) \union {x}) /\ Cardinality(V) \in Nat
  BY <1>6, <1>8, FS_Subset, FS_CardinalityType
<1>10. Cardinality(V) <= MaxEntries + Cardinality(Workers) - 1
  BY <1>3, <1>4, <1>5, <1>8, <1>9, PacketPathAssumption
<1>11. FlowBound'
  BY <1>10 DEF FlowBound, V
<1>12. IsFiniteSet(DOMAIN flows')
  BY <1>5 DEF F
<1> QED
  BY <1>11, <1>12 DEF FlowInv

LEMMA FlowStep ==
    ASSUME ShapeInv, FlowInv, [Next]_vars
    PROVE  FlowInv'
<1>1. ASSUME UNCHANGED <<flows, w>> PROVE FlowInv'
  BY <1>1 DEF FlowInv, FlowBound, Pending, FlowKey
<1>2. ASSUME NEW k \in Workers, Worker(k) PROVE FlowInv'
  <2>1. ASSUME NEW raw \in Raws, Recv(k, raw) PROVE FlowInv'
    <3>1. flows' = flows
      BY <2>1 DEF Recv, fwVars
    <3>2. CASE w' = w
      BY <1>1, <3>1, <3>2
    <3>3. ASSUME NEW rec, Step(k, rec),
                 (rec.pc = "gate" /\ rec.verdict \in {"none", "drop"}) \/ rec.pc = "lookup"
          PROVE  FlowInv'
      <4>1. ~IsPending(rec)
        BY <3>3 DEF IsPending
      <4> QED
        BY <3>1, <3>3, <4>1, PendingKept, FlowKept
    <3> QED
      BY <2>1, <3>2, <3>3, WorkerMoves
  <2>2. ASSUME Lookup(k) PROVE FlowInv'
    <3>1. PICK rec : /\ Step(k, rec) /\ WorkerOK(rec)
                     /\ (rec.pc = "finish" \/ (rec.pc = "evaluate" /\ rec.pkt = w[k].pkt))
      BY <2>2, WorkerMoves
    <3>2. CASE FlowRoom /\ flows' = flows
      BY <3>1, <3>2, AdmitBound
    <3>3. CASE ~(FlowRoom /\ flows' = flows)
      <4>1. \E v : Step(k, [pc |-> "finish", pkt |-> w[k].pkt, verdict |-> v, block |-> 0])
        BY <2>2, <3>3 DEF Lookup
      <4>2. PICK v : Step(k, [pc |-> "finish", pkt |-> w[k].pkt, verdict |-> v, block |-> 0])
        BY <4>1
      <4>3. ~IsPending([pc |-> "finish", pkt |-> w[k].pkt, verdict |-> v, block |-> 0])
        BY DEF IsPending
      <4>4. DOMAIN flows' = DOMAIN flows
        BY <2>2 DEF Lookup
      <4> QED
        BY <4>2, <4>3, <4>4, PendingKept, FlowKept
    <3> QED
      BY <3>2, <3>3
  <2>3. ASSUME Evaluate(k) PROVE FlowInv'
    <3>1. flows' = flows /\ w[k].pc = "evaluate"
      BY <2>3 DEF Evaluate
    <3>2. PICK rec : Step(k, rec) /\ rec.pkt = w[k].pkt
      BY <2>3, WorkerMoves
    <3>3. IsPending(w[k])
      BY <3>1 DEF IsPending
    <3> QED
      BY <3>1, <3>2, <3>3, PendingKept, FlowKept
  <2>4. ASSUME GateWindow(k) \/ GateCount(k) PROVE FlowInv'
    <3>1. flows' = flows /\ w[k].pc \in {"gate", "count"}
      BY <2>4 DEF GateWindow, GateCount, fwVars
    <3>2. PICK rec : /\ Step(k, rec)
                     /\ \/ rec.pc \in {"recv", "finish"}
                        \/ /\ rec.pc \in {"count", "act"} /\ rec.pkt = w[k].pkt
                           /\ rec.verdict = w[k].verdict
      BY <2>4, WorkerMoves
    <3>3. IsPending(rec) => IsPending(w[k]) /\ rec.pkt = w[k].pkt
      BY <3>1, <3>2 DEF IsPending
    <3> QED
      BY <3>1, <3>2, <3>3, PendingKept, FlowKept
  <2>5. ASSUME Act(k) PROVE FlowInv'
    <3>1. PICK rec : Step(k, rec) /\ rec.pc = "finish"
      BY <2>5, WorkerMoves
    <3>2. ~IsPending(rec)
      BY <3>1 DEF IsPending
    <3>3. DOMAIN flows' \subseteq DOMAIN flows \union Pending
      <4>1. w[k].pc = "act"
        BY <2>5 DEF Act
      <4>2. CASE w[k].verdict = "accept"
        <5>1. FlowKey(w[k].pkt) \in Pending
          BY <4>1, <4>2 DEF Pending
        <5>2. DOMAIN flows' = DOMAIN flows \union {FlowKey(w[k].pkt)}
          BY <2>5, <4>2 DEF Act, Put
        <5> QED
          BY <5>1, <5>2
      <4>3. CASE w[k].verdict # "accept"
        BY <2>5, <4>3 DEF Act
      <4> QED
        BY <4>2, <4>3
    <3> QED
      BY <3>1, <3>2, <3>3, PendingKept, FlowKept
  <2>6. ASSUME Finish(k) \/ Send(k) \/ Stop(k) PROVE FlowInv'
    <3>1. flows' = flows
      BY <2>6 DEF Finish, Send, Stop, fwVars
    <3>2. \E rec : Step(k, rec) /\ rec.pc \in {"recv", "send", "stopped"}
      BY <2>6 DEF Finish, Send, Stop, Idle
    <3>3. PICK rec : Step(k, rec) /\ rec.pc \in {"recv", "send", "stopped"}
      BY <3>2
    <3>4. ~IsPending(rec)
      BY <3>3 DEF IsPending
    <3> QED
      BY <3>1, <3>3, <3>4, PendingKept, FlowKept
  <2> QED
    BY <1>2, <2>1, <2>2, <2>3, <2>4, <2>5, <2>6 DEF Worker
<1>3. ASSUME Maintenance PROVE FlowInv'
  <2>1. w' = w /\ DOMAIN flows' \subseteq DOMAIN flows
    BY <1>3 DEF Maintenance, Restrict
  <2>2. Pending' = Pending
    BY <2>1 DEF Pending, FlowKey
  <2> QED
    BY <2>1, <2>2, FlowKept
<1>4. ASSUME Subscribe \/ (\E l \in 1..MaxLanes : RecvLane(l)) \/ Shutdown \/ Tick
             \/ (\E ip, token : AdminUnban(ip, token)) \/ (\E file : Reload(file))
             \/ UNCHANGED vars
      PROVE  FlowInv'
  BY <1>1, <1>4 DEF Subscribe, RecvLane, Shutdown, Tick, AdminUnban, Reload, fwVars, vars
<1> QED
  BY <1>2, <1>3, <1>4 DEF Next

\* conntrack.rs: room is looked for by lookup_or_admit and used by record_new, with the
\* rules, the log and the other workers in between; the table exceeds max_entries by at
\* most one flow per further worker, whatever the sizes and the packets.
THEOREM FlowsBounded == Spec => []FlowBound
<1>1. Init => FlowInv
  <2> SUFFICES ASSUME Init PROVE FlowInv
    OBVIOUS
  <2>1. DOMAIN flows = {} /\ Pending = {}
    BY DEF Init, Pending, Idle
  <2>2. DOMAIN flows \union Pending = {}
    BY <2>1
  <2>3. Cardinality(DOMAIN flows \union Pending) = 0 /\ IsFiniteSet(DOMAIN flows)
    BY <2>1, <2>2, FS_EmptySet
  <2>4. Cardinality(Workers) \in Nat
    BY PacketPathAssumption, FS_CardinalityType
  <2> QED
    BY <2>3, <2>4, PacketPathAssumption DEF FlowInv, FlowBound
<1>2. FlowInv => FlowBound
  BY DEF FlowInv
<1> QED
  BY <1>1, <1>2, ShapeInit, ShapeStep, FlowStep, PTL DEF Spec

---------------------------------------------------------------------------
(* The log                                                                 *)

\* The lines of this tick: those of the window that began in it, and before those at most
\* a cap of an older window that nobody had restarted yet.
CapInv ==
    /\ \A t \in 0..now : Cardinality(LinesAt(lines, t)) <= 2 * gate.max
    /\ gate.start < now => /\ Cardinality(LinesAt(lines, now)) <= gate.max
                           /\ Cardinality(LinesAt(lines, now)) <= gate.emitted
    /\ gate.start = now => Cardinality(LinesAt(lines, now)) <= gate.max + gate.emitted

LogInv ==
    /\ now \in Nat
    /\ lines \in Seq(Nat)
    /\ \A i \in DOMAIN lines : lines[i] <= now
    /\ gate \in [max : Nat, start : Nat, emitted : Nat, suppressed : Nat] /\ gate.start <= now
    /\ suppressed \in Nat /\ reported \in Nat
    /\ reported + gate.suppressed <= suppressed
    /\ gate.max = 0 => suppressed = 0
    /\ gate.max # 0 => CapInv

LEMMA LinesFinite ==
    ASSUME NEW ls \in Seq(Nat), NEW t
    PROVE  IsFiniteSet(LinesAt(ls, t)) /\ Cardinality(LinesAt(ls, t)) \in Nat
<1>1. IsFiniteSet(1..Len(ls))
  BY FS_Interval
<1>2. LinesAt(ls, t) \subseteq 1..Len(ls)
  BY DEF LinesAt
<1> QED
  BY <1>1, <1>2, FS_Subset, FS_CardinalityType

\* A line more in one tick, and none in another.
LEMMA LinesAppend ==
    ASSUME NEW ls \in Seq(Nat), NEW t \in Nat, \A i \in DOMAIN ls : ls[i] <= t
    PROVE  /\ Append(ls, t) \in Seq(Nat)
           /\ \A i \in DOMAIN Append(ls, t) : Append(ls, t)[i] <= t
           /\ Cardinality(LinesAt(Append(ls, t), t)) = Cardinality(LinesAt(ls, t)) + 1
           /\ \A u \in Nat \ {t} : LinesAt(Append(ls, t), u) = LinesAt(ls, u)
<1> DEFINE more == Append(ls, t)
           n == Len(ls) + 1
<1>1. /\ more \in Seq(Nat) /\ Len(more) = n
      /\ \A i \in 1..Len(ls) : more[i] = ls[i]
      /\ more[n] = t
  BY AppendProperties
<1>2. DOMAIN more = 1..n /\ DOMAIN ls = 1..Len(ls) /\ Len(ls) \in Nat
  BY <1>1
<1> HIDE DEF more
<1>3. LinesAt(more, t) = LinesAt(ls, t) \union {n} /\ n \notin LinesAt(ls, t)
  BY <1>1, <1>2 DEF LinesAt
<1>4. \A u \in Nat \ {t} : LinesAt(more, u) = LinesAt(ls, u)
  BY <1>1, <1>2 DEF LinesAt
<1>5. IsFiniteSet(LinesAt(ls, t))
  BY LinesFinite
<1>6. Cardinality(LinesAt(more, t)) = Cardinality(LinesAt(ls, t)) + 1
  BY <1>3, <1>5, FS_AddElement
<1>7. \A i \in DOMAIN more : more[i] <= t
  BY <1>1, <1>2
<1> QED
  BY <1>1, <1>4, <1>6, <1>7 DEF more

\* GateWindow starts the tick's own window at most once: after that it is not over.
LEMMA GateWindowLog ==
    ASSUME LogInv, NEW k, GateWindow(k)
    PROVE  LogInv'
<1>0. UNCHANGED <<now, lines, suppressed, reported>>
  BY DEF GateWindow
<1>1. Cardinality(LinesAt(lines, now)) \in Nat
  BY LinesFinite DEF LogInv
<1>2. CASE WindowOver
  <2>1. gate' = [max |-> gate.max, start |-> now, emitted |-> 0, suppressed |-> 0]
    BY <1>2 DEF GateWindow, LogInv
  <2>2. gate'.max = gate.max /\ gate'.start = now /\ gate'.emitted = 0 /\ gate'.suppressed = 0
    BY <2>1
  <2>3. gate.max # 0 /\ gate.start < now /\ CapInv
    BY <1>2 DEF WindowOver, LogInv
  <2>4. CapInv'
    BY <1>0, <1>1, <2>2, <2>3 DEF CapInv, LogInv
  <2>5. reported' + gate'.suppressed <= suppressed'
    BY <1>0, <2>2 DEF LogInv
  <2> QED
    BY <1>0, <2>1, <2>2, <2>3, <2>4, <2>5 DEF LogInv
<1>3. CASE ~WindowOver
  <2>1. gate' = gate
    BY <1>3 DEF GateWindow
  <2> QED
    BY <1>0, <2>1 DEF LogInv, CapInv
<1> QED
  BY <1>2, <1>3

LEMMA GateCountLog ==
    ASSUME LogInv, NEW k, GateCount(k)
    PROVE  LogInv'
<1>0. now' = now /\ reported' = reported
  BY DEF GateCount
<1>1. /\ now \in Nat /\ lines \in Seq(Nat)
      /\ gate.emitted \in Nat /\ gate.suppressed \in Nat /\ gate.max \in Nat
  BY DEF LogInv
<1>2. Cardinality(LinesAt(lines, now)) \in Nat
  BY <1>1, LinesFinite
<1>3. ASSUME lines' = Append(lines, now)
      PROVE  /\ lines' \in Seq(Nat)
             /\ \A i \in DOMAIN lines' : lines'[i] <= now
             /\ Cardinality(LinesAt(lines', now)) = Cardinality(LinesAt(lines, now)) + 1
             /\ \A u \in Nat \ {now} : LinesAt(lines', u) = LinesAt(lines, u)
  <2>1. \A i \in DOMAIN lines : lines[i] <= now
    BY DEF LogInv
  <2> QED
    BY <1>1, <1>3, <2>1, LinesAppend
<1>4. CASE gate.max = 0 /\ lines' = Append(lines, now) /\ UNCHANGED <<gate, suppressed>>
  BY <1>0, <1>3, <1>4 DEF LogInv
<1>5. CASE /\ gate.max # 0 /\ gate.emitted < gate.max
           /\ gate' = [gate EXCEPT !.emitted = @ + 1]
           /\ lines' = Append(lines, now)
           /\ UNCHANGED suppressed
  <2>1. gate' = [max |-> gate.max, start |-> gate.start, emitted |-> gate.emitted + 1,
                 suppressed |-> gate.suppressed]
    BY <1>5 DEF LogInv
  <2>2. /\ gate'.max = gate.max /\ gate'.start = gate.start /\ gate'.emitted = gate.emitted + 1
        /\ gate'.suppressed = gate.suppressed
    BY <2>1
  <2>3. CapInv /\ gate.start \in Nat /\ gate.start <= now
    BY <1>5 DEF LogInv
  <2>4. Cardinality(LinesAt(lines', now)) <= 2 * gate.max
    BY <1>1, <1>2, <1>3, <1>5, <2>3 DEF CapInv
  <2>5. \A t \in 0..now : Cardinality(LinesAt(lines', t)) <= 2 * gate.max
    <3> TAKE t \in 0..now
    <3>1. CASE t = now
      BY <2>4, <3>1
    <3>2. CASE t # now
      BY <1>1, <1>3, <1>5, <2>3, <3>2 DEF CapInv
    <3> QED
      BY <3>1, <3>2
  <2>6. gate'.start < now => /\ Cardinality(LinesAt(lines', now)) <= gate.max
                             /\ Cardinality(LinesAt(lines', now)) <= gate'.emitted
    BY <1>1, <1>2, <1>3, <1>5, <2>2, <2>3 DEF CapInv
  <2>7. gate'.start = now => Cardinality(LinesAt(lines', now)) <= gate.max + gate'.emitted
    BY <1>1, <1>2, <1>3, <1>5, <2>2, <2>3 DEF CapInv
  <2>8. CapInv'
    BY <1>0, <2>2, <2>5, <2>6, <2>7 DEF CapInv
  <2>9. gate' \in [max : Nat, start : Nat, emitted : Nat, suppressed : Nat]
    BY <1>1, <2>1, <2>3
  <2>10. suppressed' = suppressed /\ reported' + gate'.suppressed <= suppressed'
    BY <1>0, <1>5, <2>2 DEF LogInv
  <2> QED
    BY <1>0, <1>3, <1>5, <2>2, <2>3, <2>8, <2>9, <2>10 DEF LogInv
<1>6. CASE /\ gate.max # 0 /\ gate.emitted >= gate.max
           /\ gate' = [gate EXCEPT !.emitted = @ + 1, !.suppressed = @ + 1]
           /\ suppressed' = suppressed + 1
           /\ UNCHANGED lines
  <2>1. gate' = [max |-> gate.max, start |-> gate.start, emitted |-> gate.emitted + 1,
                 suppressed |-> gate.suppressed + 1]
    BY <1>6 DEF LogInv
  <2>2. /\ gate'.max = gate.max /\ gate'.start = gate.start /\ gate'.emitted = gate.emitted + 1
        /\ gate'.suppressed = gate.suppressed + 1
    BY <2>1
  <2>3. CapInv /\ gate.start \in Nat /\ gate.start <= now
    BY <1>6 DEF LogInv
  <2>4. CapInv'
    BY <1>0, <1>1, <1>2, <1>6, <2>2, <2>3 DEF CapInv
  <2>5. gate' \in [max : Nat, start : Nat, emitted : Nat, suppressed : Nat]
    BY <1>1, <2>1, <2>3
  <2>6. suppressed' \in Nat /\ reported' + gate'.suppressed <= suppressed'
    BY <1>0, <1>1, <1>6, <2>2 DEF LogInv
  <2> QED
    BY <1>0, <1>6, <2>2, <2>3, <2>4, <2>5, <2>6 DEF LogInv
<1> QED
  BY <1>4, <1>5, <1>6 DEF GateCount

LEMMA LogStep ==
    ASSUME LogInv, [Next]_vars
    PROVE  LogInv'
<1>1. ASSUME UNCHANGED <<now, gateVars>> PROVE LogInv'
  BY <1>1 DEF LogInv, CapInv, gateVars
<1>2. ASSUME NEW k \in Workers, Worker(k) PROVE LogInv'
  <2>1. CASE GateWindow(k) \/ GateCount(k)
    BY <2>1, GateWindowLog, GateCountLog
  <2>2. CASE (\E raw \in Raws : Recv(k, raw)) \/ Lookup(k) \/ Evaluate(k) \/ Act(k)
             \/ Finish(k) \/ Send(k) \/ Stop(k)
    BY <1>1, <2>2 DEF Recv, Lookup, Evaluate, Act, Finish, Send, Stop, logVars
  <2> QED
    BY <1>2, <2>1, <2>2 DEF Worker
<1>3. ASSUME Maintenance PROVE LogInv'
  <2>1. gate' = [max |-> gate.max, start |-> gate.start, emitted |-> gate.emitted, suppressed |-> 0]
    BY <1>3 DEF Maintenance, TakenFromGate, LogInv
  <2>2. /\ gate'.max = gate.max /\ gate'.start = gate.start /\ gate'.emitted = gate.emitted
        /\ gate'.suppressed = 0
    BY <2>1
  <2>3. reported' = reported + gate.suppressed /\ UNCHANGED <<now, suppressed, lines>>
    BY <1>3 DEF Maintenance
  <2>4. CapInv => CapInv'
    BY <2>2, <2>3 DEF CapInv
  <2> QED
    BY <2>1, <2>2, <2>3, <2>4 DEF LogInv
<1>4. ASSUME Tick PROVE LogInv'
  <2>1. now' = now + 1 /\ UNCHANGED <<gate, lines, suppressed, reported>>
    BY <1>4 DEF Tick, logVars, gateVars
  <2>2. LinesAt(lines, now + 1) = {}
    BY DEF LinesAt, LogInv
  <2>3. Cardinality(LinesAt(lines, now + 1)) = 0
    BY <2>2, FS_EmptySet
  <2>4. ASSUME CapInv PROVE CapInv'
    <3>1. \A t \in 0..(now + 1) : Cardinality(LinesAt(lines, t)) <= 2 * gate.max
      BY <2>3, <2>4 DEF CapInv, LogInv
    <3> QED
      BY <2>1, <2>3, <3>1 DEF CapInv, LogInv
  <2> QED
    BY <2>1, <2>4 DEF LogInv
<1>5. ASSUME Subscribe \/ (\E l \in 1..MaxLanes : RecvLane(l)) \/ Shutdown
             \/ (\E ip, token : AdminUnban(ip, token)) \/ (\E file : Reload(file))
             \/ UNCHANGED vars
      PROVE  LogInv'
  BY <1>1, <1>5 DEF Subscribe, RecvLane, Shutdown, AdminUnban, Reload, logVars, vars
<1> QED
  BY <1>2, <1>3, <1>4, <1>5 DEF Next

LEMMA LogInit == Init => LogInv
<1> SUFFICES ASSUME Init PROVE LogInv
  OBVIOUS
<1>1. \A t : LinesAt(lines, t) = {}
  BY DEF Init, LinesAt
<1>2. \A t : Cardinality(LinesAt(lines, t)) = 0
  BY <1>1, FS_EmptySet
<1>3. /\ gate \in [max : Nat, start : Nat, emitted : Nat, suppressed : Nat]
      /\ gate.start = 0 /\ gate.emitted = 0 /\ gate.suppressed = 0
  <2>1. PICK m \in MaxPerSecs : gate = [max |-> m, start |-> 0, emitted |-> 0, suppressed |-> 0]
    BY DEF Init
  <2>2. m \in Nat
    BY PacketPathAssumption
  <2> QED
    BY <2>1, <2>2
<1>4. /\ now = 0 /\ lines = <<>> /\ suppressed = 0 /\ reported = 0
      /\ lines \in Seq(Nat) /\ DOMAIN lines = {}
  BY DEF Init
<1>5. CapInv
  BY <1>2, <1>3, <1>4 DEF CapInv
<1> QED
  BY <1>3, <1>4, <1>5 DEF LogInv


\* The packet may still be let through, or refused with warnings nobody has written yet.
IsOpen(r) ==
    \/ r.pc \in {"lookup", "evaluate", "act"}
    \/ r.pc \in {"gate", "count"} /\ r.then = "act"
    \/ r.pc = "finish" /\ r.verdict = "accept"

Open == {k \in Workers : IsOpen(w[k])}

Due(r) == IF IsOpen(r) THEN 2 ELSE 0

\* What is dropped for the quarantine is not accepted later; an accepted packet bans nobody.
Settled(r) ==
    r.pc \in {"gate", "count", "act"} => /\ r.then = "finish" => r.verdict # "accept"
                                         /\ r.verdict = "accept" => r.block = 0

\* Every packet pays for two warnings: one let through and one in hand have kept theirs.
PaidInv ==
    /\ outside \in Seq(Nat) /\ packets \in Nat
    /\ \A k \in Workers : Settled(w[k])
    /\ Len(outside) + 2 * seq + 2 * Cardinality(Open) <= 2 * packets

\* A step opens or closes the packet of its own worker.
LEMMA OpenStep ==
    ASSUME ShapeInv, NEW k \in Workers, NEW rec, Step(k, rec)
    PROVE  /\ Cardinality(Open) \in Nat /\ Cardinality(Open') \in Nat
           /\ 2 * Cardinality(Open') + Due(w[k]) = 2 * Cardinality(Open) + Due(rec)
<1>1. w'[k] = rec /\ \A u \in Workers \ {k} : w'[u] = w[u]
  BY StepSplit DEF ShapeInv
<1>2. Open \subseteq Workers /\ Open' \subseteq Workers
  BY DEF Open
<1>3. IsFiniteSet(Open) /\ IsFiniteSet(Open')
  BY <1>2, PacketPathAssumption, FS_Subset
<1>4. Cardinality(Open) \in Nat /\ Cardinality(Open') \in Nat
  BY <1>3, FS_CardinalityType
<1>5. \A u \in Workers : u \in Open' <=> IF u = k THEN IsOpen(rec) ELSE u \in Open
  BY <1>1 DEF Open, IsOpen
<1>6. k \in Open <=> IsOpen(w[k])
  BY DEF Open
<1>7. CASE IsOpen(rec) <=> IsOpen(w[k])
  <2>1. Open' = Open
    BY <1>2, <1>5, <1>6, <1>7
  <2> QED
    BY <1>4, <1>7, <2>1 DEF Due
<1>8. CASE IsOpen(rec) /\ ~IsOpen(w[k])
  <2>1. Open' = Open \union {k} /\ k \notin Open
    BY <1>2, <1>5, <1>6, <1>8
  <2>2. Cardinality(Open') = Cardinality(Open) + 1
    BY <1>3, <2>1, FS_AddElement
  <2>3. Due(w[k]) = 0 /\ Due(rec) = 2
    BY <1>8 DEF Due
  <2> QED
    BY <1>4, <2>2, <2>3
<1>9. CASE ~IsOpen(rec) /\ IsOpen(w[k])
  <2>1. Open' = Open \ {k} /\ k \in Open
    BY <1>2, <1>5, <1>6, <1>9
  <2>2. Cardinality(Open') = Cardinality(Open) - 1
    BY <1>3, <2>1, FS_RemoveElement
  <2>3. Due(w[k]) = 2 /\ Due(rec) = 0
    BY <1>9 DEF Due
  <2> QED
    BY <1>4, <2>2, <2>3
<1> QED
  BY <1>4, <1>7, <1>8, <1>9

\* A step that takes from a packet what it pays for.
LEMMA PaidStep ==
    ASSUME ShapeInv, PaidInv, NEW k \in Workers, NEW rec, Step(k, rec), Settled(rec),
           NEW n \in Nat, outside' \in Seq(Nat), Len(outside') = Len(outside) + n,
           seq' \in Nat, packets' \in Nat,
           n + 2 * seq' + Due(rec) + 2 * packets <= 2 * packets' + 2 * seq + Due(w[k])
    PROVE  PaidInv'
<1>1. \A u \in Workers : Settled(w'[u])
  BY StepSplit DEF ShapeInv, PaidInv, Settled
<1> DEFINE a == Len(outside)
           through == 2 * seq
           through2 == 2 * seq'
           all == 2 * packets
           all2 == 2 * packets'
           open == 2 * Cardinality(Open)
           open2 == 2 * Cardinality(Open')
           before == Due(w[k])
           after == Due(rec)
<1>2. open \in Nat /\ open2 \in Nat /\ open2 + before = open + after
  BY OpenStep
<1>3. a \in Nat /\ before \in Nat /\ after \in Nat
  BY DEF PaidInv, Due
<1>4. through \in Nat /\ all \in Nat /\ through2 \in Nat /\ all2 \in Nat
  <2>1. seq \in Nat /\ packets \in Nat /\ seq' \in Nat /\ packets' \in Nat
    BY DEF ShapeInv, PaidInv
  <2>2. \A m \in Nat : 2 * m \in Nat
    OBVIOUS
  <2> QED
    BY ONLY <2>1, <2>2
<1>5. a + through + open <= all
  BY DEF PaidInv
<1>6. n + through2 + after + all <= all2 + through + before
  OBVIOUS
<1>7. a + n + through2 + open2 <= all2
  <2> HIDE DEF a, through, through2, all, all2, open, open2, before, after
  <2>1. n \in Nat
    OBVIOUS
  <2> QED
    BY ONLY <1>2, <1>3, <1>4, <1>5, <1>6, <2>1
<1> QED
  BY <1>1, <1>7 DEF PaidInv

\* Warnings are written at the time of the step.
LEMMA WarnLen ==
    ASSUME outside \in Seq(Nat), now \in Nat, NEW n \in Nat, Warn(n)
    PROVE  outside' \in Seq(Nat) /\ Len(outside') = Len(outside) + n
<1> DEFINE s == [i \in 1..n |-> now]
<1>1. s \in Seq(Nat) /\ Len(s) = n
  OBVIOUS
<1>2. outside' = outside \o s
  BY DEF Warn
<1> HIDE DEF s
<1> QED
  BY <1>1, <1>2, ConcatProperties

\* A rule that blocks the source does not accept the packet.
LEMMA BlockRefuses ==
    ASSUME NEW pkt, NEW i
    PROVE  Decision(pkt, i).verdict = "accept" => Decision(pkt, i).block = 0
BY DEF Decision

LEMMA PaidWorker ==
    ASSUME ShapeInv, PaidInv, NEW k \in Workers, Worker(k)
    PROVE  PaidInv'
<1>0. /\ WorkerOK(w[k]) /\ Settled(w[k])
      /\ now \in Nat /\ seq \in Nat /\ packets \in Nat /\ outside \in Seq(Nat)
  BY DEF ShapeInv, PaidInv
<1>1. ASSUME NEW rec, Step(k, rec), Settled(rec), UNCHANGED <<outside, packets, seq>>,
             IsOpen(rec) => IsOpen(w[k])
      PROVE  PaidInv'
  <2>1. outside' \in Seq(Nat) /\ Len(outside') = Len(outside) + 0
    BY <1>0, <1>1
  <2>2. 0 + 2 * seq' + Due(rec) + 2 * packets <= 2 * packets' + 2 * seq + Due(w[k])
    BY <1>0, <1>1 DEF Due
  <2> QED
    BY <1>0, <1>1, <2>1, <2>2, PaidStep
<1>2. ASSUME NEW raw \in Raws, Recv(k, raw) PROVE PaidInv'
  <2>0. /\ packets' = packets + 1 /\ UNCHANGED <<outside, seq>>
        /\ w[k].pc = "recv" /\ ~IsOpen(w[k])
    BY <1>2 DEF Recv, logVars, laneVars, IsOpen
  <2>1. CASE w' = w
    <3>1. Open' = Open
      BY <2>1 DEF Open
    <3>2. Cardinality(Open) \in Nat
      <4>1. Open \subseteq Workers
        BY DEF Open
      <4> QED
        BY <4>1, PacketPathAssumption, FS_Subset, FS_CardinalityType
    <3> QED
      BY <1>0, <2>0, <2>1, <3>1, <3>2 DEF PaidInv
  <2>2. ASSUME NEW rec, Step(k, rec), Settled(rec) PROVE PaidInv'
    <3>1. outside' \in Seq(Nat) /\ Len(outside') = Len(outside) + 0
      BY <1>0, <2>0
    <3>2. 0 + 2 * seq' + Due(rec) + 2 * packets <= 2 * packets' + 2 * seq + Due(w[k])
      BY <1>0, <2>0 DEF Due
    <3>3. packets' \in Nat /\ seq' \in Nat
      BY <1>0, <2>0
    <3> QED
      BY <2>2, <3>1, <3>2, <3>3, PaidStep
  <2>3. /\ Settled([pc |-> "lookup", pkt |-> raw.pkt])
        /\ \A t \in {"recv", "finish"}, v \in {"none", "drop"} :
             Settled([pc |-> "gate", then |-> t, pkt |-> raw.pkt, verdict |-> v, block |-> 0])
    BY DEF Settled
  <2> QED
    BY <1>2, <2>1, <2>2, <2>3 DEF Recv
<1>3. ASSUME Lookup(k) PROVE PaidInv'
  <2>0. /\ UNCHANGED <<packets, seq>> /\ IsOpen(w[k])
    BY <1>3 DEF Lookup, boundVars, laneVars, IsOpen
  <2>1. \A v : Settled([pc |-> "finish", pkt |-> w[k].pkt, verdict |-> v, block |-> 0])
    BY DEF Settled
  <2>2. Settled([pc |-> "evaluate", pkt |-> w[k].pkt])
    BY DEF Settled
  <2>3. CASE outside' = outside
    BY <1>1, <1>3, <2>0, <2>1, <2>2, <2>3 DEF Lookup
  <2>4. CASE /\ Step(k, [pc |-> "finish", pkt |-> w[k].pkt, verdict |-> "drop", block |-> 0])
             /\ Warn(1)
    <3>1. outside' \in Seq(Nat) /\ Len(outside') = Len(outside) + 1
      BY <1>0, <2>4, WarnLen
    <3> DEFINE rec == [pc |-> "finish", pkt |-> w[k].pkt, verdict |-> "drop", block |-> 0]
    <3>2. ~IsOpen(rec) /\ Settled(rec)
      BY <2>1 DEF IsOpen
    <3> HIDE DEF rec
    <3>3. 1 + 2 * seq' + Due(rec) + 2 * packets <= 2 * packets' + 2 * seq + Due(w[k])
      BY <1>0, <2>0, <3>2 DEF Due
    <3>4. Step(k, rec)
      BY <2>4 DEF rec
    <3> QED
      BY <1>0, <2>0, <3>1, <3>2, <3>3, <3>4, PaidStep
  <2> QED
    BY <1>3, <2>3, <2>4 DEF Lookup
<1>4. ASSUME Evaluate(k) PROVE PaidInv'
  <2> DEFINE i == Deciding(engine, w[k].pkt)
             d == Decision(w[k].pkt, i)
             p == IF d.log THEN "gate" ELSE "act"
             rec == [pc |-> p, then |-> "act", pkt |-> w[k].pkt, verdict |-> d.verdict,
                     block |-> d.block]
  <2>1. Step(k, rec) /\ UNCHANGED <<outside, packets, seq>> /\ IsOpen(w[k])
    BY <1>4 DEF Evaluate, boundVars, laneVars, logVars, IsOpen
  <2>2. d.verdict = "accept" => d.block = 0
    BY BlockRefuses
  <2> HIDE DEF d
  <2>3. Settled(rec)
    BY <2>2 DEF Settled
  <2> HIDE DEF rec
  <2> QED
    BY <1>1, <2>1, <2>3
<1>5. ASSUME GateWindow(k) PROVE PaidInv'
  <2> DEFINE rec == [w[k] EXCEPT !.pc = "count"]
  <2>1. /\ Step(k, rec) /\ UNCHANGED <<outside, packets, seq>>
        /\ w[k].pc = "gate" /\ Decided(w[k])
    BY <1>0, <1>5, Positions DEF GateWindow, boundVars, laneVars
  <2>2. /\ rec.pc = "count" /\ rec.verdict = w[k].verdict
        /\ rec.then = w[k].then /\ rec.block = w[k].block
    BY <2>1, Moved
  <2> HIDE DEF rec
  <2>3. Settled(rec) /\ (IsOpen(rec) => IsOpen(w[k]))
    BY <1>0, <2>1, <2>2 DEF Settled, IsOpen
  <2> QED
    BY <1>1, <2>1, <2>3
<1>6. ASSUME GateCount(k) PROVE PaidInv'
  <2>1. /\ UNCHANGED <<outside, packets, seq>> /\ w[k].pc = "count" /\ Decided(w[k])
    BY <1>0, <1>6, Positions DEF GateCount, boundVars, laneVars
  <2>2. CASE w[k].then = "recv"
    <3>1. Step(k, Idle) /\ Settled(Idle) /\ ~IsOpen(Idle)
      BY <1>6, <2>2 DEF GateCount, Idle, Settled, IsOpen
    <3> QED
      BY <1>1, <2>1, <3>1
  <2>3. CASE w[k].then # "recv"
    <3>1. PICK p \in {"act", "finish"} : w[k].then = p
      BY <2>1, <2>3 DEF Decided
    <3> DEFINE rec == [w[k] EXCEPT !.pc = p]
    <3>2. Step(k, rec)
      BY <1>6, <2>3, <3>1 DEF GateCount
    <3>3. /\ rec.pc = p /\ rec.verdict = w[k].verdict
          /\ rec.then = w[k].then /\ rec.block = w[k].block
      <4>1. p \in {"gate", "count", "act", "finish"}
        OBVIOUS
      <4> QED
        BY <2>1, <4>1, Moved
    <3> HIDE DEF rec
    <3>4. Settled(rec) /\ (IsOpen(rec) => IsOpen(w[k]))
      BY <1>0, <2>1, <3>1, <3>3 DEF Settled, IsOpen
    <3> QED
      BY <1>1, <2>1, <3>2, <3>4
  <2> QED
    BY <2>2, <2>3
<1>7. ASSUME Act(k) PROVE PaidInv'
  <2> DEFINE rec == [w[k] EXCEPT !.pc = "finish"]
  <2>1. /\ Step(k, rec) /\ UNCHANGED <<packets, seq>> /\ w[k].pc = "act" /\ Decided(w[k])
        /\ IsOpen(w[k])
    BY <1>0, <1>7, Positions DEF Act, boundVars, laneVars, IsOpen
  <2>2. PICK n \in {0, 1, 2} : Warn(n) /\ (w[k].block = 0 => n = 0)
    BY <1>7 DEF Act
  <2>3. rec.pc = "finish" /\ rec.verdict = w[k].verdict
    BY <2>1, Moved
  <2> HIDE DEF rec
  <2>4. Settled(rec) /\ (IsOpen(rec) => n = 0)
    BY <1>0, <2>1, <2>2, <2>3 DEF Settled, IsOpen
  <2>5. outside' \in Seq(Nat) /\ Len(outside') = Len(outside) + n
    BY <1>0, <2>2, WarnLen
  <2>6. n \in Nat /\ n + 2 * seq' + Due(rec) + 2 * packets <= 2 * packets' + 2 * seq + Due(w[k])
    BY <1>0, <2>1, <2>4 DEF Due
  <2> QED
    BY <1>0, <2>1, <2>4, <2>5, <2>6, PaidStep
<1>8. ASSUME Finish(k) PROVE PaidInv'
  <2>1. UNCHANGED <<outside, packets>> /\ w[k].pc = "finish"
    BY <1>8 DEF Finish, boundVars, logVars
  <2>2. CASE w[k].verdict = "accept"
    <3> DEFINE rec == [pc |-> "send", seq |-> seq]
    <3>1. Step(k, rec) /\ seq' = seq + 1
      BY <1>8, <2>2 DEF Finish
    <3>2. IsOpen(w[k]) /\ ~IsOpen(rec) /\ Settled(rec)
      BY <2>1, <2>2 DEF IsOpen, Settled
    <3>3. outside' \in Seq(Nat) /\ Len(outside') = Len(outside) + 0
      BY <1>0, <2>1
    <3> HIDE DEF rec
    <3>4. 0 + 2 * seq' + Due(rec) + 2 * packets <= 2 * packets' + 2 * seq + Due(w[k])
      BY <1>0, <2>1, <3>1, <3>2 DEF Due
    <3>5. packets' \in Nat /\ seq' \in Nat
      BY <1>0, <2>1, <3>1
    <3> QED
      BY <3>1, <3>2, <3>3, <3>4, <3>5, PaidStep
  <2>3. CASE w[k].verdict # "accept"
    <3>1. Step(k, Idle) /\ seq' = seq /\ Settled(Idle) /\ ~IsOpen(Idle)
      BY <1>8, <2>3 DEF Finish, Idle, Settled, IsOpen
    <3> QED
      BY <1>1, <2>1, <3>1
  <2> QED
    BY <2>2, <2>3
<1>9. ASSUME Send(k) \/ Stop(k) PROVE PaidInv'
  <2>1. UNCHANGED <<outside, packets, seq>>
    BY <1>9 DEF Send, Stop, boundVars, laneVars, logVars
  <2>2. \A rec \in {Idle, [pc |-> "stopped"]} : Settled(rec) /\ ~IsOpen(rec)
    BY DEF Idle, Settled, IsOpen
  <2> QED
    BY <1>1, <1>9, <2>1, <2>2 DEF Send, Stop
<1> QED
  BY <1>2, <1>3, <1>4, <1>5, <1>6, <1>7, <1>8, <1>9 DEF Worker

LEMMA PaidNext ==
    ASSUME ShapeInv, PaidInv, [Next]_vars
    PROVE  PaidInv'
<1>1. ASSUME UNCHANGED <<outside, packets, seq, w>> PROVE PaidInv'
  BY <1>1 DEF PaidInv, Open
<1>2. ASSUME Subscribe \/ (\E l \in 1..MaxLanes : RecvLane(l)) \/ Shutdown \/ Maintenance \/ Tick
             \/ (\E ip, token : AdminUnban(ip, token)) \/ (\E file : Reload(file))
             \/ UNCHANGED vars
      PROVE  PaidInv'
  BY <1>1, <1>2 DEF Subscribe, RecvLane, Shutdown, Maintenance, Tick, AdminUnban, Reload,
                    logVars, laneVars, boundVars, vars
<1> QED
  BY <1>2, PaidWorker DEF Next

LEMMA PaidInit == Init => PaidInv
<1> SUFFICES ASSUME Init PROVE PaidInv
  OBVIOUS
<1>1. \A k \in Workers : w[k] = Idle
  BY DEF Init
<1>2. Open = {} /\ \A k \in Workers : Settled(w[k])
  BY <1>1 DEF Open, IsOpen, Settled, Idle
<1>3. Cardinality(Open) = 0
  BY <1>2, FS_EmptySet
<1>4. outside = <<>> /\ seq = 0 /\ packets = 0
  BY DEF Init
<1> QED
  BY <1>2, <1>3, <1>4 DEF PaidInv

\* log_gate.rs, nfqueue.rs: no second sees more than twice max_per_sec lines through the
\* gate, none is held back without a cap and none reported twice; and what is written beside
\* the gate is at most two warnings per refused packet, none for one that is let through.
\* For every cap, number of workers, table size, configuration file and traffic.
THEOREM LogIsCapped == Spec => []LogCapped
<1>1. LogInv => GateCapped
  BY DEF LogInv, CapInv, GateCapped
<1>2. ShapeInv /\ PaidInv => WarningsForRefused
  <2> SUFFICES ASSUME ShapeInv, PaidInv PROVE WarningsForRefused
    OBVIOUS
  <2>1. Open \subseteq Workers
    BY DEF Open
  <2>2. Cardinality(Open) \in Nat
    BY <2>1, PacketPathAssumption, FS_Subset, FS_CardinalityType
  <2>3. Len(outside) \in Nat /\ seq \in Nat /\ packets \in Nat
    BY DEF ShapeInv, PaidInv
  <2> QED
    BY <2>2, <2>3 DEF PaidInv, WarningsForRefused
<1> QED
  BY <1>1, <1>2, ShapeInit, ShapeStep, LogInit, LogStep, PaidInit, PaidNext, PTL DEF Spec, LogCapped

---------------------------------------------------------------------------
(* The lanes                                                               *)

Lane == [from : Nat, next : Nat, delivered : Seq(Nat), lagged : Nat]

\* What a lane received is from the part of the broadcast it has passed, each once.
LaneOK(lane, r) ==
    /\ lane \in Lane
    /\ lane.next \in 1..(Len(r) + 1)
    /\ lane.next - 1 - lane.from = Len(lane.delivered) + lane.lagged
    /\ \A i \in DOMAIN lane.delivered : \E j \in 1..(lane.next - 1) : lane.delivered[i] = r[j]
    /\ \A i, j \in DOMAIN lane.delivered : lane.delivered[i] = lane.delivered[j] => i = j

Sent(r) == {r[i] : i \in DOMAIN r}

InHand == {w[k].seq : k \in {u \in Workers : w[u].pc = "send"}}

NumbersInv ==
    /\ seq \in Nat /\ ring \in Seq(Nat)
    /\ \A i, j \in DOMAIN ring : ring[i] = ring[j] => i = j
    /\ \A k \in Workers : w[k].pc = "send" => w[k].seq \notin Sent(ring)
    /\ \A k, u \in Workers : w[k].pc = "send" /\ w[u].pc = "send" /\ w[k].seq = w[u].seq => k = u
    /\ Sent(ring) \union InHand = 0..(seq - 1)

LaneInv ==
    /\ lanes \in Seq(Lane)
    /\ \A l \in DOMAIN lanes : LaneOK(lanes[l], ring)

\* A step by which no worker draws or broadcasts a number.
LEMMA NumbersKept ==
    ASSUME NumbersInv, UNCHANGED <<seq, ring>>,
           \A k \in Workers : w'[k] # w[k] => w[k].pc # "send" /\ w'[k].pc # "send"
    PROVE  NumbersInv'
<1>1. \A k \in Workers : /\ w'[k].pc = "send" <=> w[k].pc = "send"
                         /\ w[k].pc = "send" => w'[k] = w[k]
  OBVIOUS
<1>2. InHand' = InHand
  BY <1>1 DEF InHand
<1> QED
  BY <1>1, <1>2 DEF NumbersInv, Sent

\* Appending to the broadcast keeps what is there.
LEMMA RingAppend ==
    ASSUME NEW r \in Seq(Nat), NEW n \in Nat
    PROVE  /\ Append(r, n) \in Seq(Nat)
           /\ Len(Append(r, n)) = Len(r) + 1
           /\ \A i \in 1..Len(r) : Append(r, n)[i] = r[i]
           /\ Append(r, n)[Len(r) + 1] = n
           /\ DOMAIN Append(r, n) = 1..(Len(r) + 1)
           /\ DOMAIN r = 1..Len(r) /\ Len(r) \in Nat
           /\ Sent(Append(r, n)) = Sent(r) \union {n}
           /\ \A lane : LaneOK(lane, r) => LaneOK(lane, Append(r, n))
<1> DEFINE m == Append(r, n)
<1>1. /\ m \in Seq(Nat) /\ Len(m) = Len(r) + 1
      /\ \A i \in 1..Len(r) : m[i] = r[i]
      /\ m[Len(r) + 1] = n
  BY AppendProperties
<1>2. DOMAIN m = 1..(Len(r) + 1) /\ DOMAIN r = 1..Len(r) /\ Len(r) \in Nat
  BY <1>1
<1> HIDE DEF m
<1>3. Sent(m) = Sent(r) \union {n}
  BY <1>1, <1>2 DEF Sent
<1>4. ASSUME NEW lane, LaneOK(lane, r) PROVE LaneOK(lane, m)
  <2>1. lane.next \in 1..(Len(r) + 1)
    BY <1>4 DEF LaneOK
  <2>2. lane.next \in 1..(Len(m) + 1) /\ \A j \in 1..(lane.next - 1) : m[j] = r[j]
    BY <1>1, <1>2, <2>1
  <2> QED
    BY <1>4, <2>2 DEF LaneOK
<1> QED
  BY <1>1, <1>2, <1>3, <1>4 DEF m

\* submit draws the next number.
LEMMA FinishNumbers ==
    ASSUME ShapeInv, NumbersInv, NEW k \in Workers, Finish(k)
    PROVE  NumbersInv'
<1>0. /\ ring' = ring /\ w[k].pc = "finish" /\ seq \in Nat
      /\ w = [u \in Workers |-> w[u]]
  BY DEF Finish, ShapeInv
<1>1. CASE w[k].verdict # "accept"
  <2>1. Step(k, Idle) /\ seq' = seq
    BY <1>1 DEF Finish
  <2>2. w'[k] = Idle /\ \A u \in Workers \ {k} : w'[u] = w[u]
    BY <1>0, <2>1, StepSplit
  <2> QED
    BY <1>0, <2>1, <2>2, NumbersKept DEF Idle
<1>2. CASE w[k].verdict = "accept"
  <2>1. Step(k, [pc |-> "send", seq |-> seq]) /\ seq' = seq + 1
    BY <1>2 DEF Finish
  <2>2. w'[k] = [pc |-> "send", seq |-> seq] /\ \A u \in Workers \ {k} : w'[u] = w[u]
    BY <1>0, <2>1, StepSplit
  <2>3. w'[k].pc = "send" /\ w'[k].seq = seq
    BY <2>2
  <2>4. InHand' = InHand \union {seq}
    BY <1>0, <2>2, <2>3 DEF InHand
  <2>5. Sent(ring) \union InHand = 0..(seq - 1)
    BY DEF NumbersInv
  <2>6. Sent(ring) \union InHand' = 0..(seq' - 1)
    BY <1>0, <2>1, <2>4, <2>5
  <2>7. seq \notin Sent(ring) /\ \A u \in Workers : w[u].pc = "send" => w[u].seq # seq
    BY <1>0, <2>5 DEF InHand
  <2>8. /\ \A u \in Workers : w'[u].pc = "send" => w'[u].seq \notin Sent(ring)
        /\ \A v, u \in Workers : w'[v].pc = "send" /\ w'[u].pc = "send" /\ w'[v].seq = w'[u].seq
                                 => v = u
    BY <2>2, <2>3, <2>7 DEF NumbersInv
  <2> QED
    BY <1>0, <2>1, <2>6, <2>8 DEF NumbersInv
<1> QED
  BY <1>1, <1>2

\* and broadcasts it.
LEMMA SendNumbers ==
    ASSUME ShapeInv, NumbersInv, NEW k \in Workers, Send(k)
    PROVE  NumbersInv'
<1>0. /\ seq' = seq /\ w[k].pc = "send" /\ seq \in Nat /\ ring \in Seq(Nat)
      /\ w = [u \in Workers |-> w[u]] /\ Step(k, Idle)
  BY DEF Send, ShapeInv, NumbersInv
<1> DEFINE n == w[k].seq
<1>1. n \in Nat /\ n \notin Sent(ring)
  BY <1>0, Positions DEF ShapeInv, Sending, NumbersInv
<1>2. ring' = Append(ring, n)
  BY DEF Send
<1>3. /\ ring' \in Seq(Nat) /\ DOMAIN ring' = 1..(Len(ring) + 1)
      /\ \A i \in 1..Len(ring) : ring'[i] = ring[i]
      /\ ring'[Len(ring) + 1] = n
      /\ DOMAIN ring = 1..Len(ring) /\ Len(ring) \in Nat
      /\ Sent(ring') = Sent(ring) \union {n}
  BY <1>0, <1>1, <1>2, RingAppend
<1>4. w'[k].pc = "recv" /\ \A u \in Workers \ {k} : w'[u] = w[u]
  BY <1>0, StepSplit DEF Idle
<1>5. \A u \in Workers : w'[u].pc = "send" => u # k /\ w'[u] = w[u] /\ w[u].pc = "send"
  BY <1>4
<1>6. InHand = InHand' \union {n}
  BY <1>0, <1>4, <1>5 DEF InHand
<1>7. Sent(ring') \union InHand' = 0..(seq' - 1)
  BY <1>0, <1>3, <1>6 DEF NumbersInv
<1>8. \A i, j \in DOMAIN ring' : ring'[i] = ring'[j] => i = j
  <2> SUFFICES ASSUME NEW i \in 1..(Len(ring) + 1), NEW j \in 1..(Len(ring) + 1),
                      ring'[i] = ring'[j]
               PROVE  i = j
    BY <1>3
  <2>1. \A x \in 1..Len(ring) : ring'[x] # n
    BY <1>1, <1>3 DEF Sent
  <2>2. CASE i \in 1..Len(ring) /\ j \in 1..Len(ring)
    BY <1>3, <2>2 DEF NumbersInv
  <2> QED
    BY <1>3, <2>1, <2>2
<1>9. \A u \in Workers : w'[u].pc = "send" => w'[u].seq \notin Sent(ring')
  BY <1>0, <1>3, <1>5 DEF NumbersInv
<1>10. \A v, u \in Workers : w'[v].pc = "send" /\ w'[u].pc = "send" /\ w'[v].seq = w'[u].seq
                             => v = u
  BY <1>5 DEF NumbersInv
<1> QED
  BY <1>0, <1>3, <1>7, <1>8, <1>9, <1>10 DEF NumbersInv

LEMMA NumbersStep ==
    ASSUME ShapeInv, NumbersInv, [Next]_vars
    PROVE  NumbersInv'
<1>1. ASSUME UNCHANGED <<seq, ring, w>> PROVE NumbersInv'
  BY <1>1, NumbersKept
<1>2. ASSUME NEW k \in Workers, Worker(k) PROVE NumbersInv'
  <2>1. ASSUME NEW rec, Step(k, rec), rec.pc # "send", w[k].pc # "send", UNCHANGED <<seq, ring>>
        PROVE  NumbersInv'
    <3>1. w'[k] = rec /\ \A u \in Workers \ {k} : w'[u] = w[u]
      BY <2>1, StepSplit DEF ShapeInv
    <3> QED
      BY <2>1, <3>1, NumbersKept
  <2>2. CASE \E raw \in Raws : Recv(k, raw)
    <3>1. w[k].pc = "recv" /\ UNCHANGED <<seq, ring>>
      BY <2>2 DEF Recv, laneVars
    <3>2. w' = w \/ \E rec : Step(k, rec) /\ rec.pc \in {"gate", "lookup"}
      BY <2>2, WorkerMoves
    <3> QED
      BY <1>1, <2>1, <3>1, <3>2
  <2>3. CASE Lookup(k) \/ Evaluate(k) \/ GateWindow(k) \/ GateCount(k) \/ Act(k)
    <3>1. w[k].pc # "send" /\ UNCHANGED <<seq, ring>>
      BY <2>3 DEF Lookup, Evaluate, GateWindow, GateCount, Act, laneVars
    <3>2. \E rec : Step(k, rec) /\ rec.pc \in {"finish", "evaluate", "gate", "act", "count", "recv"}
      BY <2>3, WorkerMoves
    <3> QED
      BY <2>1, <3>1, <3>2
  <2>4. CASE Stop(k)
    BY <2>1, <2>4 DEF Stop, laneVars
  <2> QED
    BY <1>2, <2>2, <2>3, <2>4, FinishNumbers, SendNumbers DEF Worker
<1>3. ASSUME Subscribe \/ (\E l \in 1..MaxLanes : RecvLane(l)) \/ Shutdown \/ Maintenance \/ Tick
             \/ (\E ip, token : AdminUnban(ip, token)) \/ (\E file : Reload(file))
             \/ UNCHANGED vars
      PROVE  NumbersInv'
  BY <1>1, <1>3 DEF Subscribe, RecvLane, Shutdown, Maintenance, Tick, AdminUnban, Reload,
                    laneVars, vars
<1> QED
  BY <1>2, <1>3 DEF Next

\* RecvError::Lagged: the lane goes on with a later packet and counts what it skips.
LEMMA LagKept ==
    ASSUME NEW r \in Seq(Nat), NEW lane, LaneOK(lane, r),
           NEW o \in Nat, lane.next < o, o <= Len(r)
    PROVE  LaneOK([lane EXCEPT !.next = o, !.lagged = @ + (o - lane.next)], r)
<1> DEFINE m == [lane EXCEPT !.next = o, !.lagged = @ + (o - lane.next)]
<1>0. Len(r) \in Nat /\ lane \in Lane
  BY DEF LaneOK
<1>1. lane.next \in Nat /\ lane.from \in Nat /\ lane.lagged \in Nat /\ lane.delivered \in Seq(Nat)
  BY <1>0 DEF Lane
<1>2. m \in Lane
  <2>1. lane.lagged + (o - lane.next) \in Nat
    BY <1>1
  <2>2. PICK g \in Nat : g = lane.lagged + (o - lane.next)
    BY <2>1
  <2>3. [lane EXCEPT !.next = o, !.lagged = g] \in Lane
    BY <1>0 DEF Lane
  <2> QED
    BY <2>2, <2>3
<1>3. /\ m.next = o /\ m.from = lane.from /\ m.delivered = lane.delivered
      /\ m.lagged = lane.lagged + (o - lane.next)
  BY <1>0 DEF Lane
<1> HIDE DEF m
<1>4. m.next \in 1..(Len(r) + 1)
  BY <1>0, <1>1, <1>3
<1>5. m.next - 1 - m.from = Len(m.delivered) + m.lagged
  <2>1. Len(lane.delivered) \in Nat
    BY <1>1
  <2>2. lane.next - 1 - lane.from = Len(lane.delivered) + lane.lagged
    BY DEF LaneOK
  <2>3. o - 1 - lane.from = Len(lane.delivered) + (lane.lagged + (o - lane.next))
    <3>1. PICK n \in Nat, f \in Nat, d \in Nat, g \in Nat :
             n = lane.next /\ f = lane.from /\ d = Len(lane.delivered) /\ g = lane.lagged
      BY <1>1, <2>1
    <3>2. n - 1 - f = d + g
      BY <2>2, <3>1, Zenon
    <3>3. o - 1 - f = d + (g + (o - n))
      BY <3>2
    <3> QED
      BY <3>1, <3>3, Zenon
  <2> QED
    BY <1>3, <2>3
<1>6. \A i \in DOMAIN m.delivered : \E j \in 1..(m.next - 1) : m.delivered[i] = r[j]
  <2>1. 1..(lane.next - 1) \subseteq 1..(m.next - 1)
    BY <1>1, <1>3
  <2> QED
    BY <1>3, <2>1 DEF LaneOK
<1>7. \A i, j \in DOMAIN m.delivered : m.delivered[i] = m.delivered[j] => i = j
  BY <1>3 DEF LaneOK
<1> QED
  BY <1>2, <1>4, <1>5, <1>6, <1>7 DEF LaneOK, m

\* recv: the lane takes the packet at its position.
LEMMA DeliverKept ==
    ASSUME NEW r \in Seq(Nat), \A i, j \in DOMAIN r : r[i] = r[j] => i = j,
           NEW lane, LaneOK(lane, r), lane.next <= Len(r)
    PROVE  LaneOK([lane EXCEPT !.next = @ + 1, !.delivered = Append(@, r[lane.next])], r)
<1> DEFINE m == [lane EXCEPT !.next = @ + 1, !.delivered = Append(@, r[lane.next])]
           n == lane.next
           d == lane.delivered
<1>0. Len(r) \in Nat /\ DOMAIN r = 1..Len(r) /\ lane \in Lane
  BY DEF LaneOK
<1>1. n \in 1..Len(r) /\ n \in Nat /\ lane.from \in Nat /\ lane.lagged \in Nat /\ d \in Seq(Nat)
  BY <1>0 DEF Lane, LaneOK
<1>2. r[n] \in Nat
  BY <1>0, <1>1
<1>3. /\ Append(d, r[n]) \in Seq(Nat)
      /\ Len(Append(d, r[n])) = Len(d) + 1
      /\ \A i \in 1..Len(d) : Append(d, r[n])[i] = d[i]
      /\ Append(d, r[n])[Len(d) + 1] = r[n]
      /\ DOMAIN Append(d, r[n]) = 1..(Len(d) + 1)
      /\ DOMAIN d = 1..Len(d) /\ Len(d) \in Nat
  BY <1>1, <1>2, RingAppend
<1>4. m \in Lane
  <2>1. n + 1 \in Nat
    BY <1>1
  <2>2. PICK x \in Nat, a \in Seq(Nat) : x = n + 1 /\ a = Append(d, r[n])
    BY <1>3, <2>1
  <2>3. [lane EXCEPT !.next = x, !.delivered = a] \in Lane
    BY <1>0 DEF Lane
  <2> QED
    BY <2>2, <2>3
<1>5. /\ m.next = n + 1 /\ m.from = lane.from /\ m.delivered = Append(d, r[n])
      /\ m.lagged = lane.lagged
  BY <1>0 DEF Lane
<1>6. n - 1 - lane.from = Len(d) + lane.lagged
  BY DEF LaneOK
<1>7. \A i \in 1..Len(d) : \E j \in 1..(n - 1) : d[i] = r[j]
  BY <1>3 DEF LaneOK
<1>8. \A i, j \in 1..Len(d) : d[i] = d[j] => i = j
  BY <1>3 DEF LaneOK
<1> HIDE DEF m, n, d
<1>9. m.next \in 1..(Len(r) + 1)
  BY <1>0, <1>1, <1>5
<1>10. m.next - 1 - m.from = Len(m.delivered) + m.lagged
  <2>1. (n + 1) - 1 - lane.from = (Len(d) + 1) + lane.lagged
    <3>1. PICK x \in Nat, f \in Nat, c \in Nat, g \in Nat :
             x = n /\ f = lane.from /\ c = Len(d) /\ g = lane.lagged
      BY <1>1, <1>3
    <3>2. x - 1 - f = c + g
      BY <1>6, <3>1, Zenon
    <3>3. (x + 1) - 1 - f = (c + 1) + g
      BY <3>2
    <3> QED
      BY <3>1, <3>3, Zenon
  <2> QED
    BY <1>3, <1>5, <2>1
<1>11. \A i \in DOMAIN m.delivered : \E j \in 1..(m.next - 1) : m.delivered[i] = r[j]
  <2> SUFFICES ASSUME NEW i \in 1..(Len(d) + 1)
               PROVE  \E j \in 1..n : Append(d, r[n])[i] = r[j]
    BY <1>1, <1>3, <1>5
  <2>1. CASE i = Len(d) + 1
    BY <1>1, <1>3, <2>1
  <2>2. CASE i \in 1..Len(d)
    <3>1. PICK j \in 1..(n - 1) : d[i] = r[j]
      BY <1>7, <2>2
    <3> QED
      BY <1>1, <1>3, <2>2, <3>1
  <2> QED
    BY <1>3, <2>1, <2>2
<1>12. \A i, j \in DOMAIN m.delivered : m.delivered[i] = m.delivered[j] => i = j
  <2>1. \A i \in 1..Len(d) : d[i] # r[n]
    <3> SUFFICES ASSUME NEW i \in 1..Len(d), d[i] = r[n] PROVE FALSE
      OBVIOUS
    <3>1. PICK j \in 1..(n - 1) : d[i] = r[j]
      BY <1>7
    <3>2. j \in 1..Len(r) /\ j # n
      BY <1>0, <1>1, <3>1
    <3> QED
      BY <1>0, <1>1, <3>1, <3>2
  <2> SUFFICES ASSUME NEW i \in 1..(Len(d) + 1), NEW j \in 1..(Len(d) + 1),
                      Append(d, r[n])[i] = Append(d, r[n])[j]
               PROVE  i = j
    BY <1>3, <1>5
  <2> QED
    BY <1>3, <1>8, <2>1
<1> QED
  BY <1>4, <1>9, <1>10, <1>11, <1>12 DEF LaneOK, m

LEMMA LaneStep ==
    ASSUME ShapeInv, NumbersInv, LaneInv, [Next]_vars
    PROVE  LaneInv'
<1>0. /\ ring \in Seq(Nat) /\ Len(ring) \in Nat /\ DOMAIN ring = 1..Len(ring)
      /\ \A i, j \in DOMAIN ring : ring[i] = ring[j] => i = j
      /\ lanes \in Seq(Lane) /\ DOMAIN lanes = 1..Len(lanes) /\ Len(lanes) \in Nat
      /\ \A l \in DOMAIN lanes : LaneOK(lanes[l], ring)
  BY DEF NumbersInv, LaneInv
<1>1. ASSUME UNCHANGED <<ring, lanes>> PROVE LaneInv'
  BY <1>1 DEF LaneInv
<1>2. ASSUME NEW k \in Workers, Send(k) PROVE LaneInv'
  <2> DEFINE n == w[k].seq
  <2>1. n \in Nat /\ ring' = Append(ring, n) /\ lanes' = lanes
    BY <1>2, Positions DEF ShapeInv, Sending, Send
  <2> HIDE DEF n
  <2>2. \A lane : LaneOK(lane, ring) => LaneOK(lane, ring')
    BY <1>0, <2>1, RingAppend
  <2> QED
    BY <1>0, <2>1, <2>2 DEF LaneInv
<1>3. ASSUME Subscribe PROVE LaneInv'
  <2> DEFINE lane == [from |-> Len(ring), next |-> Len(ring) + 1, delivered |-> <<>>, lagged |-> 0]
  <2>1. lanes' = Append(lanes, lane) /\ ring' = ring
    BY <1>3 DEF Subscribe
  <2>2. lane \in Lane
    BY <1>0 DEF Lane
  <2>3. LaneOK(lane, ring)
    <3>1. lane.delivered = <<>> /\ lane.next = Len(ring) + 1 /\ lane.from = Len(ring)
          /\ lane.lagged = 0 /\ Len(<<>>) = 0 /\ DOMAIN <<>> = {}
      OBVIOUS
    <3> HIDE DEF lane
    <3> QED
      BY <1>0, <2>2, <3>1 DEF LaneOK
  <2> HIDE DEF lane
  <2>4. /\ lanes' \in Seq(Lane) /\ Len(lanes') = Len(lanes) + 1
        /\ \A l \in 1..Len(lanes) : lanes'[l] = lanes[l]
        /\ lanes'[Len(lanes) + 1] = lane
    BY <1>0, <2>1, <2>2, AppendProperties
  <2>5. DOMAIN lanes' = 1..(Len(lanes) + 1)
    BY <2>4
  <2> QED
    BY <1>0, <2>1, <2>3, <2>4, <2>5 DEF LaneInv
<1>4. ASSUME NEW l, RecvLane(l) PROVE LaneInv'
  <2> DEFINE lane == lanes[l]
             m == IF lane.next < Oldest THEN Lagged(lane)
                  ELSE [lane EXCEPT !.next = @ + 1, !.delivered = Append(@, ring[lane.next])]
  <2>1. /\ l \in DOMAIN lanes /\ lane.next <= Len(ring) /\ ring' = ring
        /\ lanes' = [lanes EXCEPT ![l] = m]
    BY <1>4 DEF RecvLane
  <2>2. LaneOK(lane, ring)
    BY <1>0, <2>1
  <2>3. LaneOK(m, ring)
    <3>1. CASE lane.next < Oldest
      <4>1. Oldest \in Nat /\ Oldest <= Len(ring)
        <5>1. LaneCapacity \in Nat \ {0}
          BY PacketPathAssumption
        <5>2. lane.next \in Nat \ {0}
          BY <2>2 DEF LaneOK, Lane
        <5> QED
          BY <1>0, <2>1, <3>1, <5>1, <5>2 DEF Oldest
      <4>2. m = [lane EXCEPT !.next = Oldest, !.lagged = @ + (Oldest - lane.next)]
        BY <3>1 DEF Lagged
      <4>3. PICK o \in Nat : o = Oldest
        BY <4>1
      <4>4. LaneOK([lane EXCEPT !.next = o, !.lagged = @ + (o - lane.next)], ring)
        <5>1. lane.next < o /\ o <= Len(ring)
          BY <3>1, <4>1, <4>3
        <5> HIDE DEF lane
        <5> QED
          BY <1>0, <2>2, <5>1, LagKept
      <4> QED
        BY <4>2, <4>3, <4>4
    <3>2. CASE ~(lane.next < Oldest)
      BY <1>0, <2>1, <2>2, <3>2, DeliverKept
    <3> QED
      BY <3>1, <3>2
  <2>4. m \in Lane
    BY <2>3 DEF LaneOK
  <2> HIDE DEF m
  <2>5. lanes' \in Seq(Lane) /\ DOMAIN lanes' = DOMAIN lanes
        /\ \A j \in DOMAIN lanes : lanes'[j] = IF j = l THEN m ELSE lanes[j]
    BY <1>0, <2>1, <2>4
  <2> QED
    BY <1>0, <2>1, <2>3, <2>5 DEF LaneInv
<1>5. ASSUME NEW k \in Workers, Worker(k) PROVE LaneInv'
  BY <1>1, <1>2, <1>5 DEF Worker, Recv, Lookup, Evaluate, GateWindow, GateCount, Act, Finish, Stop,
                          laneVars
<1>6. ASSUME Shutdown \/ Maintenance \/ Tick \/ (\E ip, token : AdminUnban(ip, token))
             \/ (\E file : Reload(file)) \/ UNCHANGED vars
      PROVE  LaneInv'
  BY <1>1, <1>6 DEF Shutdown, Maintenance, Tick, AdminUnban, Reload, laneVars, vars
<1> QED
  BY <1>3, <1>4, <1>5, <1>6 DEF Next

\* submit and recv_lane: whatever the workers interleave and however far a lane falls
\* behind, it received each packet at most once and in all as many as it neither waits for
\* nor counted as lagged, and every number drawn was broadcast or is in a worker's hands;
\* for every number of workers and lanes and every capacity.
THEOREM LanesAccounted == Spec => []LaneAccounting
<1>1. Init => ShapeInv /\ NumbersInv /\ LaneInv
  <2> SUFFICES ASSUME Init PROVE NumbersInv /\ LaneInv
    BY ShapeInit
  <2>1. \A k \in Workers : w[k].pc # "send"
    BY DEF Init, Idle
  <2>2. InHand = {} /\ Sent(ring) = {} /\ 0..(seq - 1) = {}
    BY <2>1 DEF Init, InHand, Sent
  <2>3. NumbersInv
    BY <2>1, <2>2 DEF Init, NumbersInv
  <2> QED
    BY <2>3 DEF Init, LaneInv
<1>2. ShapeInv /\ NumbersInv /\ LaneInv /\ [Next]_vars => (ShapeInv /\ NumbersInv /\ LaneInv)'
  BY ShapeStep, NumbersStep, LaneStep
<1>3. NumbersInv /\ LaneInv => LaneAccounting
  BY DEF NumbersInv, LaneInv, LaneAccounting, LaneOK, Sent, InHand
<1> QED
  BY <1>1, <1>2, <1>3, PTL DEF Spec

---------------------------------------------------------------------------
(* Automatic blocks                                                        *)

Srcs == {pkt.src : pkt \in Pkts}

Hit == Nat \X Srcs \X Nat

\* The matches of a source with a rule since a time.
Hits(hs, i, ip, from) == {k \in DOMAIN hs : hs[k][1] = i /\ hs[k][2] = ip /\ hs[k][3] >= from}

\* A count is of matches that happened, since the start of its window and under this engine.
CountOK(c, hs, i, ip) ==
    /\ c \in [n : Nat, start : Nat]
    /\ c.n <= Cardinality(Hits(hs, i, ip, c.start))

CountInv ==
    /\ hits \in Seq(Hit)
    /\ \A i \in Nat, ip \in Srcs : <<i, ip>> \in DOMAIN counts =>
         CountOK(counts[<<i, ip>>], hits, i, ip) /\ counts[<<i, ip>>].start <= now
    /\ BanEarned

LEMMA HitsFinite ==
    ASSUME NEW hs \in Seq(Hit), NEW i, NEW ip, NEW from
    PROVE  /\ IsFiniteSet(Hits(hs, i, ip, from))
           /\ Cardinality(Hits(hs, i, ip, from)) \in Nat
<1>1. IsFiniteSet(1..Len(hs))
  BY FS_Interval
<1>2. Hits(hs, i, ip, from) \subseteq 1..Len(hs)
  BY DEF Hits
<1> QED
  BY <1>1, <1>2, FS_Subset, FS_CardinalityType

\* A further match takes none away, and is one more where it belongs.
LEMMA HitsAppend ==
    ASSUME NEW hs \in Seq(Hit), NEW h \in Hit, NEW i, NEW ip, NEW from \in Nat
    PROVE  /\ Append(hs, h) \in Seq(Hit)
           /\ Cardinality(Hits(hs, i, ip, from)) <= Cardinality(Hits(Append(hs, h), i, ip, from))
           /\ h[1] = i /\ h[2] = ip /\ h[3] >= from =>
                Cardinality(Hits(Append(hs, h), i, ip, from)) = Cardinality(Hits(hs, i, ip, from)) + 1
<1> DEFINE more == Append(hs, h)
           n == Len(hs) + 1
           A == Hits(hs, i, ip, from)
           B == Hits(more, i, ip, from)
<1>1. /\ more \in Seq(Hit) /\ Len(more) = n
      /\ \A k \in 1..Len(hs) : more[k] = hs[k]
      /\ more[n] = h
  BY AppendProperties
<1>2. DOMAIN more = 1..n /\ DOMAIN hs = 1..Len(hs) /\ Len(hs) \in Nat
  BY <1>1
<1>3. IsFiniteSet(A) /\ IsFiniteSet(B)
  BY <1>1, HitsFinite
<1> HIDE DEF more
<1>4. A \subseteq B /\ n \notin A
  BY <1>1, <1>2 DEF Hits
<1>5. Cardinality(A) <= Cardinality(B)
  BY <1>3, <1>4, FS_Subset
<1>6. ASSUME h[1] = i, h[2] = ip, h[3] >= from PROVE Cardinality(B) = Cardinality(A) + 1
  <2>1. B = A \union {n}
    BY <1>1, <1>2, <1>6 DEF Hits
  <2> QED
    BY <1>3, <1>4, <2>1, FS_AddElement
<1> QED
  BY <1>1, <1>5, <1>6 DEF more

\* The rule that decides is one of the file.
LEMMA DecidingRule ==
    ASSUME NEW cfg \in ConfigFiles, NEW pkt, Deciding(cfg, pkt) # 0
    PROVE  /\ Deciding(cfg, pkt) \in DOMAIN cfg.rules
           /\ Deciding(cfg, pkt) \in Nat
           /\ cfg.rules[Deciding(cfg, pkt)].threshold \in Nat
           /\ cfg.rules[Deciding(cfg, pkt)].window \in Nat
<1> DEFINE S == Matching(cfg, pkt, Candidates(cfg, pkt))
<1>1. S \subseteq DOMAIN cfg.rules
  BY DEF Matching, Candidates, ExactIndex, WildcardRules
<1>2. DOMAIN cfg.rules \subseteq Nat
  BY PacketPathAssumption
<1> HIDE DEF S
<1>3. S # {} /\ Deciding(cfg, pkt) = CHOOSE i \in S : \A j \in S : i <= j
  BY DEF Deciding, First, S
<1>4. \E i \in S : \A j \in S : i <= j
  <2> DEFINE R == {p \in Nat \X Nat : p[1] < p[2]}
  <2>1. IsWellFoundedOn(R, Nat)
    BY NatLessThanWellFounded DEF OpToRel
  <2>2. PICK i \in S : \A j \in S : ~(<<j, i>> \in R)
    <3> HIDE DEF R
    <3> QED
      BY <1>1, <1>2, <1>3, <2>1, WFMin
  <2>3. ASSUME NEW j \in S, j < i PROVE FALSE
    <3>1. <<j, i>> \in Nat \X Nat /\ <<j, i>>[1] < <<j, i>>[2]
      BY <1>1, <1>2, <2>3
    <3> QED
      BY <2>2, <3>1
  <2> QED
    BY <1>1, <1>2, <2>3
<1>5. Deciding(cfg, pkt) \in DOMAIN cfg.rules
  BY <1>1, <1>3, <1>4
<1> QED
  BY <1>2, <1>5, PacketPathAssumption

\* The window a match falls into is not over, and its count is of matches in it.
LEMMA WindowEarned ==
    ASSUME ShapeInv, CountInv, NEW i \in Nat, NEW ip \in Srcs, NEW window \in Nat
    PROVE  \E c : /\ CountOK(c, hits, i, ip)
                  /\ c.start <= now /\ now - c.start <= window
                  /\ Counted(i, ip, window) = [n |-> c.n + 1, start |-> c.start]
<1> DEFINE old == IF <<i, ip>> \in DOMAIN counts THEN counts[<<i, ip>>] ELSE [n |-> 0, start |-> now]
           c == WindowCount(old, window)
           new == [n |-> 0, start |-> now]
<1>0. now \in Nat /\ hits \in Seq(Hit)
  BY DEF ShapeInv, CountInv
<1>1. CountOK(new, hits, i, ip)
  <2>1. new \in [n : Nat, start : Nat] /\ new.n = 0
    BY <1>0
  <2> QED
    BY <1>0, <2>1, HitsFinite DEF CountOK
<1>2. CountOK(old, hits, i, ip) /\ old.start <= now
  BY <1>0, <1>1 DEF CountInv
<1>3. Counted(i, ip, window) = [c EXCEPT !.n = @ + 1]
  BY DEF Counted
<1> HIDE DEF old
<1>4. CountOK(c, hits, i, ip) /\ c.start <= now /\ now - c.start <= window
  <2>1. CASE now - old.start > window
    <3>1. c = new
      BY <2>1 DEF WindowCount
    <3>2. new.start <= now /\ now - new.start <= window
      BY <1>0
    <3> QED
      BY <1>1, <3>1, <3>2
  <2>2. CASE ~(now - old.start > window)
    <3>1. c = old
      BY <2>2 DEF WindowCount
    <3>2. old.start \in Nat
      BY <1>2 DEF CountOK
    <3>3. now - old.start <= window
      BY <1>0, <2>2, <3>2
    <3> QED
      BY <1>2, <3>1, <3>3
  <2> QED
    BY <2>1, <2>2
<1> HIDE DEF c
<1>5. [c EXCEPT !.n = @ + 1] = [n |-> c.n + 1, start |-> c.start]
  BY <1>4 DEF CountOK
<1> QED
  BY <1>3, <1>4, <1>5

\* gate_auto_block: what it counts happened, and a block it orders is earned.
LEMMA GateAutoBlockCounts ==
    ASSUME ShapeInv, CountInv, NEW i \in Nat, NEW ip \in Srcs, NEW rule,
           rule.threshold \in Nat, rule.window \in Nat, GateAutoBlock(i, rule, ip), now' = now
    PROVE  CountInv'
<1>0. now \in Nat /\ hits \in Seq(Hit)
  BY DEF ShapeInv, CountInv
<1>1. CASE rule.blockSecs = 0
  BY <1>1 DEF GateAutoBlock, CountInv, BanEarned
<1>2. CASE rule.blockSecs # 0
  <2>1. PICK c : /\ CountOK(c, hits, i, ip)
                 /\ c.start <= now /\ now - c.start <= rule.window
                 /\ Counted(i, ip, rule.window) = [n |-> c.n + 1, start |-> c.start]
    BY WindowEarned
  <2> DEFINE h == <<i, ip, now>>
             counted == [n |-> c.n + 1, start |-> c.start]
             new == [n |-> 0, start |-> now]
             had == Cardinality({k \in DOMAIN hits' : /\ hits'[k][1] = i /\ hits'[k][2] = ip
                                                      /\ now - hits'[k][3] <= rule.window})
  <2>2. h \in Hit /\ h[1] = i /\ h[2] = ip /\ h[3] = now
    BY <1>0 DEF Hit
  <2>3. hits' = Append(hits, h)
    BY <1>2 DEF GateAutoBlock
  <2>4. hits' \in Seq(Hit)
    BY <1>0, <2>2, <2>3, HitsAppend
  <2>5. c.n \in Nat /\ c.start \in Nat /\ c.n <= Cardinality(Hits(hits, i, ip, c.start))
    BY <2>1 DEF CountOK
  \* Counts that were right still are.
  <2>6. ASSUME NEW d, NEW j, NEW q, CountOK(d, hits, j, q) PROVE CountOK(d, hits', j, q)
    <3>1. PICK from \in Nat, n \in Nat : d.start = from /\ d.n = n
      BY <2>6 DEF CountOK
    <3>2. Cardinality(Hits(hits, j, q, from)) <= Cardinality(Hits(hits', j, q, from))
      BY <1>0, <2>2, <2>3, HitsAppend
    <3>3. Cardinality(Hits(hits, j, q, from)) \in Nat /\ Cardinality(Hits(hits', j, q, from)) \in Nat
      BY <1>0, <2>4, HitsFinite
    <3>4. n <= Cardinality(Hits(hits, j, q, from))
      BY <2>6, <3>1 DEF CountOK
    <3>5. n <= Cardinality(Hits(hits', j, q, from))
      BY <3>2, <3>3, <3>4
    <3> QED
      BY <2>6, <3>1, <3>5 DEF CountOK
  \* So is a count that starts afresh, and one with this match in it.
  <2>7. CountOK(new, hits', i, ip)
    <3>1. new \in [n : Nat, start : Nat] /\ new.n = 0
      BY <1>0
    <3> QED
      BY <2>4, <3>1, HitsFinite DEF CountOK
  <2>8. PICK from \in Nat, n \in Nat : c.start = from /\ c.n = n
    BY <2>5
  <2>9. /\ n + 1 <= Cardinality(Hits(hits', i, ip, from))
        /\ Cardinality(Hits(hits', i, ip, from)) \in Nat
    <3>1. now >= from
      BY <1>0, <2>1, <2>8
    <3>2. Cardinality(Hits(hits', i, ip, from)) = Cardinality(Hits(hits, i, ip, from)) + 1
      BY <1>0, <2>2, <2>3, <3>1, HitsAppend
    <3>3. Cardinality(Hits(hits, i, ip, from)) \in Nat
      BY <1>0, HitsFinite
    <3> QED
      BY <2>5, <2>8, <3>2, <3>3
  <2>10. CountOK(counted, hits', i, ip)
    <3>1. counted \in [n : Nat, start : Nat] /\ counted.n = n + 1 /\ counted.start = from
      BY <2>8
    <3> QED
      BY <2>9, <3>1 DEF CountOK
  \* The matches in the rule's window are at least the counted ones.
  <2>11. n + 1 <= had /\ had \in Nat
    <3> DEFINE H == {k \in DOMAIN hits' : /\ hits'[k][1] = i /\ hits'[k][2] = ip
                                          /\ now - hits'[k][3] <= rule.window}
    <3>1. Hits(hits', i, ip, from) \subseteq H
      <4>1. \A k \in DOMAIN hits' : hits'[k][3] \in Nat
        BY <2>4 DEF Hit
      <4>2. now - from <= rule.window
        BY <2>1, <2>8
      <4> QED
        BY <1>0, <4>1, <4>2 DEF Hits
    <3>2. IsFiniteSet(H)
      <4>1. H \subseteq DOMAIN hits'
        OBVIOUS
      <4>2. DOMAIN hits' = 1..Len(hits') /\ Len(hits') \in Nat
        BY <2>4
      <4>3. IsFiniteSet(1..Len(hits'))
        BY <4>2, FS_Interval
      <4> HIDE DEF H
      <4> QED
        BY <4>1, <4>2, <4>3, FS_Subset
    <3> HIDE DEF H
    <3>3. Cardinality(Hits(hits', i, ip, from)) <= Cardinality(H) /\ Cardinality(H) \in Nat
      BY <3>1, <3>2, FS_Subset, FS_CardinalityType
    <3>4. had = Cardinality(H)
      BY DEF H
    <3> HIDE DEF had
    <3> QED
      BY <2>9, <3>3, <3>4
  <2> HIDE DEF had
  <2>12. BanEarned'
    <3>1. earned' = IF Reached(i, rule, ip)
                    THEN earned \union {[need |-> rule.threshold, had |-> had]} ELSE earned
      BY <1>2 DEF GateAutoBlock, had
    <3>2. Reached(i, rule, ip) => rule.threshold <= n + 1
      <4>1. counted.n = n + 1
        BY <2>8
      <4>2. Reached(i, rule, ip) => rule.threshold <= 1 \/ n + 1 >= rule.threshold
        BY <2>1, <4>1 DEF Reached
      <4> QED
        BY <4>2
    <3>3. Reached(i, rule, ip) => had >= rule.threshold
      BY <2>11, <3>2
    <3> QED
      BY <3>1, <3>3 DEF CountInv, BanEarned
  <2>13. ASSUME NEW j \in Nat, NEW q \in Srcs, <<j, q>> \in DOMAIN counts'
         PROVE  CountOK(counts'[<<j, q>>], hits', j, q) /\ counts'[<<j, q>>].start <= now
    <3>1. CASE counts' = counts
      BY <2>6, <2>13, <3>1 DEF CountInv
    <3>2. CASE \E v \in {new, counted} : counts' = Put(counts, <<i, ip>>, v)
      <4>1. PICK v \in {new, counted} : counts' = Put(counts, <<i, ip>>, v)
        BY <3>2
      <4>2. CASE <<j, q>> = <<i, ip>>
        <5>1. counts'[<<j, q>>] = v /\ j = i /\ q = ip
          BY <4>1, <4>2 DEF Put
        <5>2. new.start = now /\ counted.start = c.start
          OBVIOUS
        <5>3. new.start <= now /\ counted.start <= now
          BY <1>0, <2>1, <5>2
        <5> QED
          BY <2>7, <2>10, <5>1, <5>3
      <4>3. CASE <<j, q>> # <<i, ip>>
        <5>1. <<j, q>> \in DOMAIN counts /\ counts'[<<j, q>>] = counts[<<j, q>>]
          BY <2>13, <4>1, <4>3 DEF Put
        <5> QED
          BY <2>6, <5>1 DEF CountInv
      <4> QED
        BY <4>2, <4>3
    <3> QED
      BY <1>2, <2>1, <3>1, <3>2 DEF GateAutoBlock
  <2> QED
    BY <2>4, <2>12, <2>13 DEF CountInv
<1> QED
  BY <1>1, <1>2

LEMMA CountStep ==
    ASSUME ShapeInv, CountInv, [Next]_vars
    PROVE  CountInv'
<1>0. now \in Nat /\ hits \in Seq(Hit)
  BY DEF ShapeInv, CountInv
<1>1. ASSUME UNCHANGED <<now, hits, counts, earned>> PROVE CountInv'
  BY <1>1 DEF CountInv, BanEarned
<1>2. ASSUME NEW k \in Workers, Evaluate(k) PROVE CountInv'
  <2> DEFINE pkt == w[k].pkt
             i == Deciding(engine, pkt)
             rule == engine.rules[i]
  <2>1. now' = now
    BY <1>2 DEF Evaluate
  <2>2. \/ UNCHANGED <<counts, hits, earned>>
        \/ i # 0 /\ GateAutoBlock(i, rule, pkt.src)
    BY <1>2 DEF Evaluate
  <2>3. pkt \in Pkts /\ pkt.src \in Srcs /\ engine \in ConfigFiles
    BY <1>2, Positions DEF ShapeInv, Evaluate, Holding, Srcs
  <2>4. CASE i # 0 /\ GateAutoBlock(i, rule, pkt.src)
    <3>1. i \in Nat /\ rule.threshold \in Nat /\ rule.window \in Nat
      BY <2>3, <2>4, DecidingRule
    <3> HIDE DEF i, pkt, rule
    <3> QED
      BY <2>1, <2>3, <2>4, <3>1, GateAutoBlockCounts
  <2> QED
    BY <1>1, <2>1, <2>2, <2>4
<1>3. ASSUME NEW k \in Workers, Worker(k) PROVE CountInv'
  <2>1. CASE (\E raw \in Raws : Recv(k, raw)) \/ Lookup(k) \/ GateWindow(k) \/ GateCount(k) \/ Act(k)
             \/ Finish(k) \/ Send(k) \/ Stop(k)
    BY <1>1, <2>1 DEF Recv, Lookup, GateWindow, GateCount, Act, Finish, Send, Stop, fwVars, histVars
  <2> QED
    BY <1>2, <1>3, <2>1 DEF Worker
<1>4. ASSUME NEW file, Reload(file) PROVE CountInv'
  <2>1. now' = now /\ earned' = earned
    BY <1>4 DEF Reload
  <2>2. CASE UNCHANGED <<counts, hits>>
    BY <1>1, <2>1, <2>2
  <2>3. CASE counts' = <<>> /\ hits' = <<>>
    BY <2>1, <2>3 DEF CountInv, BanEarned
  <2> QED
    BY <1>4, <2>2, <2>3 DEF Reload
<1>5. ASSUME Maintenance PROVE CountInv'
  <2>1. UNCHANGED <<now, hits, earned>>
    BY <1>5 DEF Maintenance, histVars
  <2>2. \A c \in DOMAIN counts' : c \in DOMAIN counts /\ counts'[c] = counts[c]
    BY <1>5 DEF Maintenance, Restrict
  <2> QED
    BY <2>1, <2>2 DEF CountInv, BanEarned
<1>6. ASSUME Tick PROVE CountInv'
  <2>1. now' = now + 1 /\ UNCHANGED <<hits, counts, earned>>
    BY <1>6 DEF Tick, fwVars, histVars
  <2>2. \A i \in Nat, ip \in Srcs : <<i, ip>> \in DOMAIN counts => counts[<<i, ip>>].start \in Nat
    BY DEF CountInv, CountOK
  <2>3. \A i \in Nat, ip \in Srcs : <<i, ip>> \in DOMAIN counts => counts[<<i, ip>>].start <= now + 1
    BY <1>0, <2>2 DEF CountInv
  <2> QED
    BY <2>1, <2>3 DEF CountInv, BanEarned
<1>7. ASSUME Subscribe \/ (\E l \in 1..MaxLanes : RecvLane(l)) \/ Shutdown
             \/ (\E ip, token : AdminUnban(ip, token)) \/ UNCHANGED vars
      PROVE  CountInv'
  BY <1>1, <1>7 DEF Subscribe, RecvLane, Shutdown, AdminUnban, fwVars, histVars, vars
<1> QED
  BY <1>3, <1>4, <1>5, <1>6, <1>7 DEF Next

\* threshold.rs, gate_auto_block: whatever workers, sweeps and reloads do to the counts, a
\* rule orders a block only after as many matches within its window as it asks for; for
\* every configuration file and every traffic.
THEOREM BansEarned == Spec => []BanEarned
<1>1. Init => ShapeInv /\ CountInv
  <2> SUFFICES ASSUME Init PROVE CountInv
    BY ShapeInit
  <2> QED
    BY DEF Init, CountInv, BanEarned
<1>2. ShapeInv /\ CountInv /\ [Next]_vars => (ShapeInv /\ CountInv)'
  BY ShapeStep, CountStep
<1>3. CountInv => BanEarned
  BY DEF CountInv
<1> QED
  BY <1>1, <1>2, <1>3, PTL DEF Spec
=============================================================================
