------------------------- MODULE EnforcementProofs -------------------------
(***************************************************************************)
(* Theorems about where a verdict ends: the orchestrator's containment     *)
(* playbook and rustwall's quarantine (Containment, Quarantine), for any   *)
(* sets of hosts, addresses and threads and any limits.                    *)
(***************************************************************************)
EXTENDS Containment, Quarantine, FiniteSetTheorems, SequenceTheorems, WellFoundedInduction,
        TLAPS

---------------------------------------------------------------------------
(* The types of the containment playbook                                   *)

LoopPcs == {"recv", "connect", "await", "load", "write", "rename", "signal", "record"}

LoopStates ==
    [pc : LoopPcs, host : Hosts \union {"none"}, xdp : BOOLEAN, fw : BOOLEAN, doc : Config]

NsmStates ==
    [up : BOOLEAN, blocked : SUBSET Hosts,
     conn : {"none", "sent", "read"} \union BlockReplies, closed : BOOLEAN]

WallStates == [rules : Config, refused : BOOLEAN, hup : BOOLEAN, known : BOOLEAN]

Histories ==
    [verdicts : Nat, exits : Nat, restarts : Nat, acts : Seq(0..MaxClock), synced : BOOLEAN]

\* Every variable of Containment has its type; a host that is acted on is one of the
\* hosts, and a command that nsm has not answered yet is awaited.
ContainmentTypeInv ==
    /\ clock \in 0..MaxClock
    /\ inbox \in Seq(Hosts) /\ Len(inbox) <= Capacity
    /\ task \in LoopStates
    /\ confirmed \subseteq Hosts /\ actioned \subseteq Hosts /\ threats \subseteq Hosts
    /\ recent \in Seq(0..MaxClock)
    /\ nsm \in NsmStates
    /\ conf \in Config /\ tmp \in Config
    /\ wall \in WallStates
    /\ past \in Histories
    /\ task.pc # "recv" => task.host \in Hosts
    /\ nsm.conn \in {"sent", "read"} => task.pc = "await"

LEMMA NoFileType == NoFile \in Config
BY DEF NoFile, Config, FileKinds

\* The alias of a document is all that upserted changes.
LEMMA UpsertedType ==
    ASSUME NEW doc \in Config, NEW hosts \in SUBSET Hosts
    PROVE  Upserted(doc, hosts) \in Config /\ Upserted(doc, hosts).alias = hosts
BY DEF Upserted, Config

\* AtReceive waits for a verdict with no host.
LEMMA AtReceiveType ==
    /\ AtReceive \in LoopStates
    /\ AtReceive.pc = "recv"
BY NoFileType DEF AtReceive, LoopStates, LoopPcs

---------------------------------------------------------------------------
(* What rate_limited leaves                                                *)

Sorted(s) == \A i, j \in 1..Len(s) : i <= j => s[i] <= s[j]

\* A set of numbers that is not empty has a least one.
LEMMA Smallest ==
    ASSUME NEW T, T \subseteq Nat, T # {}
    PROVE  \E n \in T : \A m \in T : n <= m
<1> DEFINE R == {p \in Nat \X Nat : p[1] < p[2]}
<1>0. IsWellFoundedOn(R, Nat)
  BY NatLessThanWellFounded DEF OpToRel
<1>1. PICK n \in T : \A m \in T : ~(<<m, n>> \in R)
  <2> HIDE DEF R
  <2> QED
    BY <1>0, WFMin
<1>2. ASSUME NEW m \in T, m < n PROVE FALSE
  <2>1. <<m, n>> \in Nat \X Nat /\ <<m, n>>[1] < <<m, n>>[2]
    BY <1>2
  <2> QED
    BY <1>1, <2>1
<1> QED
  BY <1>1, <1>2

LEMMA PrunedBackOfRecent ==
    ASSUME recent \in Seq(Nat), clock \in Nat, Window \in Nat, Sorted(recent)
    PROVE  \E k \in 0..Len(recent) :
             /\ Pruned \in Seq(Nat)
             /\ Len(Pruned) = Len(recent) - k
             /\ \A i \in 1..Len(Pruned) : Pruned[i] = recent[k + i]
             /\ \A i \in 1..k : clock - recent[i] >= Window
<1> DEFINE Gone == {i \in DOMAIN recent : clock - recent[i] >= Window}
           Fresh == {i \in 1..Len(recent) : ~(clock - recent[i] >= Window)}
<1>1. \E k \in 0..Len(recent) : Gone = 1..k
  <2>1. CASE Fresh = {}
    <3>1. Gone = 1..Len(recent)
      BY <2>1
    <3> QED
      BY <3>1
  <2>2. CASE Fresh # {}
    <3>1. PICK f \in Fresh : \A m \in Fresh : f <= m
      <4>1. Fresh \subseteq Nat
        OBVIOUS
      <4> HIDE DEF Fresh
      <4> QED
        BY <2>2, <4>1, Smallest
    <3>2. ASSUME NEW i \in 1..Len(recent) PROVE i \in Gone <=> i < f
      <4>1. CASE i < f
        BY <3>1, <4>1
      <4>2. CASE f <= i
        <5>1. recent[f] <= recent[i] /\ recent[f] \in Nat /\ recent[i] \in Nat
          BY <4>2 DEF Sorted
        <5> QED
          BY <4>2, <5>1
      <4> QED
        BY <4>1, <4>2
    <3>3. Gone = 1..(f - 1) /\ f - 1 \in 0..Len(recent)
      BY <3>1, <3>2
    <3> HIDE DEF Gone
    <3> QED
      BY <3>3
  <2> QED
    BY <2>1, <2>2
<1>2. PICK k \in 0..Len(recent) : Gone = 1..k
  BY <1>1
<1>3. Cardinality(1..k) = k
  BY FS_Interval
<1>4. Cardinality(Gone) = k
  BY <1>2, <1>3
<1>5. Pruned = SubSeq(recent, k + 1, Len(recent))
  BY <1>4 DEF Pruned
<1>6. \A i \in (k + 1)..Len(recent) : recent[i] \in Nat
  OBVIOUS
<1>7. /\ Pruned \in Seq(Nat)
      /\ Len(Pruned) = Len(recent) - k
      /\ \A i \in 1..Len(Pruned) : Pruned[i] = recent[k + i]
  BY <1>5, <1>6, SubSeqProperties
<1> QED
  BY <1>2, <1>7
\* It leaves nothing that was not there.
LEMMA PrunedType ==
    ASSUME recent \in Seq(0..MaxClock)
    PROVE  Pruned \in Seq(0..MaxClock)
<1>1. Len(recent) \in Nat /\ \A i \in 1..Len(recent) : recent[i] \in 0..MaxClock
  BY LenProperties, ElementOfSeq
<1> DEFINE n == Cardinality({i \in DOMAIN recent : clock - recent[i] >= Window})
<1>2. n \in Nat
  <2>1. IsFiniteSet(DOMAIN recent)
    <3>1. DOMAIN recent = 1..Len(recent)
      OBVIOUS
    <3> QED
      BY <3>1, <1>1, FS_Interval
  <2>2. IsFiniteSet({i \in DOMAIN recent : clock - recent[i] >= Window})
    BY <2>1, FS_Subset
  <2> QED
    BY <2>2, FS_CardinalityType
<1>3. Pruned = SubSeq(recent, n + 1, Len(recent))
  BY DEF Pruned
<1> HIDE DEF n
<1>4. \A i \in (n + 1)..Len(recent) : recent[i] \in 0..MaxClock
  BY <1>1, <1>2
<1> QED
  BY <1>2, <1>3, <1>4, SubSeqProperties

---------------------------------------------------------------------------
(* Type correctness and the rate of the actions                            *)

\* The orchestrator's steps keep the types.
LEMMA StepType ==
    ASSUME ContainmentTypeInv, Step
    PROVE  ContainmentTypeInv'
<1> USE DEF ContainmentTypeInv, LoopStates, NsmStates, WallStates, Histories, LoopPcs
<1>1. ASSUME NEW cleared \in BOOLEAN, NEW severe \in BOOLEAN, Receive(cleared, severe)
      PROVE  ContainmentTypeInv'
  <2>1. inbox' \in Seq(Hosts) /\ Len(inbox') <= Capacity /\ Head(inbox) \in Hosts
    <3>1. inbox # <<>> /\ inbox' = Tail(inbox) /\ Capacity \in Nat
      BY <1>1, ContainmentAssumption DEF Receive
    <3>2. Head(inbox) \in Hosts /\ Tail(inbox) \in Seq(Hosts) /\ Len(Tail(inbox)) = Len(inbox) - 1
      BY <3>1
    <3> QED
      BY <3>1, <3>2
  <2>2. Pruned \in Seq(0..MaxClock)
    BY PrunedType
  <2>3. task' = task \/ task' = [task EXCEPT !.pc = "connect", !.host = Head(inbox)]
    BY <1>1 DEF Receive
  <2>4. recent' = recent \/ recent' = Pruned
    BY <1>1 DEF Receive
  <2>5. nsm.conn \notin {"sent", "read"}
    BY <1>1 DEF Receive
  <2>6. UNCHANGED <<clock, confirmed, actioned, threats, nsm, conf, tmp, wall, past>>
    BY <1>1 DEF Receive
  <2> QED
    <3>1. task' \in LoopStates
          /\ (task'.pc # "recv" => task'.host \in Hosts)
      BY <2>1, <2>3, ZenonT(30)
    <3>2. recent' \in Seq(0..MaxClock)
      BY <2>2, <2>4
    <3> QED
      BY <2>1, <2>5, <2>6, <3>1, <3>2
<1>2. CASE Connect
  <2>1. task' \in LoopStates
        /\ task'.host \in Hosts
    BY <1>2, ZenonT(30) DEF Connect
  <2>2. nsm' \in NsmStates
        /\ (nsm'.conn \in {"sent", "read"} => task'.pc = "await")
    BY <1>2 DEF Connect
  <2> QED
    BY <1>2, <2>1, <2>2 DEF Connect
<1>3. CASE ReadReply
  BY <1>3 DEF ReadReply
<1>4. CASE LoadConfig
  <2>1. confirmed' \subseteq Hosts /\ task.host \in Hosts
    BY <1>4 DEF LoadConfig
  <2>2. Upserted(conf, confirmed') \in Config
    BY <2>1, UpsertedType
  <2> QED
    BY <1>4, <2>1, <2>2 DEF LoadConfig
<1>5. CASE WriteTmp
  BY <1>5 DEF WriteTmp
<1>6. CASE Rename
  BY <1>6, NoFileType DEF Rename
<1>7. CASE Signal
  BY <1>7 DEF Signal
<1>8. CASE Record
  <2>1. recent' \in Seq(0..MaxClock)
    <3>1. Append(recent, clock) \in Seq(0..MaxClock)
      OBVIOUS
    <3> QED
      BY <1>8, <3>1 DEF Record
  <2>2. past' = [past EXCEPT !.synced = FALSE]
        \/ past' = [past EXCEPT !.acts = Append(@, clock), !.synced = task.fw]
    BY <1>8 DEF Record
  <2>3. past' \in Histories
    <3>1. past.acts \in Seq(0..MaxClock) /\ Append(past.acts, clock) \in Seq(0..MaxClock)
      OBVIOUS
    <3> QED
      BY <2>2, <3>1
  <2>4. threats' \subseteq Hosts /\ actioned' \subseteq Hosts
    BY <1>8 DEF Record
  <2> QED
    BY <1>8, <2>1, <2>3, <2>4, AtReceiveType DEF Record
<1> QED
  BY <1>1, <1>2, <1>3, <1>4, <1>5, <1>6, <1>7, <1>8 DEF Step
\* The counts of the history, the end of a window and the operator's edits.
LEMMA Counted ==
    ASSUME NEW p \in Histories
    PROVE  /\ [p EXCEPT !.verdicts = @ + 1] \in Histories
           /\ [p EXCEPT !.exits = @ + 1] \in Histories
           /\ [p EXCEPT !.restarts = @ + 1, !.acts = <<>>, !.synced = FALSE] \in Histories
<1>1. p.verdicts + 1 \in Nat /\ p.exits + 1 \in Nat /\ p.restarts + 1 \in Nat
  BY DEF Histories
<1>2. <<>> \in Seq(0..MaxClock)
  OBVIOUS
<1> QED
  BY <1>1, <1>2 DEF Histories

LEMMA EditedType ==
    ASSUME NEW doc \in Config, NEW kind \in FileKinds
    PROVE  [doc EXCEPT !.edit = @ + 1, !.kind = kind] \in Config
<1>1. doc.edit + 1 \in Nat
  BY DEF Config
<1> QED
  BY <1>1 DEF Config

\* So do the others'.
LEMMA OthersType ==
    ASSUME ContainmentTypeInv, [ContainmentNext]_containmentVars, ~Step
    PROVE  ContainmentTypeInv'
<1> USE DEF ContainmentTypeInv, LoopStates, NsmStates, WallStates, Histories, LoopPcs
<1>1. ASSUME NEW h \in Hosts, Verdict(h) PROVE ContainmentTypeInv'
  <2>1. inbox' \in Seq(Hosts) /\ Len(inbox') <= Capacity
    <3>1. Append(inbox, h) \in Seq(Hosts) /\ Len(Append(inbox, h)) = Len(inbox) + 1
          /\ Len(inbox) \in Nat
      OBVIOUS
    <3>2. Capacity \in Nat
      BY ContainmentAssumption
    <3> QED
      BY <1>1, <3>1, <3>2 DEF Verdict
  <2> QED
    BY <1>1, <2>1 DEF Verdict
<1>2. CASE NsmRead
  BY <1>2 DEF NsmRead
<1>3. CASE NsmReply
  <2>1. task.host \in Hosts
    BY <1>3 DEF NsmReply
  <2>2. PICK reply \in Replies(task.host) :
           nsm' = [nsm EXCEPT
                     !.conn = reply,
                     !.blocked = IF reply = "Blocked" THEN @ \union {task.host} ELSE @]
    BY <1>3 DEF NsmReply
  <2>3. reply \in BlockReplies /\ reply \notin {"sent", "read"}
    <3>1. Outcomes \subseteq BlockReplies /\ "Error" \in BlockReplies
      BY ContainmentAssumption DEF BlockReplies
    <3>2. reply \in BlockReplies
      BY <3>1 DEF Replies
    <3> QED
      BY <3>2 DEF BlockReplies
  <2>4. nsm'.conn = reply
        /\ nsm' \in NsmStates
    BY <2>1, <2>2, <2>3
  <2> QED
    BY <1>3, <2>3, <2>4 DEF NsmReply
<1>4. ASSUME NEW h \in Hosts, NsmLapse(h) PROVE ContainmentTypeInv'
  BY <1>4 DEF NsmLapse
<1>5. CASE NsmExit
  <2>1. past' \in Histories
    BY <1>5, Counted DEF NsmExit
  <2> QED
    BY <1>5, <2>1 DEF NsmExit
<1>6. CASE NsmStart
  <2>1. PICK kept \in {nsm.blocked, {}} : nsm' = [nsm EXCEPT !.up = TRUE, !.blocked = kept]
    BY <1>6 DEF NsmStart
  <2>2. nsm' \in NsmStates /\ nsm'.conn = nsm.conn
    BY <2>1
  <2> QED
    BY <1>6, <2>2 DEF NsmStart
<1>7. CASE Reload
  BY <1>7, ZenonT(30) DEF Reload
<1>8. CASE WallRestart
  <2>1. past' \in Histories
    BY <1>8, Counted DEF WallRestart
  <2> QED
    BY <1>8, <2>1 DEF WallRestart
<1>9. ASSUME NEW kind \in EditKinds, Edit(kind) PROVE ContainmentTypeInv'
  <2>1. kind \in FileKinds
    BY ContainmentAssumption
  <2>2. conf' \in Config
    BY <1>9, <2>1, EditedType DEF Edit
  <2> QED
    BY <1>9, <2>2 DEF Edit
<1>10. CASE OrchestratorRestart
  <2>1. PICK more \in IF nsm.conn \in {"sent", "read"} /\ ~nsm.closed
                           /\ "Blocked" \in Replies(task.host)
                        THEN {{}, {task.host}} ELSE {{}} :
             nsm' = [nsm EXCEPT !.conn = "none", !.blocked = @ \union more]
    BY <1>10 DEF OrchestratorRestart
  <2>2. more \subseteq Hosts
    OBVIOUS
  <2>3. nsm'.conn = "none"
        /\ nsm' \in NsmStates
    BY <2>1, <2>2
  <2>4. past' \in Histories
    BY <1>10, Counted DEF OrchestratorRestart
  <2>5. inbox' = <<>> /\ recent' = <<>> /\ task' = AtReceive
        /\ confirmed' = {} /\ actioned' = {} /\ threats' = {}
        /\ UNCHANGED <<clock, conf, tmp, wall>>
    BY <1>10 DEF OrchestratorRestart
  <2>6. Len(<<>>) <= Capacity
    BY ContainmentAssumption
  <2> QED
    BY <2>3, <2>4, <2>5, <2>6, AtReceiveType
<1>11. CASE ClockTick
  <2>1. clock' \in 0..MaxClock
    BY <1>11, ContainmentAssumption DEF ClockTick
  <2> QED
    BY <1>11, <2>1 DEF ClockTick
<1>12. CASE UNCHANGED containmentVars
  BY <1>12 DEF containmentVars
<1> QED
  BY <1>1, <1>2, <1>3, <1>4, <1>5, <1>6, <1>7, <1>8, <1>9, <1>10, <1>11, <1>12
     DEF ContainmentNext

LEMMA TypeInvInit == ContainmentInit => ContainmentTypeInv
<1> SUFFICES ASSUME ContainmentInit PROVE ContainmentTypeInv
  OBVIOUS
<1> USE DEF ContainmentTypeInv, ContainmentInit
<1>1. conf \in Config /\ tmp \in Config
  BY NoFileType DEF Config, FileKinds
<1>2. clock \in 0..MaxClock /\ Len(inbox) <= Capacity
  BY ContainmentAssumption
<1>3. task \in LoopStates
      /\ task.pc = "recv"
  BY AtReceiveType
<1>4. nsm \in NsmStates /\ nsm.conn = "none"
  BY DEF NsmStates
<1>5. wall \in WallStates
  BY <1>1 DEF WallStates
<1>6. past \in Histories
  BY DEF Histories
<1> QED
  BY <1>1, <1>2, <1>3, <1>4, <1>5, <1>6

LEMMA TypeInvStep ==
    ContainmentTypeInv /\ [ContainmentNext]_containmentVars => ContainmentTypeInv'
BY StepType, OthersType
\* The list r is the end of the times acts, and those it has not are stale at time c.
Remembered(acts, r, c) ==
    /\ Len(r) <= Len(acts)
    /\ \A i \in 1..Len(r) : r[i] = acts[(Len(acts) - Len(r)) + i]
    /\ \A i \in 1..(Len(acts) - Len(r)) : c - acts[i] >= Window

\* Two actions that MaxActions lie between are a window apart.
Spread(acts) ==
    \A i \in 1..(Len(acts) - MaxActions) : acts[i + MaxActions] - acts[i] >= Window

\* The policy remembers the actions that are not stale, and while one is under way there
\* is room for it.
RateInv ==
    /\ Remembered(past.acts, recent, clock)
    /\ Sorted(past.acts) /\ \A i \in 1..Len(past.acts) : past.acts[i] <= clock
    /\ Spread(past.acts)
    /\ Len(recent) <= MaxActions
    /\ task.pc # "recv" => Len(recent) < MaxActions

LEMMA RememberedSorted ==
    ASSUME NEW acts \in Seq(Nat), NEW r \in Seq(Nat), NEW c \in Nat,
           Remembered(acts, r, c), Sorted(acts)
    PROVE  Sorted(r)
<1> SUFFICES ASSUME NEW i \in 1..Len(r), NEW j \in 1..Len(r), i <= j
             PROVE  r[i] <= r[j]
  BY DEF Sorted
<1> DEFINE f == Len(acts) - Len(r)
<1>1. f \in Nat /\ Len(acts) \in Nat /\ Len(r) \in Nat
  BY DEF Remembered
<1>2. r[i] = acts[f + i] /\ r[j] = acts[f + j]
  BY DEF Remembered
<1>3. f + i \in 1..Len(acts) /\ f + j \in 1..Len(acts) /\ f + i <= f + j
  BY <1>1
<1> QED
  BY <1>2, <1>3 DEF Sorted

LEMMA RememberedPruned ==
    ASSUME NEW acts \in Seq(Nat), NEW r \in Seq(Nat), NEW p \in Seq(Nat), NEW c \in Nat,
           Remembered(acts, r, c), NEW k \in 0..Len(r), Len(p) = Len(r) - k,
           \A i \in 1..Len(p) : p[i] = r[k + i],
           \A i \in 1..k : c - r[i] >= Window
    PROVE  Remembered(acts, p, c)
<1> DEFINE f == Len(acts) - Len(r)
           g == Len(acts) - Len(p)
<1>1. /\ f \in Nat /\ Len(acts) \in Nat /\ Len(r) \in Nat /\ Len(p) \in Nat
      /\ g = f + k
  BY DEF Remembered
<1>2. ASSUME NEW i \in 1..Len(p) PROVE p[i] = acts[g + i]
  <2>1. k + i \in 1..Len(r) /\ f + (k + i) = g + i
    BY <1>1
  <2>2. r[k + i] = acts[f + (k + i)]
    BY <2>1 DEF Remembered
  <2> QED
    BY <2>1, <2>2
<1>3. ASSUME NEW i \in 1..g PROVE c - acts[i] >= Window
  <2>1. CASE i <= f
    BY <1>1, <2>1 DEF Remembered
  <2>2. CASE i > f
    <3>1. i - f \in 1..k /\ i - f \in 1..Len(r) /\ f + (i - f) = i
      <4>1. i \in Nat /\ k \in Nat /\ k <= Len(r) /\ i <= f + k
        BY <1>1
      <4> HIDE DEF f, g
      <4> QED
        BY <1>1, <2>2, <4>1
    <3>2. r[i - f] = acts[f + (i - f)]
      BY <3>1 DEF Remembered
    <3>3. r[i - f] = acts[i]
      <4> HIDE DEF f
      <4> QED
        BY <3>1, <3>2
    <3>4. c - r[i - f] >= Window
      BY <3>1
    <3> QED
      BY <3>3, <3>4
  <2> QED
    BY <1>1, <2>1, <2>2
<1> QED
  BY <1>1, <1>2, <1>3 DEF Remembered

LEMMA RememberedAppend ==
    ASSUME NEW acts \in Seq(Nat), NEW r \in Seq(Nat), NEW c \in Nat, Remembered(acts, r, c)
    PROVE  Remembered(Append(acts, c), Append(r, c), c)
<1> DEFINE f == Len(acts) - Len(r)
<1>1. f \in Nat /\ Len(acts) \in Nat /\ Len(r) \in Nat
  BY DEF Remembered
<1>2. /\ Len(Append(acts, c)) = Len(acts) + 1 /\ Len(Append(r, c)) = Len(r) + 1
      /\ Len(Append(acts, c)) - Len(Append(r, c)) = f
  BY <1>1
<1>3. ASSUME NEW i \in 1..(Len(r) + 1)
      PROVE  Append(r, c)[i] = Append(acts, c)[f + i]
  <2>1. CASE i <= Len(r)
    <3>1. f + i \in 1..Len(acts) /\ i \in 1..Len(r)
      BY <1>1, <2>1
    <3> QED
      BY <3>1 DEF Remembered
  <2>2. CASE i = Len(r) + 1
    BY <1>1, <2>2
  <2> QED
    BY <1>1, <2>1, <2>2
<1>4. ASSUME NEW i \in 1..f PROVE c - Append(acts, c)[i] >= Window
  <2>1. i \in 1..Len(acts)
    BY <1>1
  <2> QED
    BY <2>1 DEF Remembered
<1> QED
  <2>1. PICK as, rs : as = Append(acts, c) /\ rs = Append(r, c)
    OBVIOUS
  <2>2. /\ Len(rs) <= Len(as)
        /\ \A i \in 1..Len(rs) : rs[i] = as[(Len(as) - Len(rs)) + i]
        /\ \A i \in 1..(Len(as) - Len(rs)) : c - as[i] >= Window
    <3> HIDE DEF f
    <3>1. Len(as) = Len(acts) + 1 /\ Len(rs) = Len(r) + 1 /\ Len(as) - Len(rs) = f
      BY <1>2, <2>1
    <3>2. Len(rs) <= Len(as)
      BY <1>1, <3>1
    <3> QED
      BY <1>3, <1>4, <2>1, <3>1, <3>2
  <2> QED
    BY <2>1, <2>2 DEF Remembered

\* The new action is a window away from the one MaxActions before it.
LEMMA SpreadAppend ==
    ASSUME NEW acts \in Seq(Nat), NEW r \in Seq(Nat), NEW c \in Nat,
           Remembered(acts, r, c), Spread(acts), Len(r) < MaxActions, MaxActions \in Nat
    PROVE  Spread(Append(acts, c))
<1>1. Len(acts) \in Nat /\ Len(r) \in Nat /\ Len(Append(acts, c)) = Len(acts) + 1
  OBVIOUS
<1> SUFFICES ASSUME NEW i \in 1..((Len(acts) + 1) - MaxActions)
             PROVE  Append(acts, c)[i + MaxActions] - Append(acts, c)[i] >= Window
  <2>1. PICK as : as = Append(acts, c)
    OBVIOUS
  <2> QED
    BY <1>1, <2>1 DEF Spread
<1>2. i \in 1..Len(acts) /\ Append(acts, c)[i] = acts[i]
  BY <1>1
<1>3. CASE i + MaxActions <= Len(acts)
  <2>1. i \in 1..(Len(acts) - MaxActions) /\ i + MaxActions \in 1..Len(acts)
    BY <1>1, <1>3
  <2>2. Append(acts, c)[i + MaxActions] = acts[i + MaxActions]
    BY <2>1
  <2> QED
    BY <1>2, <2>1, <2>2 DEF Spread
<1>4. CASE i + MaxActions = Len(acts) + 1
  <2>1. i \in 1..(Len(acts) - Len(r))
    BY <1>1, <1>4
  <2>2. c - acts[i] >= Window
    BY <2>1 DEF Remembered
  <2>3. Append(acts, c)[i + MaxActions] = c
    BY <1>4
  <2> QED
    BY <1>2, <2>2, <2>3
<1>5. i + MaxActions <= Len(acts) \/ i + MaxActions = Len(acts) + 1
  BY <1>1, SMTT(20)
<1> QED
  BY <1>3, <1>4, <1>5

LEMMA SortedAppend ==
    ASSUME NEW acts \in Seq(Nat), NEW c \in Nat, Sorted(acts),
           \A i \in 1..Len(acts) : acts[i] <= c
    PROVE  /\ Sorted(Append(acts, c))
           /\ \A i \in 1..Len(Append(acts, c)) : Append(acts, c)[i] <= c
<1>1. Len(acts) \in Nat /\ Len(Append(acts, c)) = Len(acts) + 1
  OBVIOUS
<1>2. ASSUME NEW i \in 1..(Len(acts) + 1) PROVE Append(acts, c)[i] <= c
  <2>1. CASE i \in 1..Len(acts)
    BY <2>1
  <2>2. CASE i = Len(acts) + 1
    BY <2>2
  <2> QED
    BY <1>1, <2>1, <2>2
<1>3. ASSUME NEW i \in 1..(Len(acts) + 1), NEW j \in 1..(Len(acts) + 1), i <= j
      PROVE  Append(acts, c)[i] <= Append(acts, c)[j]
  <2>1. CASE j \in 1..Len(acts)
    BY <1>1, <1>3, <2>1 DEF Sorted
  <2>2. CASE j = Len(acts) + 1
    BY <1>2, <2>2
  <2> QED
    BY <1>1, <2>1, <2>2
<1> QED
  BY <1>1, <1>2, <1>3 DEF Sorted

\* Times in order, of which any two that n lie between are w apart: no w of time hold
\* more than n of them.
LEMMA SpreadOut ==
    ASSUME NEW acts \in Seq(Nat), NEW n \in Nat, NEW w \in Nat, NEW t \in Nat,
           Sorted(acts),
           \A i \in 1..(Len(acts) - n) : acts[i + n] - acts[i] >= w
    PROVE  Cardinality({i \in DOMAIN acts : acts[i] \in t..(t + w - 1)}) <= n
<1> DEFINE W == {i \in 1..Len(acts) : acts[i] \in t..(t + w - 1)}
<1>1. Len(acts) \in Nat /\ \A i \in 1..Len(acts) : acts[i] \in Nat
  OBVIOUS
<1>2. W \subseteq Nat /\ \A i \in W : i \in 1..Len(acts) /\ acts[i] >= t /\ acts[i] < t + w
  BY <1>1
<1>3. Cardinality(W) <= n
  <2> HIDE DEF W
  <2>1. CASE W = {}
    BY <2>1, FS_EmptySet
  <2>2. CASE W # {}
    <3>1. PICK a \in W : \A m \in W : a <= m
      BY <1>2, <2>2, Smallest
    <3>2. ASSUME NEW i \in W PROVE i < a + n
      <4> SUFFICES ASSUME i >= a + n PROVE FALSE
        BY <1>2
      <4>1. a \in 1..(Len(acts) - n) /\ i \in 1..Len(acts) /\ a + n \in 1..Len(acts)
        BY <1>1, <1>2
      <4>2. acts[a + n] - acts[a] >= w /\ acts[a + n] <= acts[i]
        BY <4>1 DEF Sorted
      <4>3. acts[a] >= t /\ acts[i] < t + w
        BY <1>2
      <4> QED
        BY <1>1, <4>1, <4>2, <4>3, SMTT(20)
    <3>3. W \subseteq a..(a + n - 1) /\ a \in Nat
      BY <1>2, <3>1, <3>2
    <3>4. IsFiniteSet(a..(a + n - 1)) /\ Cardinality(a..(a + n - 1)) = n
      <4>1. a \in Int /\ a + n - 1 \in Int
        BY <3>3
      <4> QED
        BY <3>3, <4>1, FS_Interval
    <3>5. IsFiniteSet(W) /\ Cardinality(W) <= n
      BY <3>3, <3>4, FS_Subset
    <3> QED
      BY <3>5
  <2> QED
    BY <2>1, <2>2
<1>4. DOMAIN acts = 1..Len(acts)
  OBVIOUS
<1> QED
  BY <1>3, <1>4

\* The times of the actions as sequences of numbers.
LEMMA Times ==
    ASSUME ContainmentTypeInv
    PROVE  /\ clock \in Nat /\ MaxActions \in Nat /\ Window \in Nat \ {0}
           /\ recent \in Seq(Nat) /\ Len(recent) \in Nat
           /\ past.acts \in Seq(Nat) /\ Len(past.acts) \in Nat
           /\ \A i \in 1..Len(recent) : recent[i] \in Nat
           /\ \A i \in 1..Len(past.acts) : past.acts[i] \in Nat
<1>1. MaxClock \in Nat /\ 0..MaxClock \subseteq Nat
  BY ContainmentAssumption
<1>2. recent \in Seq(0..MaxClock) /\ past.acts \in Seq(0..MaxClock) /\ clock \in Nat
  BY <1>1 DEF ContainmentTypeInv, Histories
<1>3. recent \in Seq(Nat) /\ past.acts \in Seq(Nat)
  BY <1>1, <1>2
<1> QED
  BY <1>2, <1>3, ContainmentAssumption, LenProperties, ElementOfSeq

LEMMA RateFollows ==
    ASSUME ContainmentTypeInv, RateInv
    PROVE  ActionRate
<1> SUFFICES ASSUME NEW t \in 0..clock
             PROVE  Cardinality({i \in DOMAIN past.acts : past.acts[i] \in t..(t + Window - 1)})
                      <= MaxActions
  BY DEF ActionRate
<1>1. t \in Nat
  BY Times
<1>2. \A i \in 1..(Len(past.acts) - MaxActions) :
        past.acts[i + MaxActions] - past.acts[i] >= Window
  BY DEF RateInv, Spread
<1>3. Sorted(past.acts)
  BY DEF RateInv
<1> QED
  BY <1>1, <1>2, <1>3, Times, SpreadOut

\* The limit is looked at before an action is taken up.
LEMMA ReceiveRate ==
    ASSUME ContainmentTypeInv, RateInv,
           NEW cleared \in BOOLEAN, NEW severe \in BOOLEAN, Receive(cleared, severe)
    PROVE  RateInv'
<1>1. clock' = clock /\ past' = past /\ task.pc = "recv"
  BY DEF Receive
<1>2. CASE recent' = recent /\ task' = task
  BY <1>1, <1>2 DEF RateInv
<1>3. CASE recent' = Pruned /\ (task' = task \/ Len(Pruned) < MaxActions)
  <2>1. Sorted(recent)
    BY Times, RememberedSorted DEF RateInv
  <2>2. PICK k \in 0..Len(recent) :
             /\ Pruned \in Seq(Nat)
             /\ Len(Pruned) = Len(recent) - k
             /\ \A i \in 1..Len(Pruned) : Pruned[i] = recent[k + i]
             /\ \A i \in 1..k : clock - recent[i] >= Window
    BY <2>1, Times, PrunedBackOfRecent
  <2>3. Remembered(past.acts, Pruned, clock)
    BY <2>2, Times, RememberedPruned DEF RateInv
  <2>4. Len(Pruned) <= MaxActions
    BY <2>2, Times DEF RateInv
  <2> QED
    BY <1>1, <1>3, <2>3, <2>4 DEF RateInv
<1>4. (recent' = recent /\ task' = task)
      \/ (recent' = Pruned /\ (task' = task \/ Len(Pruned) < MaxActions))
  <2>1. Len(Pruned) \in Nat
    <3>1. Sorted(recent)
      BY Times, RememberedSorted DEF RateInv
    <3> QED
      BY <3>1, Times, PrunedBackOfRecent
  <2> QED
    BY <2>1, Times DEF Receive, RateLimited
<1> QED
  BY <1>2, <1>3, <1>4

\* Every step keeps the rate.
LEMMA RateStep ==
    ASSUME ContainmentTypeInv, RateInv, [ContainmentNext]_containmentVars
    PROVE  RateInv'
<1>1. ASSUME NEW cleared \in BOOLEAN, NEW severe \in BOOLEAN, Receive(cleared, severe)
      PROVE  RateInv'
  BY <1>1, ReceiveRate
<1>2. CASE Record
  <2>1. CASE UNCHANGED recent /\ past'.acts = past.acts
    BY <1>2, <2>1, AtReceiveType DEF Record, RateInv
  <2>2. CASE recent' = Append(recent, clock) /\ past'.acts = Append(past.acts, clock)
    <3>1. Len(recent) < MaxActions
      BY <1>2 DEF Record, RateInv
    <3>2. Remembered(past'.acts, recent', clock)
      BY <2>2, Times, RememberedAppend DEF RateInv
    <3>3. Spread(past'.acts)
      BY <2>2, <3>1, Times, SpreadAppend DEF RateInv
    <3>4. Sorted(past'.acts) /\ \A i \in 1..Len(past'.acts) : past'.acts[i] <= clock
      BY <2>2, Times, SortedAppend DEF RateInv
    <3>5. Len(recent') <= MaxActions
      BY <2>2, <3>1, Times
    <3> QED
      BY <1>2, <3>2, <3>3, <3>4, <3>5, AtReceiveType DEF Record, RateInv
  <2>3. past \in Histories
    BY DEF ContainmentTypeInv
  <2> QED
    BY <1>2, <2>1, <2>2, <2>3 DEF Record, Histories
<1>3. CASE OrchestratorRestart
  <2>1. past'.acts = <<>> /\ recent' = <<>> /\ task'.pc = "recv" /\ clock' = clock
    BY <1>3, AtReceiveType DEF OrchestratorRestart, ContainmentTypeInv, Histories
  <2> QED
    BY <2>1, Times DEF RateInv, Remembered, Sorted, Spread
<1>4. CASE ClockTick
  <2>1. clock' = clock + 1 /\ UNCHANGED <<task, recent, past>>
    BY <1>4 DEF ClockTick
  <2>2. Remembered(past.acts, recent, clock + 1)
    BY Times, SMTT(20) DEF RateInv, Remembered
  <2>3. \A i \in 1..Len(past.acts) : past.acts[i] <= clock + 1
    BY Times DEF RateInv
  <2> QED
    BY <2>1, <2>2, <2>3 DEF RateInv
<1>5. ASSUME recent' = recent, clock' = clock, past'.acts = past.acts,
             task.pc = "recv" => task'.pc = "recv"
      PROVE  RateInv'
  BY <1>5 DEF RateInv
<1>6. task \in LoopStates /\ past \in Histories
  BY DEF ContainmentTypeInv
<1>7. CASE Connect
  BY <1>5, <1>7 DEF Connect
<1>8. CASE ReadReply
  BY <1>5, <1>8 DEF ReadReply
<1>9. CASE LoadConfig
  BY <1>5, <1>9 DEF LoadConfig
<1>10. CASE WriteTmp
  BY <1>5, <1>10 DEF WriteTmp
<1>11. CASE Rename
  BY <1>5, <1>11 DEF Rename
<1>12. CASE Signal
  BY <1>5, <1>12 DEF Signal
<1>13. ASSUME NEW h \in Hosts, Verdict(h) PROVE RateInv'
  BY <1>5, <1>6, <1>13 DEF Verdict, Histories
<1>14. CASE NsmRead \/ NsmReply \/ NsmStart \/ Reload \/ UNCHANGED containmentVars
  BY <1>5, <1>14 DEF NsmRead, NsmReply, NsmStart, Reload, containmentVars
<1>15. ASSUME NEW h \in Hosts, NsmLapse(h) PROVE RateInv'
  BY <1>5, <1>15 DEF NsmLapse
<1>16. CASE NsmExit \/ WallRestart
  BY <1>5, <1>6, <1>16 DEF NsmExit, WallRestart, Histories
<1>17. ASSUME NEW kind \in EditKinds, Edit(kind) PROVE RateInv'
  BY <1>5, <1>17 DEF Edit
<1> QED
  BY <1>1, <1>2, <1>3, <1>4, <1>7, <1>8, <1>9, <1>10, <1>11, <1>12, <1>13, <1>14, <1>15,
     <1>16, <1>17 DEF ContainmentNext, Step
LEMMA RateInit == ContainmentInit => RateInv
BY ContainmentAssumption, AtReceiveType
   DEF ContainmentInit, RateInv, Remembered, Sorted, Spread

---------------------------------------------------------------------------
(* The allowlist                                                           *)

\* Nothing that is blocked, that a file says or that is under way names an allowlisted
\* host.
AllowlistInv ==
    /\ task.pc # "recv" => task.host \notin Allowlist
    /\ confirmed \intersect Allowlist = {}
    /\ nsm.blocked \intersect Allowlist = {}
    /\ conf.alias \intersect Allowlist = {}
    /\ tmp.alias \intersect Allowlist = {}
    /\ task.doc.alias \intersect Allowlist = {}
    /\ wall.rules.alias \intersect Allowlist = {}

\* A configuration that names no allowlisted host drops one only beside an IPv6 host it
\* names: the /32 of an IPv4 host is the host, that of an IPv6 host has no IPv4 host in it.
LEMMA DroppedBeside ==
    ASSUME NEW config \in Config, config.alias \intersect Allowlist = {},
           NEW h \in Dropped(config) \intersect Allowlist
    PROVE  h \notin V4 /\ \E g \in config.alias \ (Allowlist \union V4) : h \in Slash32[g]
<1>1. PICK g \in config.alias : h \in Slash32[g]
  BY DEF Dropped
<1>2. g \in Hosts /\ g \notin Allowlist /\ h \in Hosts
  BY ContainmentAssumption DEF Config
<1>3. g \notin V4
  BY <1>1, <1>2, ContainmentAssumption
<1>4. h \notin V4
  BY <1>1, <1>2, <1>3, ContainmentAssumption
<1> QED
  BY <1>1, <1>2, <1>3, <1>4

LEMMA AllowlistInit == ContainmentInit => AllowlistInv
BY DEF ContainmentInit, AllowlistInv, AtReceive, NoFile

LEMMA AllowlistStep ==
    ASSUME ContainmentTypeInv, AllowlistInv, [ContainmentNext]_containmentVars
    PROVE  AllowlistInv'
<1> USE DEF AllowlistInv
<1>0. /\ task \in LoopStates /\ nsm \in NsmStates /\ wall \in WallStates
      /\ conf \in Config /\ tmp \in Config
      /\ nsm.conn \in {"sent", "read"} => task.pc = "await"
  BY DEF ContainmentTypeInv
<1>1. ASSUME NEW cleared \in BOOLEAN, NEW severe \in BOOLEAN, Receive(cleared, severe)
      PROVE  AllowlistInv'
  <2>1. task' = task
        \/ (task' = [task EXCEPT !.pc = "connect", !.host = Head(inbox)]
            /\ Head(inbox) \notin Allowlist)
    BY <1>1 DEF Receive, Withheld
  <2>2. UNCHANGED <<confirmed, nsm, conf, tmp, wall>>
    BY <1>1 DEF Receive
  <2> QED
    BY <1>0, <2>1, <2>2 DEF LoopStates
<1>2. CASE Connect
  BY <1>0, <1>2 DEF Connect, LoopStates, NsmStates
<1>3. CASE ReadReply
  BY <1>0, <1>3 DEF ReadReply, LoopStates, NsmStates
<1>4. CASE LoadConfig
  <2>1. task.host \notin Allowlist
    BY <1>4 DEF LoadConfig
  <2>2. confirmed' \intersect Allowlist = {} /\ confirmed' \subseteq Hosts
    BY <1>4, <2>1 DEF LoadConfig, ContainmentTypeInv
  <2>3. Upserted(conf, confirmed').alias = confirmed'
    BY <1>0, <2>2, UpsertedType
  <2>4. task'.host = task.host /\ (task'.doc = task.doc \/ task'.doc = Upserted(conf, confirmed'))
    BY <1>0, <1>4 DEF LoadConfig, LoopStates
  <2> QED
    BY <1>4, <2>1, <2>2, <2>3, <2>4 DEF LoadConfig
<1>5. CASE WriteTmp
  BY <1>0, <1>5 DEF WriteTmp, LoopStates
<1>6. CASE Rename
  BY <1>0, <1>6 DEF Rename, LoopStates, NoFile
<1>7. CASE Signal
  BY <1>0, <1>7 DEF Signal, LoopStates, WallStates
<1>8. CASE Record
  BY <1>8 DEF Record, AtReceive, NoFile
<1>9. ASSUME NEW h \in Hosts, Verdict(h) PROVE AllowlistInv'
  BY <1>9 DEF Verdict
<1>10. CASE NsmRead
  BY <1>0, <1>10 DEF NsmRead, NsmStates
<1>11. CASE NsmReply
  BY <1>0, <1>11 DEF NsmReply, NsmStates
<1>12. ASSUME NEW h \in Hosts, NsmLapse(h) PROVE AllowlistInv'
  BY <1>0, <1>12 DEF NsmLapse, NsmStates
<1>13. CASE NsmExit
  BY <1>0, <1>13 DEF NsmExit, NsmStates
<1>14. CASE NsmStart
  BY <1>0, <1>14 DEF NsmStart, NsmStates
<1>15. CASE Reload
  BY <1>0, <1>15 DEF Reload, WallStates
<1>16. CASE WallRestart
  BY <1>0, <1>16 DEF WallRestart
<1>17. ASSUME NEW kind \in EditKinds, Edit(kind) PROVE AllowlistInv'
  BY <1>0, <1>17 DEF Edit, Config
<1>18. CASE OrchestratorRestart
  <2>1. PICK more \in IF nsm.conn \in {"sent", "read"} /\ ~nsm.closed
                           /\ "Blocked" \in Replies(task.host)
                        THEN {{}, {task.host}} ELSE {{}} :
             nsm' = [nsm EXCEPT !.conn = "none", !.blocked = @ \union more]
    BY <1>18 DEF OrchestratorRestart
  <2>2. more \intersect Allowlist = {}
    BY <1>0
  <2>3. nsm'.blocked \intersect Allowlist = {}
    BY <1>0, <2>1, <2>2 DEF NsmStates
  <2> QED
    BY <1>18, <2>3 DEF OrchestratorRestart, AtReceive, NoFile
<1>19. CASE ClockTick \/ UNCHANGED containmentVars
  BY <1>19 DEF ClockTick, containmentVars
<1> QED
  BY <1>1, <1>2, <1>3, <1>4, <1>5, <1>6, <1>7, <1>8, <1>9, <1>10, <1>11, <1>12, <1>13,
     <1>14, <1>15, <1>16, <1>17, <1>18, <1>19 DEF ContainmentNext, Step

\* What is done in the end respects the policy, whichever hosts share a /32: every variable
\* has its type, no block names an allowlisted host, such a host is dropped only beside an
\* IPv6 host that is blocked, and no window of time holds more actions than the limit
\* (ResponsePolicy::handle, upsert_alias).
THEOREM PolicyIsKept == ContainmentSpec => []PolicyHolds
<1> DEFINE Inv == ContainmentTypeInv /\ RateInv /\ AllowlistInv
<1>1. ContainmentInit => Inv
  BY TypeInvInit, RateInit, AllowlistInit
<1>2. Inv /\ [ContainmentNext]_containmentVars => Inv'
  BY TypeInvStep, RateStep, AllowlistStep
<1>3. Inv => PolicyHolds
  <2> SUFFICES ASSUME Inv PROVE PolicyHolds
    OBVIOUS
  <2>1. StateOK
    BY DEF StateOK, ContainmentTypeInv, LoopStates, LoopPcs, NsmStates, WallStates, RateInv
  <2>2. AllowlistOnlyBeside
    <3>1. conf \in Config /\ wall.rules \in Config
      BY DEF ContainmentTypeInv, WallStates
    <3>2. \A h \in Allowlist : h \notin nsm.blocked \union (conf.alias \union wall.rules.alias)
      BY DEF AllowlistInv
    <3>3. ASSUME NEW h \in Allowlist, h \in Dropped(conf) \union Dropped(wall.rules)
          PROVE  /\ h \notin V4
                 /\ \E g \in (conf.alias \union wall.rules.alias) \ (Allowlist \union V4) :
                      h \in Slash32[g]
      <4>1. CASE h \in Dropped(conf)
        BY <3>1, <4>1, DroppedBeside DEF AllowlistInv
      <4>2. CASE h \in Dropped(wall.rules)
        BY <3>1, <4>2, DroppedBeside DEF AllowlistInv
      <4> QED
        BY <3>3, <4>1, <4>2
    <3> QED
      BY <3>2, <3>3 DEF AllowlistOnlyBeside
  <2>3. ActionRate
    BY RateFollows
  <2> QED
    BY <2>1, <2>2, <2>3 DEF PolicyHolds
<1> QED
  BY <1>1, <1>2, <1>3, PTL DEF ContainmentSpec
---------------------------------------------------------------------------
(* What a sync wrote                                                       *)

\* rustwall has the file's alias, will look at the file again, or found it invalid.
InForce == wall.hup \/ wall.refused \/ wall.rules.alias = conf.alias

\* A document on its way to the file has all confirmed hosts, and what the last sync or
\* the one under way signalled is in force.
SyncInv ==
    /\ task.pc = "write" => task.doc.alias = confirmed
    /\ task.pc = "rename" => tmp.alias = confirmed
    /\ task.pc = "record" /\ task.fw => InForce
    /\ past.synced /\ task.pc \notin {"signal", "record"} => InForce

LEMMA SyncInit == ContainmentInit => SyncInv
BY DEF ContainmentInit, SyncInv, InForce, AtReceive

LEMMA SyncStep ==
    ASSUME ContainmentTypeInv, SyncInv, [ContainmentNext]_containmentVars
    PROVE  SyncInv'
<1> USE DEF SyncInv, InForce
<1>0. /\ task \in LoopStates /\ wall \in WallStates /\ past \in Histories
      /\ conf \in Config /\ confirmed \subseteq Hosts
  BY DEF ContainmentTypeInv
<1>1. ASSUME NEW cleared \in BOOLEAN, NEW severe \in BOOLEAN, Receive(cleared, severe)
      PROVE  SyncInv'
  <2>1. task' = task \/ task' = [task EXCEPT !.pc = "connect", !.host = Head(inbox)]
    BY <1>1 DEF Receive
  <2>2. task.pc = "recv" /\ UNCHANGED <<confirmed, conf, tmp, wall, past>>
    BY <1>1 DEF Receive
  <2> QED
    BY <1>0, <2>1, <2>2 DEF LoopStates
<1>2. CASE Connect
  BY <1>0, <1>2 DEF Connect, LoopStates
<1>3. CASE ReadReply
  BY <1>0, <1>3 DEF ReadReply, LoopStates
<1>4. CASE LoadConfig
  <2>1. confirmed' \subseteq Hosts
    BY <1>0, <1>4 DEF LoadConfig, ContainmentTypeInv
  <2>2. Upserted(conf, confirmed').alias = confirmed'
    BY <1>0, <2>1, UpsertedType
  <2> QED
    BY <1>0, <1>4, <2>2 DEF LoadConfig, LoopStates
<1>5. CASE WriteTmp
  BY <1>0, <1>5 DEF WriteTmp, LoopStates
<1>6. CASE Rename
  BY <1>0, <1>6 DEF Rename, LoopStates
<1>7. CASE Signal
  BY <1>0, <1>7 DEF Signal, LoopStates, WallStates
<1>8. CASE Record
  BY <1>0, <1>8 DEF Record, AtReceive, Histories
<1>9. ASSUME NEW h \in Hosts, Verdict(h) PROVE SyncInv'
  BY <1>0, <1>9 DEF Verdict, Histories
<1>10. CASE NsmRead \/ NsmReply \/ NsmStart \/ ClockTick \/ UNCHANGED containmentVars
  BY <1>10 DEF NsmRead, NsmReply, NsmStart, ClockTick, containmentVars
<1>11. ASSUME NEW h \in Hosts, NsmLapse(h) PROVE SyncInv'
  BY <1>11 DEF NsmLapse
<1>12. CASE NsmExit
  BY <1>0, <1>12 DEF NsmExit, Histories
<1>13. CASE Reload
  BY <1>0, <1>13 DEF Reload, WallStates
<1>14. CASE WallRestart
  BY <1>0, <1>14 DEF WallRestart, Histories
<1>15. ASSUME NEW kind \in EditKinds, Edit(kind) PROVE SyncInv'
  BY <1>0, <1>15 DEF Edit, Config
<1>16. CASE OrchestratorRestart
  BY <1>0, <1>16 DEF OrchestratorRestart, AtReceive, Histories
<1> QED
  BY <1>1, <1>2, <1>3, <1>4, <1>5, <1>6, <1>7, <1>8, <1>9, <1>10, <1>11, <1>12, <1>13,
     <1>14, <1>15, <1>16 DEF ContainmentNext, Step

\* The file's alias loses no host that this orchestrator has confirmed.
LEMMA AliasKept ==
    ASSUME ContainmentTypeInv, SyncInv, [ContainmentNext]_containmentVars
    PROVE  (conf.alias \intersect confirmed) \subseteq conf'.alias
<1>1. CASE Rename
  BY <1>1 DEF Rename, SyncInv
<1>2. ASSUME NEW kind \in EditKinds, Edit(kind)
      PROVE  conf'.alias = conf.alias
  BY <1>2 DEF Edit, ContainmentTypeInv, Config
<1>3. CASE UNCHANGED conf
  BY <1>3
<1>4. Rename \/ (\E kind \in EditKinds : Edit(kind)) \/ UNCHANGED conf
  BY DEF ContainmentNext, Step, Verdict, Receive, Connect, ReadReply, LoadConfig, WriteTmp,
         Signal, Record, NsmRead, NsmReply, NsmLapse, NsmExit, NsmStart, Reload,
         WallRestart, OrchestratorRestart, ClockTick, containmentVars
<1> QED
  BY <1>1, <1>2, <1>3, <1>4

\* Whatever signals merge, whoever restarts and whatever an operator edits, what a sync
\* wrote is in force once rustwall has handled its signals and found the file valid, and
\* nothing takes a confirmed host out of the file again (sync_confirmed_hosts).
THEOREM SyncsHold == ContainmentSpec => SyncHolds
<1> DEFINE Inv == ContainmentTypeInv /\ SyncInv
<1>1. ContainmentInit => Inv
  BY TypeInvInit, SyncInit
<1>2. Inv /\ [ContainmentNext]_containmentVars => Inv'
  BY TypeInvStep, SyncStep
<1>3. Inv => SyncInForce
  BY DEF SyncInv, SyncInForce, InForce
<1>4. Inv /\ [ContainmentNext]_containmentVars
        => [SyncInForce' /\ (conf.alias \intersect confirmed) \subseteq conf'.alias]_containmentVars
  <2> SUFFICES ASSUME Inv, [ContainmentNext]_containmentVars
               PROVE  SyncInForce' /\ (conf.alias \intersect confirmed) \subseteq conf'.alias
    OBVIOUS
  <2>1. Inv'
    BY <1>2
  <2>2. SyncInForce'
    BY <2>1 DEF SyncInv, SyncInForce, InForce
  <2> QED
    BY <2>2, AliasKept
<1> QED
  BY <1>1, <1>2, <1>4, PTL DEF ContainmentSpec, SyncHolds

---------------------------------------------------------------------------
(* The types of rustwall's quarantine                                      *)

\* The address and the duration of a job.
LEMMA JobFields ==
    ASSUME NEW job \in Jobs
    PROVE  job.ip \in Ips /\ job.secs \in Nat
<1>1. job.ip \in Ips /\ job.secs \in Durations \union {0}
  BY DEF Jobs
<1>2. Durations \subseteq Nat
  BY QuarantineAssumption
<1>3. \A n \in Durations \union {0} : n \in Nat
  BY <1>2
<1> QED
  BY <1>1, <1>3

\* enqueue_sync adds a job when there is room and nothing else.
LEMMA EnqueueType ==
    ASSUME TypeOK, NEW job \in Jobs, EnqueueSync(job)
    PROVE  /\ queue' \in Seq(Jobs) /\ Len(queue') <= QueueCapacity
           /\ lost' \subseteq Ips
<1>1. job.ip \in Ips
  BY JobFields
<1>2. CASE QueueRoom
  <2>1. queue' = Append(queue, job) /\ lost' = lost
    BY <1>2 DEF EnqueueSync
  <2>2. queue \in Seq(Jobs) /\ lost \subseteq Ips
    BY DEF TypeOK
  <2>3. queue' \in Seq(Jobs) /\ Len(queue') = Len(queue) + 1
    BY <2>1, <2>2
  <2>4. Len(queue) \in Nat
    BY <2>2
  <2> QED
    BY <1>2, <2>1, <2>2, <2>3, <2>4, QuarantineAssumption DEF QueueRoom
<1>3. CASE ~QueueRoom
  BY <1>1, <1>3 DEF EnqueueSync, TypeOK
<1> QED
  BY <1>2, <1>3

\* Every reachable state is well-typed; the queue of the sync worker never exceeds
\* its capacity and the sweep's clock is never ahead.
THEOREM QuarantineTypeCorrect == Spec => []TypeOK
<1>1. Init => TypeOK
  BY QuarantineAssumption DEF Init, TypeOK, Jobs, UnbanJob
<1>2. TypeOK /\ [Next]_vars => TypeOK'
  <2> SUFFICES ASSUME TypeOK, [Next]_vars PROVE TypeOK'
    OBVIOUS
  <2> USE QuarantineAssumption
  <2>1. ASSUME NEW t \in Threads, NEW ip \in Ips, NEW secs \in Durations,
               BanCheck(t, ip, secs)
        PROVE  TypeOK'
    <3>1. BanJob(ip, secs) \in Jobs
      BY DEF BanJob, Jobs
    <3>2. now + secs \in Nat
      BY DEF TypeOK
    <3>3. pc' \in [Threads -> {"idle", "insert", "send"}]
      BY <2>1 DEF BanCheck, TypeOK
    <3>4. req' \in [Threads -> [job: Jobs, expiry: Nat]]
      <4>1. [job |-> BanJob(ip, secs), expiry |-> now + secs] \in [job: Jobs, expiry: Nat]
        BY <3>1, <3>2
      <4>2. CASE Admitted(ip)
        <5>1. req' = [req EXCEPT ![t] = [job |-> BanJob(ip, secs), expiry |-> now + secs]]
          BY <2>1, <4>2 DEF BanCheck
        <5>2. req \in [Threads -> [job: Jobs, expiry: Nat]]
          BY DEF TypeOK
        <5> DEFINE R == [job: Jobs, expiry: Nat]
                   new == [job |-> BanJob(ip, secs), expiry |-> now + secs]
        <5> HIDE DEF R, new
        <5>3. new \in R /\ req \in [Threads -> R] /\ req' = [req EXCEPT ![t] = new]
          BY <4>1, <5>1, <5>2 DEF R, new
        <5>4. req' \in [Threads -> R]
          BY <5>3
        <5> QED
          BY <5>4 DEF R
      <4>3. CASE ~Admitted(ip)
        BY <2>1, <4>3 DEF BanCheck, TypeOK
      <4> QED
        BY <4>2, <4>3
    <3> QED
      BY <2>1, <3>3, <3>4 DEF BanCheck, TypeOK
  <2>2. ASSUME NEW t \in Threads, BanInsert(t) PROVE TypeOK'
    <3>1. req[t].job.ip \in Ips /\ req[t].expiry \in Nat
      BY DEF TypeOK, Jobs
    <3>2. raced' \subseteq Ips
      BY <2>2, <3>1 DEF BanInsert, Changed, TypeOK
    <3>3. table' \in [Ips -> Nat]
      BY <2>2, <3>1 DEF BanInsert, Extended, TypeOK
    <3>4. promised' \in [Ips -> Nat]
      BY <2>2, <3>1 DEF BanInsert, TypeOK
    <3> QED
      BY <2>2, <3>2, <3>3, <3>4 DEF BanInsert, TypeOK
  <2>3. ASSUME NEW t \in Threads, NEW ip \in Ips, ManualUnban(t, ip) PROVE TypeOK'
    <3>1. UnbanJob(ip) \in Jobs
      BY DEF UnbanJob, Jobs
    <3> QED
      BY <2>3, <3>1 DEF ManualUnban, Changed, TypeOK
  <2>4. ASSUME NEW t \in Threads, Send(t) PROVE TypeOK'
    <3>1. req[t].job \in Jobs
      BY DEF TypeOK
    <3> QED
      BY <2>4, <3>1, EnqueueType DEF Send, TypeOK
  <2>5. CASE SweepStart
    BY <2>5 DEF SweepStart, TypeOK
  <2>6. ASSUME NEW ip \in Ips, SweepRetain(ip) PROVE TypeOK'
    <3>1. table' \in [Ips -> Nat]
      BY <2>6, SMTT(20) DEF SweepRetain, TypeOK
    <3>2. raced' \subseteq Ips
      BY <2>6 DEF SweepRetain, Changed, TypeOK
    <3>3. /\ sweep' \in [cutoff: Nat, visit: SUBSET Ips, removed: SUBSET Ips]
          /\ sweep'.cutoff = sweep.cutoff
      <4>1. \/ sweep' = [sweep EXCEPT !.visit = sweep.visit \ {ip},
                                    !.removed = sweep.removed \union {ip}]
            \/ sweep' = [sweep EXCEPT !.visit = sweep.visit \ {ip}]
        BY <2>6 DEF SweepRetain
      <4>2. /\ sweep \in [cutoff: Nat, visit: SUBSET Ips, removed: SUBSET Ips]
            /\ sweep.visit \ {ip} \in SUBSET Ips
            /\ sweep.removed \union {ip} \in SUBSET Ips
        BY DEF TypeOK
      <4>3. \/ sweep' = [cutoff |-> sweep.cutoff, visit |-> sweep.visit \ {ip},
                         removed |-> sweep.removed \union {ip}]
            \/ sweep' = [cutoff |-> sweep.cutoff, visit |-> sweep.visit \ {ip},
                         removed |-> sweep.removed]
        BY <4>1, <4>2
      <4> QED
        BY <4>2, <4>3
    <3> QED
      BY <2>6, <3>1, <3>2, <3>3 DEF SweepRetain, TypeOK
  <2>7. ASSUME NEW ip \in Ips, SweepSend(ip) PROVE TypeOK'
    <3>1. UnbanJob(ip) \in Jobs
      BY DEF UnbanJob, Jobs
    <3> QED
      BY <2>7, <3>1, EnqueueType DEF SweepSend, TypeOK
  <2>8. CASE Take
    BY <2>8 DEF Take, TypeOK
  <2>9. CASE Apply \/ Fail
    <3>1. worker[1] \in Jobs /\ worker[1].ip \in Ips
      BY <2>9 DEF Apply, Fail, TypeOK, Jobs
    <3>2. CASE Apply
      <4>1. BlockEnds(worker[1].ip, worker[1].secs) \subseteq Nat
        <5>1. worker[1].secs \in Nat
          BY <3>1, JobFields
        <5>2. now + worker[1].secs \in Nat /\ os[worker[1].ip] \in Nat
          BY <3>1, <5>1 DEF TypeOK
        <5> QED
          BY <5>2 DEF BlockEnds
      <4>2. os' \in [Ips -> Nat]
        BY <3>1, <3>2, <4>1 DEF Apply, TypeOK
      <4> QED
        BY <3>2, <4>2 DEF Apply, TypeOK
    <3>3. CASE Fail
      BY <3>1, <3>3 DEF Fail, TypeOK
    <3> QED
      BY <2>9, <3>2, <3>3
  <2>10. CASE Tick
    BY <2>10 DEF Tick, TypeOK
  <2>11. CASE UNCHANGED vars
    BY <2>11 DEF vars, TypeOK
  <2> QED
    BY <2>1, <2>2, <2>3, <2>4, <2>5, <2>6, <2>7, <2>8, <2>9, <2>10, <2>11 DEF Next
<1> QED
  BY <1>1, <1>2, PTL DEF Spec

---------------------------------------------------------------------------
(* A recorded ban holds                                                    *)

\* No interleaving of bans, unbans of other addresses and sweeps ends a ban before
\* the expiry that ban has recorded.
THEOREM BansHold == Spec => []BanHolds
<1>1. Init => BanHolds
  BY DEF Init, BanHolds
<1>2. TypeOK /\ BanHolds /\ [Next]_vars => BanHolds'
  <2> SUFFICES ASSUME TypeOK, BanHolds, [Next]_vars PROVE BanHolds'
    OBVIOUS
  <2> USE DEF BanHolds, TypeOK
  <2>1. ASSUME NEW t \in Threads, BanInsert(t) PROVE BanHolds'
    <3>1. req[t].job.ip \in Ips /\ req[t].expiry \in Nat
      BY DEF Jobs
    <3> QED
      BY <2>1, <3>1 DEF BanInsert, Extended
  <2>2. ASSUME NEW t \in Threads, NEW ip \in Ips, ManualUnban(t, ip) PROVE BanHolds'
    BY <2>2 DEF ManualUnban
  <2>3. ASSUME NEW ip \in Ips, SweepRetain(ip) PROVE BanHolds'
    <3>1. CASE table[ip] # 0 /\ Over(table[ip])
      <4>1. ~(now < promised[ip])
        BY <3>1 DEF Over
      <4> QED
        BY <2>3, <4>1 DEF SweepRetain
    <3>2. CASE ~(table[ip] # 0 /\ Over(table[ip]))
      BY <2>3, <3>2 DEF SweepRetain
    <3> QED
      BY <3>1, <3>2
  <2>4. CASE Tick
    BY <2>4 DEF Tick
  <2>5. CASE UNCHANGED <<now, table, promised>>
    BY <2>5
  <2> QED
    BY <2>1, <2>2, <2>3, <2>4, <2>5
       DEF Next, BanCheck, Send, SweepStart, SweepSend, Take, Apply, Fail, vars
<1> QED
  BY <1>1, <1>2, QuarantineTypeCorrect, PTL DEF Spec

---------------------------------------------------------------------------
(* The table's limit                                                       *)

\* If every member of a set is the address of some thread in a function, the set has no
\* more members than there are threads.
LEMMA NoMoreThanThreads ==
    ASSUME NEW f, NEW T \in SUBSET Threads, NEW Target,
           f \in Surjection(T, Target)
    PROVE  IsFiniteSet(Target) /\ Cardinality(Target) <= Cardinality(Threads)
<1>1. IsFiniteSet(T) /\ Cardinality(T) <= Cardinality(Threads)
  BY QuarantineAssumption, FS_Subset
<1>2. IsFiniteSet(Target) /\ Cardinality(Target) <= Cardinality(T)
  BY <1>1, FS_Surjection
<1>3. /\ Cardinality(T) \in Nat /\ Cardinality(Target) \in Nat
      /\ Cardinality(Threads) \in Nat
  BY <1>1, <1>2, FS_CardinalityType, QuarantineAssumption
<1> QED
  BY <1>1, <1>2, <1>3

\* Each thread inserts at most one address at a time; said of the state after a step,
\* where the bound is used.
LEMMA InsertingBound ==
    ASSUME TypeOK'
    PROVE  IsFiniteSet(Inserting') /\ Cardinality(Inserting') <= Cardinality(Threads)
<1> DEFINE T == {t \in Threads : pc'[t] = "insert"}
           f == [t \in T |-> req'[t].job.ip]
<1>1. f \in Surjection(T, Inserting')
  BY DEF Inserting, TypeOK, Jobs, Surjection
<1>2. T \in SUBSET Threads
  OBVIOUS
<1> HIDE DEF f, T
<1> QED
  BY <1>1, <1>2, NoMoreThanThreads

\* A step that adds nobody to the table or to those on the way keeps the bound.
LEMMA NobodyAdded ==
    ASSUME TableBound, (Tracked \union Inserting)' \subseteq Tracked \union Inserting
    PROVE  TableBound'
<1>1. IsFiniteSet(Tracked \union Inserting)
  BY QuarantineAssumption, FS_Subset DEF Tracked, Inserting
<1>2. /\ IsFiniteSet((Tracked \union Inserting)')
      /\ Cardinality((Tracked \union Inserting)') <= Cardinality(Tracked \union Inserting)
  BY <1>1, FS_Subset
<1>3. /\ Cardinality((Tracked \union Inserting)') \in Nat
      /\ Cardinality(Tracked \union Inserting) \in Nat
      /\ Cardinality(Threads) \in Nat /\ MaxEntries \in Nat
  BY <1>1, <1>2, FS_CardinalityType, QuarantineAssumption
<1> QED
  BY <1>2, <1>3 DEF TableBound

\* However the checks and the inserts of the threads interleave with sweeps and
\* unbans, the table exceeds max_entries by at most the number of threads less one.
THEOREM TableBounded == Spec => []TableBound
<1>1. Init => TableBound
  <2> SUFFICES ASSUME Init PROVE TableBound
    OBVIOUS
  <2>1. Tracked \union Inserting = {}
    BY DEF Init, Tracked, Inserting
  <2>2. Cardinality(Threads) \in Nat /\ Cardinality(Threads) # 0
    BY QuarantineAssumption, FS_CardinalityType, FS_EmptySet
  <2>3. Cardinality(Tracked \union Inserting) = 0
    BY <2>1, FS_EmptySet
  <2> QED
    BY <2>2, <2>3, QuarantineAssumption DEF TableBound
<1>2. TypeOK /\ TypeOK' /\ TableBound /\ [Next]_vars => TableBound'
  <2> SUFFICES ASSUME TypeOK, TypeOK', TableBound, [Next]_vars PROVE TableBound'
    OBVIOUS
  <2>1. ASSUME NEW t \in Threads, NEW ip \in Ips, NEW secs \in Durations,
               BanCheck(t, ip, secs)
        PROVE  TableBound'
    <3>1. Tracked' = Tracked
      BY <2>1 DEF BanCheck, Tracked
    <3>2. CASE ~Admitted(ip)
      BY <2>1, <3>1, <3>2, NobodyAdded DEF BanCheck, Inserting
    <3>3. CASE table[ip] # 0
      <4>1. Inserting' \subseteq Inserting \union {ip}
        BY <2>1 DEF BanCheck, Inserting, TypeOK, BanJob
      <4>2. ip \in Tracked
        BY <3>3 DEF Tracked
      <4> QED
        BY <3>1, <4>1, <4>2, NobodyAdded
    <3>4. CASE Cardinality(Tracked) < MaxEntries
      <4>1. IsFiniteSet(Inserting') /\ Cardinality(Inserting') <= Cardinality(Threads)
        BY InsertingBound
      <4>2. IsFiniteSet(Tracked)
        BY QuarantineAssumption, FS_Subset DEF Tracked
      <4>3. IsFiniteSet(Tracked \union Inserting')
            /\ Cardinality(Tracked \union Inserting')
                 = Cardinality(Tracked) + Cardinality(Inserting')
                     - Cardinality(Tracked \intersect Inserting')
        BY <4>1, <4>2, FS_Union
      <4>4. IsFiniteSet(Tracked \intersect Inserting')
        BY <4>2, FS_Subset
      <4>5. /\ Cardinality(Tracked) \in Nat /\ Cardinality(Inserting') \in Nat
            /\ Cardinality(Tracked \intersect Inserting') \in Nat
            /\ Cardinality(Threads) \in Nat /\ MaxEntries \in Nat
        BY <4>1, <4>2, <4>4, FS_CardinalityType, QuarantineAssumption
      <4>6. Cardinality(Tracked \union Inserting') <= MaxEntries + Cardinality(Threads) - 1
        BY <3>4, <4>1, <4>3, <4>5
      <4> QED
        BY <3>1, <4>6 DEF TableBound
    <3> QED
      BY <3>2, <3>3, <3>4 DEF Admitted
  <2>2. ASSUME NEW t \in Threads, BanInsert(t) PROVE TableBound'
    <3>1. req[t].job.ip \in Inserting
      BY <2>2 DEF BanInsert, Inserting, TypeOK, Jobs
    <3>2. Inserting' \subseteq Inserting
      BY <2>2 DEF BanInsert, Inserting, TypeOK
    <3>3. Tracked' \subseteq Tracked \union {req[t].job.ip}
      BY <2>2 DEF BanInsert, Tracked, TypeOK
    <3> QED
      BY <3>1, <3>2, <3>3, NobodyAdded
  <2>3. ASSUME NEW t \in Threads, NEW ip \in Ips, ManualUnban(t, ip) PROVE TableBound'
    <3>1. Tracked' \subseteq Tracked
      BY <2>3 DEF ManualUnban, Tracked, TypeOK
    <3>2. Inserting' \subseteq Inserting
      BY <2>3 DEF ManualUnban, Inserting, TypeOK
    <3> QED
      BY <3>1, <3>2, NobodyAdded
  <2>4. ASSUME NEW ip \in Ips, SweepRetain(ip) PROVE TableBound'
    <3>1. Tracked' \subseteq Tracked
      BY <2>4 DEF SweepRetain, Tracked, TypeOK
    <3>2. Inserting' = Inserting
      BY <2>4 DEF SweepRetain, Inserting
    <3> QED
      BY <3>1, <3>2, NobodyAdded
  <2>5. ASSUME NEW t \in Threads, Send(t) PROVE TableBound'
    <3>1. Tracked' = Tracked
      BY <2>5 DEF Send, Tracked
    <3>2. Inserting' \subseteq Inserting
      BY <2>5 DEF Send, Inserting, TypeOK
    <3> QED
      BY <3>1, <3>2, NobodyAdded
  <2>6. CASE UNCHANGED <<table, pc, req>>
    BY <2>6, NobodyAdded DEF Tracked, Inserting
  <2> QED
    BY <2>1, <2>2, <2>3, <2>4, <2>5, <2>6
       DEF Next, SweepStart, SweepSend, Take, Apply, Fail, Tick, vars
<1> QED
  BY <1>1, <1>2, QuarantineTypeCorrect, PTL DEF Spec

---------------------------------------------------------------------------
(* The host's firewall follows the table                                   *)

\* Once the jobs that wait are applied, the host's firewall does not block ip.
Settled(ip) ==
    \/ \E i \in DOMAIN queue :
          /\ queue[i].ip = ip /\ queue[i].kind = "unban"
          /\ \A j \in DOMAIN queue : j > i => queue[j].ip # ip
    \/ /\ \A i \in DOMAIN queue : queue[i].ip # ip
       /\ \/ worker # <<>> /\ worker[1].ip = ip /\ worker[1].kind = "unban"
          \/ (worker = <<>> \/ worker[1].ip # ip) /\ os[ip] = 0

\* What is on its way about an address that is not in the table ends with an unban.
Fine(ip) ==
    /\ \A t \in Threads : pc[t] = "send" /\ req[t].job.ip = ip => req[t].job.kind = "unban"
    /\ ip \in Unsent \/ Settled(ip)

HostInv ==
    /\ \A t \in Threads : pc[t] = "insert" => req[t].expiry # 0
    /\ \A ip \in Ips \ (raced \union lost) : table[ip] = 0 => Fine(ip)

\* enqueue_sync of an unban settles its address, and disturbs no other one.
LEMMA EnqueueSettles ==
    ASSUME TypeOK, NEW job \in Jobs, EnqueueSync(job), UNCHANGED <<worker, os>>,
           NEW ip \in Ips \ lost'
    PROVE  /\ job.ip # ip /\ Settled(ip) => Settled(ip)'
           /\ job.ip = ip /\ job.kind = "unban" => Settled(ip)'
<1>1. queue \in Seq(Jobs)
  BY DEF TypeOK
<1>2. CASE QueueRoom
  <2>1. queue' = Append(queue, job)
    BY <1>2 DEF EnqueueSync
  <2>2. /\ DOMAIN queue' = DOMAIN queue \union {Len(queue) + 1}
        /\ Len(queue) \in Nat /\ DOMAIN queue = 1..Len(queue)
        /\ queue'[Len(queue) + 1] = job
        /\ \A i \in DOMAIN queue : queue'[i] = queue[i]
    BY <1>1, <2>1
  <2>3. ASSUME job.ip = ip, job.kind = "unban" PROVE Settled(ip)'
    <3>1. \A j \in DOMAIN queue' : ~(j > Len(queue) + 1)
      BY <2>2
    <3>2. Len(queue) + 1 \in DOMAIN queue'
      BY <2>2
    <3> QED
      BY <2>2, <2>3, <3>1, <3>2 DEF Settled
  <2>4. ASSUME job.ip # ip, Settled(ip) PROVE Settled(ip)'
    <3>1. CASE \A i \in DOMAIN queue : queue[i].ip # ip
      <4>1. \A i \in DOMAIN queue' : queue'[i].ip # ip
        BY <2>2, <2>4, <3>1
      <4> QED
        BY <2>4, <3>1, <4>1 DEF Settled
    <3>2. CASE ~\A i \in DOMAIN queue : queue[i].ip # ip
      <4>1. PICK i \in DOMAIN queue :
                /\ queue[i].ip = ip /\ queue[i].kind = "unban"
                /\ \A j \in DOMAIN queue : j > i => queue[j].ip # ip
        BY <2>4, <3>2 DEF Settled
      <4>2. \A j \in DOMAIN queue' : j > i => queue'[j].ip # ip
        BY <2>2, <2>4, <4>1
      <4>3. i \in DOMAIN queue' /\ queue'[i] = queue[i]
        BY <2>2
      <4> QED
        BY <4>1, <4>2, <4>3 DEF Settled
    <3> QED
      BY <3>1, <3>2
  <2> QED
    BY <2>3, <2>4
<1>3. CASE ~QueueRoom
  <2>1. queue' = queue /\ job.ip # ip
    BY <1>3 DEF EnqueueSync
  <2> QED
    BY <2>1 DEF Settled
<1> QED
  BY <1>2, <1>3

\* A step that changes neither the entry of ip nor any job keeps ip as it was.
LEMMA FineKept ==
    ASSUME NEW ip \in Ips, Fine(ip), UNCHANGED <<queue, worker, os>>,
           sweep'.removed = sweep.removed,
           \A t \in Threads : \/ pc'[t] = "send" /\ req'[t].job.ip = ip
                              \/ pc[t] = "send" /\ req[t].job.ip = ip
                              => pc'[t] = pc[t] /\ req'[t] = req[t]
    PROVE  Fine(ip)'
<1>1. Settled(ip) => Settled(ip)'
  BY DEF Settled
<1>2. (ip \in Unsent) => (ip \in Unsent)'
  BY DEF Unsent
<1> QED
  BY <1>1, <1>2 DEF Fine

\* The calls of the threads keep HostInv.
LEMMA HostThreadStep ==
    ASSUME TypeOK, HostInv, NEW t \in Threads,
           \/ \E a \in Ips, secs \in Durations : BanCheck(t, a, secs)
           \/ BanInsert(t)
           \/ \E a \in Ips : ManualUnban(t, a)
           \/ Send(t)
    PROVE  HostInv'
<1> USE QuarantineAssumption
<1>1. \A u \in Threads : req[u].job \in Jobs /\ req[u].job.ip \in Ips /\ req[u].expiry \in Nat
  BY JobFields DEF TypeOK
<1>2. ASSUME NEW a \in Ips, NEW secs \in Durations, BanCheck(t, a, secs) PROVE HostInv'
  <2>1. now + secs # 0
    BY DEF TypeOK
  <2>2. \A u \in Threads : u # t => pc'[u] = pc[u] /\ req'[u] = req[u]
    BY <1>2 DEF BanCheck, TypeOK
  <2>3. /\ pc[t] = "idle"
        /\ (pc'[t] = "insert" /\ req'[t].expiry = now + secs) \/ pc'[t] = "idle"
    BY <1>2 DEF BanCheck, TypeOK
  <2>4. \A u \in Threads : pc'[u] = "insert" => req'[u].expiry # 0
    BY <2>1, <2>2, <2>3 DEF HostInv
  <2>5. ASSUME NEW ip \in Ips, Fine(ip) PROVE Fine(ip)'
    BY <1>2, <2>2, <2>3, <2>5, FineKept DEF BanCheck
  <2>6. UNCHANGED <<raced, lost, table>>
    BY <1>2 DEF BanCheck
  <2> QED
    BY <2>4, <2>5, <2>6 DEF HostInv
<1>3. ASSUME BanInsert(t) PROVE HostInv'
  <2> DEFINE b == req[t].job.ip
  <2>1. /\ pc[t] = "insert" /\ pc'[t] = "send" /\ req' = req
        /\ \A u \in Threads : u # t => pc'[u] = pc[u]
        /\ table'[b] = Extended(table[b], req[t].expiry)
        /\ \A ip \in Ips : ip # b => table'[ip] = table[ip]
        /\ raced \subseteq raced'
        /\ UNCHANGED <<queue, worker, os, sweep, lost>>
    BY <1>1, <1>3 DEF BanInsert, Changed, TypeOK
  <2>2. table'[b] # 0
    BY <1>1, <2>1 DEF Extended, HostInv, TypeOK
  <2>3. ASSUME NEW ip \in Ips, ip # b, Fine(ip) PROVE Fine(ip)'
    BY <2>1, <2>3, FineKept
  <2>4. \A u \in Threads : pc'[u] = "insert" => req'[u].expiry # 0
    BY <2>1 DEF HostInv
  <2> QED
    BY <2>1, <2>2, <2>3, <2>4 DEF HostInv
<1>4. ASSUME NEW a \in Ips, ManualUnban(t, a) PROVE HostInv'
  <2>1. /\ pc[t] = "idle" /\ pc'[t] = "send"
        /\ req'[t].job.ip = a /\ req'[t].job.kind = "unban"
        /\ \A u \in Threads : u # t => pc'[u] = pc[u] /\ req'[u] = req[u]
        /\ \A ip \in Ips : ip # a => table'[ip] = table[ip]
        /\ UNCHANGED <<queue, worker, os, sweep, lost>>
    BY <1>4 DEF ManualUnban, UnbanJob, TypeOK
  <2>2. raced \subseteq raced' /\ (a \in Unsent => a \in raced')
    BY <1>4 DEF ManualUnban, Changed
  <2>3. ASSUME NEW ip \in Ips, ip # a, Fine(ip) PROVE Fine(ip)'
    BY <2>1, <2>3, FineKept
  <2>4. ASSUME a \notin Unsent PROVE Fine(a)'
    <3>1. \A u \in Threads : ~(pc[u] = "send" /\ req[u].job.ip = a)
      BY <2>4 DEF Unsent
    <3>2. (a \in Unsent)'
      BY <2>1 DEF Unsent
    <3> QED
      BY <2>1, <3>1, <3>2 DEF Fine
  <2>5. \A u \in Threads : pc'[u] = "insert" => req'[u].expiry # 0
    BY <2>1 DEF HostInv
  <2> QED
    BY <2>1, <2>2, <2>3, <2>4, <2>5 DEF HostInv
<1>5. ASSUME Send(t) PROVE HostInv'
  <2>1. /\ pc[t] = "send" /\ pc'[t] = "idle" /\ req' = req /\ EnqueueSync(req[t].job)
        /\ \A u \in Threads : u # t => pc'[u] = pc[u]
        /\ UNCHANGED <<worker, os, sweep, table, raced>>
    BY <1>5 DEF Send, TypeOK
  <2>2. lost \subseteq lost'
    BY <2>1 DEF EnqueueSync
  <2>3. ASSUME NEW ip \in Ips, ip \notin lost', Fine(ip) PROVE Fine(ip)'
    <3>1. \A u \in Threads : pc'[u] = "send" /\ req'[u].job.ip = ip
                             => req'[u].job.kind = "unban"
      BY <2>1, <2>3 DEF Fine
    <3>2. CASE req[t].job.ip = ip
      <4>1. req[t].job.kind = "unban"
        BY <2>1, <2>3, <3>2 DEF Fine
      <4>2. Settled(ip)'
        BY <1>1, <2>1, <2>3, <3>2, <4>1, EnqueueSettles
      <4> QED
        BY <3>1, <4>2 DEF Fine
    <3>3. CASE req[t].job.ip # ip
      <4>1. Settled(ip) => Settled(ip)'
        BY <1>1, <2>1, <2>3, <3>3, EnqueueSettles
      <4>2. (ip \in Unsent) => (ip \in Unsent)'
        BY <2>1, <3>3 DEF Unsent
      <4> QED
        BY <2>3, <3>1, <4>1, <4>2 DEF Fine
    <3> QED
      BY <3>2, <3>3
  <2>4. \A u \in Threads : pc'[u] = "insert" => req'[u].expiry # 0
    BY <2>1 DEF HostInv
  <2> QED
    BY <2>1, <2>2, <2>3, <2>4 DEF HostInv
<1> QED
  BY <1>2, <1>3, <1>4, <1>5

\* The sweep and the sync worker keep HostInv.
LEMMA HostWorkerStep ==
    ASSUME TypeOK, HostInv,
           \/ SweepStart \/ Take \/ Apply \/ Fail
           \/ \E a \in Ips : SweepRetain(a) \/ SweepSend(a)
    PROVE  HostInv'
<1> USE QuarantineAssumption
<1>1. CASE SweepStart
  <2>1. /\ sweep.removed = {} /\ sweep'.removed = {}
        /\ UNCHANGED <<pc, req, queue, worker, os, table, raced, lost>>
    BY <1>1 DEF SweepStart
  <2>2. ASSUME NEW ip \in Ips, Fine(ip) PROVE Fine(ip)'
    BY <2>1, <2>2, FineKept
  <2> QED
    BY <2>1, <2>2 DEF HostInv
<1>2. ASSUME NEW a \in Ips, SweepRetain(a) PROVE HostInv'
  <2>1. UNCHANGED <<pc, req, queue, worker, os, lost>>
    BY <1>2 DEF SweepRetain
  <2>2. CASE table[a] # 0 /\ Over(table[a])
    <3>1. /\ sweep'.removed = sweep.removed \union {a}
          /\ \A ip \in Ips : ip # a => table'[ip] = table[ip]
          /\ Changed(a)
      BY <1>2, <2>2 DEF SweepRetain, TypeOK
    <3>2. raced \subseteq raced' /\ (a \in Unsent => a \in raced')
      BY <3>1 DEF Changed
    <3>3. ASSUME NEW ip \in Ips, ip # a, Fine(ip) PROVE Fine(ip)'
      <4>1. Settled(ip) => Settled(ip)'
        BY <2>1 DEF Settled
      <4>2. (ip \in Unsent) => (ip \in Unsent)'
        BY <2>1, <3>1 DEF Unsent
      <4> QED
        BY <2>1, <3>3, <4>1, <4>2 DEF Fine
    <3>4. ASSUME a \notin Unsent PROVE Fine(a)'
      <4>1. (a \in Unsent)'
        BY <3>1 DEF Unsent
      <4> QED
        BY <2>1, <3>4, <4>1 DEF Fine, Unsent
    <3> QED
      BY <2>1, <3>1, <3>2, <3>3, <3>4 DEF HostInv
  <2>3. CASE ~(table[a] # 0 /\ Over(table[a]))
    <3>1. sweep'.removed = sweep.removed /\ UNCHANGED <<table, raced>>
      BY <1>2, <2>3 DEF SweepRetain, TypeOK
    <3>2. ASSUME NEW ip \in Ips, Fine(ip) PROVE Fine(ip)'
      BY <2>1, <3>1, <3>2, FineKept
    <3> QED
      BY <2>1, <3>1, <3>2 DEF HostInv
  <2> QED
    BY <2>2, <2>3
<1>3. ASSUME NEW a \in Ips, SweepSend(a) PROVE HostInv'
  <2>1. /\ EnqueueSync(UnbanJob(a)) /\ sweep'.removed = sweep.removed \ {a}
        /\ UNCHANGED <<worker, os, pc, req, table, raced>>
    BY <1>3 DEF SweepSend, TypeOK
  <2>2. /\ UnbanJob(a) \in Jobs /\ UnbanJob(a).ip = a /\ UnbanJob(a).kind = "unban"
    BY DEF UnbanJob, Jobs
  <2>3. lost \subseteq lost'
    BY <2>1 DEF EnqueueSync
  <2>4. ASSUME NEW ip \in Ips, ip \notin lost', Fine(ip) PROVE Fine(ip)'
    <3>1. CASE ip = a
      <4>1. Settled(ip)'
        BY <2>1, <2>2, <2>4, <3>1, EnqueueSettles
      <4> QED
        BY <2>1, <2>4, <4>1 DEF Fine
    <3>2. CASE ip # a
      <4>1. Settled(ip) => Settled(ip)'
        BY <2>1, <2>2, <2>4, <3>2, EnqueueSettles
      <4>2. (ip \in Unsent) => (ip \in Unsent)'
        BY <2>1, <3>2 DEF Unsent
      <4> QED
        BY <2>1, <2>4, <4>1, <4>2 DEF Fine
    <3> QED
      BY <3>1, <3>2
  <2> QED
    BY <2>1, <2>3, <2>4 DEF HostInv
<1>4. CASE Take
  <2>1. /\ worker = <<>> /\ queue # <<>> /\ worker' = <<Head(queue)>> /\ queue' = Tail(queue)
        /\ UNCHANGED <<os, pc, req, sweep, table, raced, lost>>
    BY <1>4 DEF Take
  <2>2. queue \in Seq(Jobs)
    BY DEF TypeOK
  <2>3. /\ queue' \in Seq(Jobs) /\ Len(queue') = Len(queue) - 1
        /\ \A i \in 1..Len(queue') : queue'[i] = queue[i + 1]
        /\ Head(queue) = queue[1]
    BY <2>1, <2>2, HeadTailProperties
  <2>4. worker' # <<>> /\ worker'[1] = queue[1]
    BY <2>1, <2>3
  <2>5. ASSUME NEW ip \in Ips, Settled(ip) PROVE Settled(ip)'
    <3>1. CASE \A i \in DOMAIN queue : queue[i].ip # ip
      <4>1. \A i \in DOMAIN queue' : queue'[i].ip # ip
        <5>1. \A i \in DOMAIN queue' : i + 1 \in DOMAIN queue /\ queue'[i] = queue[i + 1]
          BY <2>1, <2>2, <2>3
        <5> QED
          BY <3>1, <5>1
      <4>2. worker'[1].ip # ip
        BY <2>1, <2>2, <2>4, <3>1
      <4>3. os'[ip] = 0
        BY <2>1, <2>5, <3>1 DEF Settled
      <4> QED
        BY <4>1, <4>2, <4>3 DEF Settled
    <3>2. CASE ~\A i \in DOMAIN queue : queue[i].ip # ip
      <4>1. PICK i \in DOMAIN queue :
                /\ queue[i].ip = ip /\ queue[i].kind = "unban"
                /\ \A j \in DOMAIN queue : j > i => queue[j].ip # ip
        BY <2>5, <3>2 DEF Settled
      <4>2. i \in Nat /\ i >= 1 /\ i <= Len(queue) /\ Len(queue) \in Nat
            /\ DOMAIN queue = 1..Len(queue) /\ DOMAIN queue' = 1..(Len(queue) - 1)
        BY <2>2, <2>3, <4>1
      <4>3. CASE i = 1
        <5>1. \A j \in DOMAIN queue' : queue'[j].ip # ip
          BY <2>3, <4>1, <4>2, <4>3
        <5> QED
          BY <2>4, <4>1, <4>3, <5>1 DEF Settled
      <4>4. CASE i # 1
        <5>1. i - 1 \in DOMAIN queue' /\ queue'[i - 1] = queue[i]
          BY <2>3, <4>2, <4>4
        <5>2. \A j \in DOMAIN queue' : j > i - 1 => queue'[j].ip # ip
          BY <2>3, <4>1, <4>2, SMTT(20)
        <5> QED
          BY <4>1, <5>1, <5>2 DEF Settled
      <4> QED
        BY <4>3, <4>4
    <3> QED
      BY <3>1, <3>2
  <2>6. ASSUME NEW ip \in Ips, Fine(ip) PROVE Fine(ip)'
    <3>1. (ip \in Unsent) => (ip \in Unsent)'
      BY <2>1 DEF Unsent
    <3> QED
      BY <2>1, <2>5, <2>6, <3>1 DEF Fine
  <2> QED
    BY <2>1, <2>6 DEF HostInv
<1>5. CASE Apply
  <2> DEFINE job == worker[1]
  <2>1. /\ worker # <<>> /\ worker' = <<>>
        /\ UNCHANGED <<queue, pc, req, sweep, table, raced, lost>>
    BY <1>5 DEF Apply
  <2>2. job \in Jobs /\ job.ip \in Ips
    BY <2>1, JobFields DEF TypeOK
  <2>3. /\ \A ip \in Ips : ip # job.ip => os'[ip] = os[ip]
        /\ job.kind = "unban" => os'[job.ip] = 0
    BY <1>5, <2>2 DEF Apply, TypeOK
  <2> HIDE DEF job
  <2>4. ASSUME NEW ip \in Ips, Settled(ip) PROVE Settled(ip)'
    BY <2>1, <2>3, <2>4 DEF Settled, job
  <2>5. ASSUME NEW ip \in Ips, Fine(ip) PROVE Fine(ip)'
    <3>1. (ip \in Unsent) => (ip \in Unsent)'
      BY <2>1 DEF Unsent
    <3> QED
      BY <2>1, <2>4, <2>5, <3>1 DEF Fine
  <2> QED
    BY <2>1, <2>5 DEF HostInv
<1>6. CASE Fail
  <2>1. /\ worker # <<>> /\ worker' = <<>> /\ lost' = lost \union {worker[1].ip}
        /\ UNCHANGED <<queue, pc, req, sweep, table, raced, os>>
    BY <1>6 DEF Fail
  <2>2. ASSUME NEW ip \in Ips, ip # worker[1].ip, Fine(ip) PROVE Fine(ip)'
    <3>1. (ip \in Unsent) => (ip \in Unsent)'
      BY <2>1 DEF Unsent
    <3>2. Settled(ip) => Settled(ip)'
      BY <2>1, <2>2 DEF Settled
    <3> QED
      BY <2>1, <2>2, <3>1, <3>2 DEF Fine
  <2> QED
    BY <2>1, <2>2 DEF HostInv
<1> QED
  BY <1>1, <1>2, <1>3, <1>4, <1>5, <1>6

\* For any number of threads, any queue and however the sync worker falls behind: an
\* address whose changes never overlapped and whose jobs were not lost is not left
\* blocked in the host's firewall after it has left the table (enqueue_sync, the sync
\* worker and sweep_expired).
THEOREM HostFollows == Spec => []HostFollowsTable
<1>1. Init => HostInv
  <2> SUFFICES ASSUME Init PROVE HostInv
    OBVIOUS
  <2>1. /\ pc = [t \in Threads |-> "idle"] /\ queue = <<>> /\ worker = <<>>
        /\ os = [ip \in Ips |-> 0]
    BY DEF Init
  <2>2. \A ip \in Ips : Fine(ip)
    BY <2>1 DEF Fine, Settled
  <2> QED
    BY <2>1, <2>2 DEF HostInv
<1>2. TypeOK /\ HostInv /\ [Next]_vars => HostInv'
  <2> SUFFICES ASSUME TypeOK, HostInv, [Next]_vars PROVE HostInv'
    OBVIOUS
  <2>1. CASE UNCHANGED <<table, pc, req, sweep, queue, worker, os, raced, lost>>
    <3>1. ASSUME NEW ip \in Ips, Fine(ip) PROVE Fine(ip)'
      BY <2>1, <3>1, FineKept
    <3> QED
      BY <2>1, <3>1 DEF HostInv
  <2>2. CASE Tick \/ UNCHANGED vars
    BY <2>1, <2>2 DEF Tick, vars
  <2> QED
    BY <2>2, HostThreadStep, HostWorkerStep DEF Next
<1>3. TypeOK /\ HostInv => HostFollowsTable
  <2> SUFFICES ASSUME TypeOK, HostInv, NEW ip \in Ips \ (raced \union lost), Quiet(ip),
                      Blocked(ip), ip \notin Tracked
               PROVE  FALSE
    BY DEF HostFollowsTable
  <2>1. Fine(ip) /\ ip \notin Unsent
    BY DEF HostInv, Tracked, Quiet
  <2>2. os[ip] = 0
    BY <2>1 DEF Fine, Settled, Quiet
  <2> QED
    BY <2>2 DEF Blocked, TypeOK
<1> QED
  BY <1>1, <1>2, <1>3, QuarantineTypeCorrect, PTL DEF Spec
=============================================================================
