------------------------- MODULE XdpBlocklistProofs -------------------------
(***************************************************************************)
(* What XdpBlocklist guarantees for every number of hosts and tasks, every *)
(* rate limit, window, time-to-live and sweep interval, proved with TLAPS. *)
(*                                                                         *)
(* The invariants are about three things that do not touch each other: the *)
(* limiter and its history; the expiries in the map and the sweep's        *)
(* ticker; and the keys that can be anywhere at all, in the map, a         *)
(* snapshot, or a file that a restart may read back.                       *)
(***************************************************************************)
EXTENDS XdpBlocklist, SequenceTheorems, FiniteSetTheorems, TLAPS

---------------------------------------------------------------------------
(* The limiter                                                             *)

\* A nonempty set of numbers has a smallest one.
LEMMA Smallest ==
    ASSUME NEW T, T \subseteq Nat, T # {}
    PROVE  \E n \in T : \A m \in T : n <= m
<1> DEFINE R == {p \in Nat \X Nat : p[1] < p[2]}
<1>0. IsWellFoundedOn(R, Nat)
  BY NatLessThanWellFounded DEF OpToRel
<1>1. PICK n \in T : \A m \in T : ~(<<m, n>> \in R)
  <2> HIDE DEF R
  <2> QED
    BY <1>0, WFMin
<1>2. ASSUME NEW m \in T, m < n PROVE FALSE
  <2>1. <<m, n>> \in Nat \X Nat /\ <<m, n>>[1] < <<m, n>>[2]
    BY <1>2
  <2> QED
    BY <1>1, <2>1
<1> QED
  BY <1>1, <1>2

\* allow pops a front of stale events and stops at the first that is not.
LEMMA PoppedFront ==
    ASSUME limiter \in Seq(Nat)
    PROVE  /\ Popped \in 0..Len(limiter)
           /\ \A i \in 1..Popped : Stale(limiter[i])
<1> DEFINE P(n) == /\ \A i \in 1..n : Stale(limiter[i])
                   /\ n < Len(limiter) => ~Stale(limiter[n + 1])
           Fresh == {i \in 1..Len(limiter) : ~Stale(limiter[i])}
<1>1. \E n \in 0..Len(limiter) : P(n)
  <2>1. CASE Fresh = {}
    BY <2>1
  <2>2. CASE Fresh # {}
    <3>1. PICK n \in Fresh : \A m \in Fresh : n <= m
      <4> HIDE DEF Fresh
      <4>1. Fresh \subseteq Nat
        BY DEF Fresh
      <4> QED
        BY <2>2, <4>1, Smallest
    <3>2. n - 1 \in 0..Len(limiter) /\ P(n - 1)
      BY <3>1
    <3> QED
      BY <3>2
  <2> QED
    BY <2>1, <2>2
<1>2. Popped = CHOOSE n \in 0..Len(limiter) : P(n)
  BY DEF Popped
<1> HIDE DEF P
<1>3. Popped \in 0..Len(limiter) /\ P(Popped)
  BY <1>1, <1>2
<1> QED
  BY <1>3 DEF P

\* What is left is a back part of the events.
LEMMA PrunedBack ==
    ASSUME limiter \in Seq(Nat)
    PROVE  /\ Pruned \in Seq(Nat)
           /\ Len(Pruned) = Len(limiter) - Popped
           /\ \A i \in 1..Len(Pruned) : Pruned[i] = limiter[Popped + i]
<1>1. Popped \in 0..Len(limiter)
  BY PoppedFront
<1>2. \A i \in (Popped + 1)..Len(limiter) : limiter[i] \in Nat
  BY <1>1
<1> QED
  BY <1>1, <1>2, SubSeqProperties DEF Pruned

\* The limiter holds the last approvals, and those it has forgotten are stale.
LimiterInv ==
    /\ now \in Nat
    /\ limiter \in Seq(Nat)
    /\ approvals \in Seq(Nat)
    /\ Len(limiter) <= RateLimit
    /\ Len(limiter) <= Len(approvals)
    /\ \A i \in 1..Len(limiter) : limiter[i] = approvals[Len(approvals) - Len(limiter) + i]
    /\ \A i \in 1..(Len(approvals) - Len(limiter)) : Stale(approvals[i])
    /\ \A i \in 1..Len(approvals) : approvals[i] <= now
    /\ \A i \in 1..(Len(limiter) - 1) : limiter[i] <= limiter[i + 1]
    /\ RateBound

\* A call of allow keeps it, whether it lets the block through or not.
LEMMA AllowStep ==
    ASSUME LimiterInv, now' = now,
           \/ /\ RateOK
              /\ limiter' = Append(Pruned, now)
              /\ approvals' = Append(approvals, now)
           \/ /\ ~RateOK
              /\ limiter' = Pruned
              /\ UNCHANGED approvals
    PROVE  LimiterInv'
<1> USE XdpBlocklistAssumption
<1> DEFINE a == Len(approvals)
           l == Len(limiter)
           n == Popped
<1>0. /\ limiter \in Seq(Nat) /\ approvals \in Seq(Nat) /\ now \in Nat
      /\ a \in Nat /\ l \in Nat /\ l <= a /\ l <= RateLimit
  BY DEF LimiterInv
<1>1. /\ n \in 0..l
      /\ \A i \in 1..n : Stale(limiter[i])
  BY <1>0, PoppedFront
<1>2. /\ Pruned \in Seq(Nat)
      /\ Len(Pruned) = l - n
      /\ \A i \in 1..(l - n) : Pruned[i] = limiter[n + i]
  BY <1>0, PrunedBack
<1>3. \A i \in 1..(l - n) : Pruned[i] = approvals[a - (l - n) + i]
  <2> TAKE i \in 1..(l - n)
  <2>1. n + i \in 1..l
    BY <1>0, <1>1
  <2>2. limiter[n + i] = approvals[a - l + (n + i)]
    BY <2>1 DEF LimiterInv
  <2>3. a - l + (n + i) = a - (l - n) + i
    BY <1>0, <1>1
  <2> QED
    BY <1>2, <2>2, <2>3
<1>4. \A i \in 1..(a - (l - n)) : Stale(approvals[i])
  <2> TAKE i \in 1..(a - (l - n))
  <2>1. CASE i <= a - l
    BY <1>0, <1>1, <2>1 DEF LimiterInv
  <2>2. CASE i > a - l
    <3>1. i - (a - l) \in 1..n /\ i - (a - l) \in 1..l
      BY <1>0, <1>1, <2>2
    <3>2. limiter[i - (a - l)] = approvals[a - l + (i - (a - l))]
      BY <3>1 DEF LimiterInv
    <3>3. a - l + (i - (a - l)) = i
      BY <1>0
    <3> QED
      BY <1>1, <3>1, <3>2, <3>3
  <2> QED
    BY <1>0, <1>1, <2>1, <2>2
<1>5. \A i \in 1..(l - n - 1) : Pruned[i] <= Pruned[i + 1]
  <2> TAKE i \in 1..(l - n - 1)
  <2>1. n + i \in 1..(l - 1) /\ i \in 1..(l - n) /\ i + 1 \in 1..(l - n)
    BY <1>0, <1>1
  <2>2. limiter[n + i] <= limiter[(n + i) + 1]
    BY <2>1 DEF LimiterInv
  <2>3. (n + i) + 1 = n + (i + 1)
    BY <1>0, <1>1
  <2> QED
    BY <1>2, <2>1, <2>2, <2>3
<1>6. \A i \in 1..a : approvals[i] <= now /\ approvals[i] \in Nat
  BY <1>0 DEF LimiterInv
<1>7. \A i \in DOMAIN approvals : i + RateLimit \in DOMAIN approvals
            => approvals[i + RateLimit] - approvals[i] > RateWindow
  BY DEF LimiterInv, RateBound
<1>8. CASE ~RateOK /\ limiter' = Pruned /\ UNCHANGED approvals
  <2>1. \A i \in 1..(a - (l - n)) : now' - approvals'[i] > RateWindow
    BY <1>4, <1>8 DEF Stale
  <2>2. RateBound'
    BY <1>7, <1>8 DEF RateBound
  <2>3. Len(approvals') = a /\ Len(limiter') = l - n
    BY <1>2, <1>8
  <2> HIDE DEF n, a, l
  <2>4. \A i \in 1..Len(limiter') : limiter'[i] = approvals'[Len(approvals') - Len(limiter') + i]
    BY <1>3, <1>8, <2>3
  <2>5. \A i \in 1..(Len(limiter') - 1) : limiter'[i] <= limiter'[i + 1]
    BY <1>5, <1>8, <2>3
  <2>6. \A i \in 1..Len(approvals') : approvals'[i] <= now'
    BY <1>6, <1>8, <2>3
  <2>7. \A i \in 1..(Len(approvals') - Len(limiter')) : now' - approvals'[i] > RateWindow
    BY <2>1, <2>3
  <2>8. /\ now' \in Nat /\ limiter' \in Seq(Nat) /\ approvals' \in Seq(Nat)
        /\ Len(limiter') <= RateLimit /\ Len(limiter') <= Len(approvals')
    BY <1>0, <1>1, <1>2, <1>8, <2>3
  <2> QED
    BY <2>2, <2>4, <2>5, <2>6, <2>7, <2>8 DEF LimiterInv, Stale
<1>9. CASE RateOK /\ limiter' = Append(Pruned, now) /\ approvals' = Append(approvals, now)
  <2>1. l - n < RateLimit
    BY <1>2, <1>9 DEF RateOK
  <2>2. /\ limiter' \in Seq(Nat)
        /\ Len(limiter') = l - n + 1
        /\ \A i \in 1..(l - n) : limiter'[i] = Pruned[i]
        /\ limiter'[l - n + 1] = now
    BY <1>0, <1>2, <1>9, AppendProperties
  <2>3. /\ approvals' \in Seq(Nat)
        /\ Len(approvals') = a + 1
        /\ \A i \in 1..a : approvals'[i] = approvals[i]
        /\ approvals'[a + 1] = now
    BY <1>0, <1>9, AppendProperties
  <2> HIDE DEF n, a, l
  <2>4. \A i \in 1..(l - n + 1) : limiter'[i] = approvals'[(a + 1) - (l - n + 1) + i]
    <3> TAKE i \in 1..(l - n + 1)
    <3>1. CASE i = l - n + 1
      BY <1>0, <1>1, <2>2, <2>3, <3>1
    <3>2. CASE i \in 1..(l - n)
      <4>1. a - (l - n) + i \in 1..a /\ (a + 1) - (l - n + 1) + i = a - (l - n) + i
        BY <1>0, <1>1, <3>2
      <4> QED
        BY <1>3, <2>2, <2>3, <3>2, <4>1
    <3> QED
      BY <1>0, <1>1, <3>1, <3>2
  <2>5. \A i \in 1..((a + 1) - (l - n + 1)) : now' - approvals'[i] > RateWindow
    <3> TAKE i \in 1..((a + 1) - (l - n + 1))
    <3>1. i \in 1..(a - (l - n)) /\ i \in 1..a
      BY <1>0, <1>1
    <3>2. Stale(approvals[i]) /\ approvals'[i] = approvals[i]
      BY <1>4, <2>3, <3>1
    <3> QED
      BY <3>2 DEF Stale
  <2>6. \A i \in 1..(a + 1) : approvals'[i] <= now
    BY <1>0, <1>6, <2>3
  <2>7. \A i \in 1..(l - n) : limiter'[i] <= limiter'[i + 1]
    <3> TAKE i \in 1..(l - n)
    <3>1. CASE i = l - n
      <4>1. a - (l - n) + i \in 1..a
        BY <1>0, <1>1, <3>1
      <4>2. Pruned[i] <= now
        BY <1>3, <1>6, <4>1
      <4> QED
        BY <2>2, <3>1, <4>2
    <3>2. CASE i \in 1..(l - n - 1)
      <4>1. i + 1 \in 1..(l - n)
        BY <1>0, <1>1, <3>2
      <4> QED
        BY <1>5, <2>2, <3>2, <4>1
    <3> QED
      BY <1>0, <1>1, <3>1, <3>2
  <2>8. RateBound'
    <3> SUFFICES ASSUME NEW i \in 1..(a + 1), i + RateLimit \in 1..(a + 1)
                 PROVE  approvals'[i + RateLimit] - approvals'[i] > RateWindow
      BY <2>3 DEF RateBound
    <3>1. CASE i + RateLimit <= a
      <4>1. i \in DOMAIN approvals /\ i + RateLimit \in DOMAIN approvals
        BY <1>0, <3>1 DEF a
      <4>2. i \in 1..a /\ i + RateLimit \in 1..a
        BY <1>0, <3>1
      <4> QED
        BY <1>7, <2>3, <4>1, <4>2
    <3>2. CASE i + RateLimit = a + 1
      <4>1. i \in 1..(a - (l - n)) /\ i \in 1..a
        BY <1>0, <1>1, <2>1, <3>2
      <4>2. now - approvals[i] > RateWindow
        BY <1>4, <4>1 DEF Stale
      <4> QED
        BY <2>3, <3>2, <4>1, <4>2
    <3> QED
      BY <1>0, <3>1, <3>2
  <2> QED
    BY <1>0, <1>1, <2>1, <2>2, <2>3, <2>4, <2>5, <2>6, <2>7, <2>8
    DEF LimiterInv, Stale
<1> QED
  BY <1>8, <1>9

\* Nothing but allow, a restart and the clock touches it.
LEMMA LimiterStep ==
    ASSUME LimiterInv, [Next]_vars
    PROVE  LimiterInv'
<1> USE XdpBlocklistAssumption
<1>1. ASSUME NEW t \in Tasks, NEW h \in Hosts, NEW p, NEW ttl \in Ttls, NEW m,
             Block(t, h, p, ttl, m)
      PROVE  LimiterInv'
  BY <1>1, AllowStep DEF Block
<1>2. ASSUME UNCHANGED <<now, limiter, approvals>> PROVE LimiterInv'
  BY <1>2 DEF LimiterInv, RateBound, Stale
<1>3. ASSUME Restart PROVE LimiterInv'
  BY <1>3 DEF Restart, LimiterInv, RateBound
<1>4. ASSUME Tick PROVE LimiterInv'
  <2>1. now' = now + 1 /\ UNCHANGED <<limiter, approvals>>
    BY <1>4 DEF Tick
  <2>2. /\ now \in Nat /\ Len(limiter) \in Nat /\ Len(approvals) \in Nat
        /\ Len(limiter) <= Len(approvals)
        /\ \A i \in 1..Len(approvals) : approvals[i] \in Nat
    BY DEF LimiterInv
  <2>3. \A i \in 1..(Len(approvals) - Len(limiter)) : now' - approvals'[i] > RateWindow
    <3> TAKE i \in 1..(Len(approvals) - Len(limiter))
    <3>1. now - approvals[i] > RateWindow
      BY DEF LimiterInv, Stale
    <3>2. approvals[i] \in Nat
      BY <2>2
    <3> QED
      BY <2>1, <2>2, <3>1, <3>2
  <2>4. \A i \in 1..Len(approvals) : approvals'[i] <= now'
    BY <2>1, <2>2 DEF LimiterInv
  <2>5. RateBound'
    BY <2>1 DEF LimiterInv, RateBound
  <2>6. now' \in Nat
    BY <2>1, <2>2
  <2> QED
    BY <2>1, <2>3, <2>4, <2>5, <2>6 DEF LimiterInv, Stale
<1>5. ASSUME NEW t \in Tasks,
             \/ \E h \in Hosts, ttl \in Ttls :
                  \/ AutoBlock(t, h, ttl)
                  \/ \E prefix \in Prefixes : ManualBlock(t, h, prefix, ttl)
             \/ \E h \in Hosts, prefix \in Prefixes : Unblock(t, h, prefix)
             \/ BlockInsert(t) \/ Snapshot(t) \/ CreateTmp(t) \/ WriteTmp(t) \/ Rename(t)
      PROVE  LimiterInv'
  BY <1>1, <1>2, <1>5 DEF AutoBlock, ManualBlock, Unblock, BlockInsert, Snapshot,
                          CreateTmp, WriteTmp, Rename
<1> QED
  BY <1>2, <1>3, <1>4, <1>5 DEF Next, vars, SweepCollect, SweepRemove

\* RateLimiter::allow: in no stretch of rate_window does the limiter let more than
\* rate_limit blocks through, automatic and manual together, whatever the limit, the
\* window and the number of callers.
THEOREM LimiterHolds == Spec => []RateBound
<1>1. Init => LimiterInv
  BY XdpBlocklistAssumption DEF Init, LimiterInv, RateBound
<1>2. LimiterInv /\ [Next]_vars => LimiterInv'
  BY LimiterStep
<1>3. LimiterInv => RateBound
  BY DEF LimiterInv
<1> QED
  BY <1>1, <1>2, <1>3, PTL DEF Spec

---------------------------------------------------------------------------
(* The keys that may be in the map, in a snapshot or in a file             *)

\* The maps whose keys are of the given set.
Lists(K) == UNION {[S -> Nat] : S \in SUBSET K}

LEMMA ListsElement ==
    ASSUME NEW K, NEW m
    PROVE  m \in Lists(K) <=> \E S \in SUBSET K : m \in [S -> Nat]
BY DEF Lists

LEMMA ListsFields ==
    ASSUME NEW K, NEW m \in Lists(K)
    PROVE  /\ DOMAIN m \subseteq K
           /\ \A k \in DOMAIN m : m[k] \in Nat
BY DEF Lists

\* Insert, remove, and the ways a file comes about make no new key.
LEMMA ListsClosed ==
    ASSUME NEW K, NEW m \in Lists(K)
    PROVE  /\ EmptyMap \in Lists(K)
           /\ \A k \in K, e \in Nat : Insert(m, k, e) \in Lists(K)
           /\ \A gone : Without(m, gone) \in Lists(K)
           /\ \A older \in Lists(K) : Overlaid(m, older) \subseteq Lists(K)
           /\ \A S \in SUBSET (DOMAIN m) : [k \in S |-> m[k]] \in Lists(K)
<1> USE ListsFields
<1>1. EmptyMap \in [{} -> Nat]
  BY DEF EmptyMap
<1>2. ASSUME NEW k \in K, NEW e \in Nat
      PROVE  Insert(m, k, e) \in [DOMAIN m \union {k} -> Nat] /\ DOMAIN m \union {k} \subseteq K
  BY DEF Insert
<1>3. ASSUME NEW gone
      PROVE  Without(m, gone) \in [DOMAIN m \ gone -> Nat] /\ DOMAIN m \ gone \subseteq K
  BY DEF Without
<1>4. ASSUME NEW older \in Lists(K), NEW r \in Overlaid(m, older) PROVE r \in Lists(K)
  <2>1. PICK tail \in SUBSET DOMAIN older :
           r = [k \in DOMAIN m \union tail |-> IF k \in tail THEN older[k] ELSE m[k]]
    BY DEF Overlaid
  <2>2. r \in [DOMAIN m \union tail -> Nat] /\ DOMAIN m \union tail \subseteq K
    BY <2>1
  <2> QED
    BY <2>2, ListsElement
<1>5. ASSUME NEW S \in SUBSET DOMAIN m
      PROVE  [k \in S |-> m[k]] \in [S -> Nat] /\ S \subseteq K
  OBVIOUS
<1>6. EmptyMap \in Lists(K)
  BY <1>1, ListsElement
<1>7. \A k \in K, e \in Nat : Insert(m, k, e) \in Lists(K)
  BY <1>2, ListsElement
<1>8. \A gone : Without(m, gone) \in Lists(K)
  BY <1>3, ListsElement
<1>9. \A S \in SUBSET (DOMAIN m) : [k \in S |-> m[k]] \in Lists(K)
  BY <1>5, ListsElement
<1> QED
  BY <1>4, <1>6, <1>7, <1>8, <1>9

Names == {{}} \union {{i} : i \in Inodes}

Files(K) == [content : [Inodes -> Lists(K)], path : Names, tmp : Names]

Task(K) ==
    [pc : {"idle", "approved", "changed", "listed", "created", "written"},
     key : SUBSET Hosts, ttl : Nat, snapshot : Lists(K), fd : SUBSET Inodes]

\* Every variable has its type, and every key there is, is one of K.
KeysInv(K) ==
    /\ now \in Nat /\ nextSweep \in Nat /\ ops \in 0..MaxOps
    /\ map \in Lists(K) /\ Cardinality(DOMAIN map) <= MaxEntries
    /\ sweep \subseteq K /\ overtaken \subseteq K
    /\ fs \in Files(K)
    /\ task \in [Tasks -> Task(K)]
    /\ \A t \in Tasks : task[t].pc = "approved" => task[t].key \in K

\* K holds the keys that the callers can ask to block.
Covers(K) ==
    /\ K \subseteq Keys
    /\ \A h \in Hosts \ Allowlist, p \in Prefixes \union {"default"} : BlockKey(h, p) \in K

LEMMA KeysFinite == IsFiniteSet(Keys) /\ \A k \in Keys : k \subseteq Hosts
<1> USE XdpBlocklistAssumption
<1>1. Keys \subseteq SUBSET Hosts
  BY DEF Keys, Key
<1> QED
  BY <1>1, FS_SUBSET, FS_Subset

LEMMA ListFinite ==
    ASSUME NEW K, K \subseteq Keys, NEW m \in Lists(K)
    PROVE  IsFiniteSet(DOMAIN m) /\ Cardinality(DOMAIN m) \in Nat
BY KeysFinite, ListsFields, FS_Subset, FS_CardinalityType

\* A map that is not full takes a key, a smaller map stays within the bound.
LEMMA MapBound ==
    ASSUME NEW K, K \subseteq Keys, NEW m \in Lists(K), Cardinality(DOMAIN m) <= MaxEntries
    PROVE  /\ \A k, e : k \in DOMAIN m \/ Cardinality(DOMAIN m) < MaxEntries
                        => Cardinality(DOMAIN Insert(m, k, e)) <= MaxEntries
           /\ \A gone : Cardinality(DOMAIN Without(m, gone)) <= MaxEntries
<1> USE XdpBlocklistAssumption
<1>1. IsFiniteSet(DOMAIN m) /\ Cardinality(DOMAIN m) \in Nat
  BY ListFinite
<1>2. ASSUME NEW k, NEW e, k \in DOMAIN m \/ Cardinality(DOMAIN m) < MaxEntries
      PROVE  Cardinality(DOMAIN Insert(m, k, e)) <= MaxEntries
  <2>1. DOMAIN Insert(m, k, e) = DOMAIN m \union {k}
    BY DEF Insert
  <2>2. CASE k \in DOMAIN m
    <3>1. DOMAIN m \union {k} = DOMAIN m
      BY <2>2
    <3> QED
      BY <2>1, <3>1
  <2>3. CASE k \notin DOMAIN m
    <3>1. Cardinality(DOMAIN m \union {k}) = Cardinality(DOMAIN m) + 1
      BY <1>1, <2>3, FS_AddElement
    <3> QED
      BY <1>1, <1>2, <2>1, <2>3, <3>1
  <2> QED
    BY <2>2, <2>3
<1>3. ASSUME NEW gone PROVE Cardinality(DOMAIN Without(m, gone)) <= MaxEntries
  <2>1. DOMAIN Without(m, gone) \subseteq DOMAIN m
    BY DEF Without
  <2>2. Cardinality(DOMAIN Without(m, gone)) <= Cardinality(DOMAIN m)
    BY <1>1, <2>1, FS_Subset
  <2>3. Cardinality(DOMAIN Without(m, gone)) \in Nat
    BY <1>1, <2>1, FS_Subset, FS_CardinalityType
  <2> QED
    BY <1>1, <2>2, <2>3
<1> QED
  BY <1>2, <1>3

\* Opening, writing and renaming keep the file system well-formed.
LEMMA FilesClosed ==
    ASSUME NEW K, NEW f \in Files(K), NEW i \in Inodes, NEW m \in Lists(K)
    PROVE  /\ OpenTmp(f, i, m) \in Files(K)
           /\ WriteInode(f, i, m) \in Files(K)
           /\ RenameTmp(f) \in Files(K)
<1>1. /\ f = [content |-> f.content, path |-> f.path, tmp |-> f.tmp]
      /\ f.content \in [Inodes -> Lists(K)] /\ f.path \in Names /\ f.tmp \in Names
  BY DEF Files
<1>2. [f.content EXCEPT ![i] = m] \in [Inodes -> Lists(K)]
  BY <1>1
<1>3. {i} \in Names /\ {} \in Names
  BY DEF Names
<1>4. OpenTmp(f, i, m) \in Files(K)
  BY <1>1, <1>2, <1>3 DEF OpenTmp, Files
<1>5. WriteInode(f, i, m) = [content |-> [f.content EXCEPT ![i] = m], path |-> f.path,
                             tmp |-> f.tmp]
  BY <1>1 DEF WriteInode
<1>6. RenameTmp(f) \in Files(K)
  BY <1>1, <1>3 DEF RenameTmp, Files
<1> QED
  BY <1>1, <1>2, <1>3, <1>4, <1>5, <1>6 DEF Files

\* A restart reads back keys it finds in the file, no more than the map holds.
LEMMA RestoredLists ==
    ASSUME NEW K, K \subseteq Keys, NEW f \in Files(K), NEW m \in Restored(f)
    PROVE  /\ m \in Lists(K)
           /\ Cardinality(DOMAIN m) <= MaxEntries
           /\ \A k \in DOMAIN m : m[k] > now
<1>1. Persisted(f) \in Lists(K)
  <2>1. CASE f.path = {}
    BY <2>1, ListsElement DEF Persisted, EmptyMap
  <2>2. CASE f.path # {}
    <3>1. PICK i \in Inodes : f.path = {i}
      BY <2>2 DEF Files, Names
    <3>2. (CHOOSE j \in f.path : TRUE) = i
      BY <3>1
    <3> QED
      BY <2>2, <3>2 DEF Persisted, Files
  <2> QED
    BY <2>1, <2>2
<1> DEFINE file == Persisted(f)
<1> HIDE DEF file
<1>2. PICK S \in SUBSET {k \in DOMAIN file : file[k] > now} :
         Cardinality(S) <= MaxEntries /\ m = [k \in S |-> file[k]]
  BY DEF Restored, file
<1>3. file \in Lists(K) /\ S \in SUBSET (DOMAIN file)
  BY <1>1, <1>2 DEF file
<1>4. [k \in S |-> file[k]] \in Lists(K)
  BY <1>3, ListsClosed
<1> QED
  BY <1>2, <1>4

\* What a write that was cut short leaves is well-formed too.
LEMMA InterruptedFiles ==
    ASSUME NEW K, KeysInv(K), NEW f \in Interrupted
    PROVE  f \in Files(K)
<1>1. CASE f = fs
  BY <1>1 DEF KeysInv
<1>2. CASE f # fs
  <2>1. PICK t \in Tasks : \E i \in task[t].fd, lost \in SUBSET DOMAIN task[t].snapshot :
                              f = WriteInode(fs, i, Without(task[t].snapshot, lost))
    BY <1>2 DEF Interrupted
  <2>2. PICK i \in task[t].fd, lost \in SUBSET DOMAIN task[t].snapshot :
           f = WriteInode(fs, i, Without(task[t].snapshot, lost))
    BY <2>1
  <2>3. task[t].snapshot \in Lists(K) /\ i \in Inodes /\ fs \in Files(K)
    BY DEF KeysInv, Task
  <2>4. Without(task[t].snapshot, lost) \in Lists(K)
    BY <2>3, ListsClosed
  <2> QED
    BY <2>2, <2>3, <2>4, FilesClosed
<1> QED
  BY <1>1, <1>2

\* One step of a task.
LEMMA KeysTaskStep ==
    ASSUME NEW K, Covers(K), KeysInv(K), NEW t \in Tasks,
           \/ \E h \in Hosts, ttl \in Ttls :
                \/ AutoBlock(t, h, ttl)
                \/ \E prefix \in Prefixes : ManualBlock(t, h, prefix, ttl)
           \/ \E h \in Hosts, prefix \in Prefixes : Unblock(t, h, prefix)
           \/ BlockInsert(t) \/ Snapshot(t) \/ CreateTmp(t) \/ WriteTmp(t) \/ Rename(t)
    PROVE  KeysInv(K)'
<1> USE XdpBlocklistAssumption
<1>0. /\ K \subseteq Keys /\ map \in Lists(K) /\ Cardinality(DOMAIN map) <= MaxEntries
      /\ fs \in Files(K) /\ task \in [Tasks -> Task(K)] /\ task[t] \in Task(K)
      /\ now \in Nat /\ ops \in 0..MaxOps
  BY DEF KeysInv, Covers
<1>1. Idle \in Task(K) /\ EmptyMap \in Lists(K)
  BY <1>0, ListsClosed DEF Idle, Task
<1>2. ASSUME NEW h \in Hosts, NEW p \in Prefixes \union {"default"}, NEW ttl \in Ttls, NEW m,
             Block(t, h, p, ttl, m)
      PROVE  KeysInv(K)'
  <2>1. BlockKey(h, p) \in K /\ BlockKey(h, p) \subseteq Hosts
    BY <1>0, <1>2, KeysFinite DEF Block, Protected, Covers
  <2>2. [Idle EXCEPT !.pc = "approved", !.key = BlockKey(h, p), !.ttl = ttl] \in Task(K)
    BY <1>1, <2>1 DEF Task, Idle
  <2>3. /\ ops' \in 0..MaxOps
        /\ UNCHANGED <<now, map, sweep, nextSweep, fs, overtaken>>
        /\ \/ task' = task
           \/ task' = [task EXCEPT ![t] =
                 [Idle EXCEPT !.pc = "approved", !.key = BlockKey(h, p), !.ttl = ttl]]
    BY <1>0, <1>2 DEF Block
  <2>4. task' \in [Tasks -> Task(K)]
    BY <1>0, <2>2, <2>3
  <2>5. \A u \in Tasks : task'[u].pc = "approved" => task'[u].key \in K
    BY <1>0, <2>1, <2>3 DEF KeysInv, Idle
  <2> QED
    BY <2>3, <2>4, <2>5 DEF KeysInv
<1>3. ASSUME NEW h \in Hosts, NEW p \in Prefixes, Unblock(t, h, p) PROVE KeysInv(K)'
  <2>1. [Idle EXCEPT !.pc = "changed"] \in Task(K) /\ [Idle EXCEPT !.pc = "changed"].pc = "changed"
    BY <1>1 DEF Task, Idle
  <2>2. /\ ops' \in 0..MaxOps
        /\ UNCHANGED <<now, sweep, nextSweep, fs, overtaken>>
        /\ map' = Without(map, {UnblockKey(h, p)})
        /\ task' = [task EXCEPT ![t] = [Idle EXCEPT !.pc = "changed"]]
    BY <1>0, <1>3 DEF Unblock
  <2>3. map' \in Lists(K) /\ Cardinality(DOMAIN map') <= MaxEntries
    BY <1>0, <2>2, ListsClosed, MapBound
  <2>4. task' \in [Tasks -> Task(K)]
    BY <1>0, <2>1, <2>2
  <2>5. \A u \in Tasks : task'[u].pc = "approved" => task'[u].key \in K
    BY <1>0, <2>1, <2>2 DEF KeysInv
  <2> QED
    BY <2>2, <2>3, <2>4, <2>5 DEF KeysInv
<1>4. ASSUME BlockInsert(t) PROVE KeysInv(K)'
  <2> DEFINE k == task[t].key
             e == now + task[t].ttl
  <2>1. k \in K /\ e \in Nat
    BY <1>0, <1>4 DEF BlockInsert, KeysInv, Task
  <2>2. CASE /\ k \in DOMAIN map \/ Cardinality(DOMAIN map) < MaxEntries
             /\ map' = Insert(map, k, e)
             /\ overtaken' = IF k \in sweep THEN overtaken \union {k} ELSE overtaken \ {k}
             /\ task' = [task EXCEPT ![t] = [Idle EXCEPT !.pc = "changed"]]
    <3> HIDE DEF k, e
    <3>1. map' \in Lists(K) /\ Cardinality(DOMAIN map') <= MaxEntries
      BY <1>0, <2>1, <2>2, ListsClosed, MapBound
    <3>2. /\ [Idle EXCEPT !.pc = "changed"] \in Task(K)
          /\ [Idle EXCEPT !.pc = "changed"].pc = "changed"
      BY <1>1 DEF Task, Idle
    <3>3. task' \in [Tasks -> Task(K)]
      BY <1>0, <2>2, <3>2
    <3>4. \A u \in Tasks : task'[u].pc = "approved" => task'[u].key \in K
      BY <1>0, <2>2, <3>2 DEF KeysInv
    <3>5. overtaken' \subseteq K
      BY <2>1, <2>2 DEF KeysInv
    <3> QED
      BY <1>4, <3>1, <3>3, <3>4, <3>5 DEF KeysInv, BlockInsert
  <2>3. CASE task' = [task EXCEPT ![t] = Idle] /\ UNCHANGED map
    <3>1. task' \in [Tasks -> Task(K)]
      BY <1>0, <1>1, <2>3
    <3>2. \A u \in Tasks : task'[u].pc = "approved" => task'[u].key \in K
      BY <1>0, <2>3 DEF KeysInv, Idle
    <3> QED
      BY <1>4, <2>3, <3>1, <3>2 DEF KeysInv, BlockInsert
  <2> QED
    BY <1>4, <2>2, <2>3 DEF BlockInsert
<1>5. ASSUME Snapshot(t) PROVE KeysInv(K)'
  <2>1. task' = [task EXCEPT ![t].pc = "listed", ![t].snapshot = map]
    BY <1>5 DEF Snapshot
  <2>2. task'[t] = [pc |-> "listed", key |-> task[t].key, ttl |-> task[t].ttl,
                    snapshot |-> map, fd |-> task[t].fd]
    BY <1>0, <2>1 DEF Task
  <2>3. task'[t] \in Task(K)
    BY <1>0, <2>2 DEF Task
  <2>4. \A u \in Tasks : u # t => task'[u] = task[u]
    BY <1>0, <2>1
  <2>5. task' \in [Tasks -> Task(K)]
    BY <1>0, <2>1, <2>3
  <2>6. \A u \in Tasks : task'[u].pc = "approved" => task'[u].key \in K
    BY <2>2, <2>4 DEF KeysInv
  <2> QED
    BY <1>5, <2>5, <2>6 DEF KeysInv, Snapshot
<1>6. ASSUME CreateTmp(t) PROVE KeysInv(K)'
  <2>1. PICK i \in TmpInodes(fs, Unused) :
           /\ fs' = OpenTmp(fs, i, EmptyMap)
           /\ task' = [task EXCEPT ![t].pc = "created", ![t].fd = {i}]
    BY <1>6 DEF CreateTmp
  <2>2. i \in Inodes
    BY <1>0, <2>1 DEF TmpInodes, Unused, Files, Names
  <2>3. fs' \in Files(K)
    BY <1>0, <1>1, <2>1, <2>2, FilesClosed
  <2>4. task'[t] = [pc |-> "created", key |-> task[t].key, ttl |-> task[t].ttl,
                    snapshot |-> task[t].snapshot, fd |-> {i}]
    BY <1>0, <2>1 DEF Task
  <2>5. task'[t] \in Task(K)
    BY <1>0, <2>2, <2>4 DEF Task
  <2>6. \A u \in Tasks : u # t => task'[u] = task[u]
    BY <1>0, <2>1
  <2>7. task' \in [Tasks -> Task(K)]
    BY <1>0, <2>1, <2>5
  <2>8. \A u \in Tasks : task'[u].pc = "approved" => task'[u].key \in K
    BY <2>4, <2>6 DEF KeysInv
  <2> QED
    BY <1>6, <2>3, <2>7, <2>8 DEF KeysInv, CreateTmp
<1>7. ASSUME WriteTmp(t) PROVE KeysInv(K)'
  <2>1. PICK i \in task[t].fd : \E text \in Overlaid(task[t].snapshot, fs.content[i]) :
                                   fs' = WriteInode(fs, i, text)
    BY <1>7 DEF WriteTmp
  <2>2. PICK text \in Overlaid(task[t].snapshot, fs.content[i]) : fs' = WriteInode(fs, i, text)
    BY <2>1
  <2>3. i \in Inodes /\ task[t].snapshot \in Lists(K) /\ fs.content[i] \in Lists(K)
    BY <1>0 DEF Task, Files
  <2>4. text \in Lists(K)
    BY <2>2, <2>3, ListsClosed
  <2>5. fs' \in Files(K)
    BY <1>0, <2>2, <2>3, <2>4, FilesClosed
  <2>6. task' = [task EXCEPT ![t] = [Idle EXCEPT !.pc = "written"]]
    BY <1>7 DEF WriteTmp
  <2>7. [Idle EXCEPT !.pc = "written"] \in Task(K) /\ [Idle EXCEPT !.pc = "written"].pc = "written"
    BY <1>1 DEF Task, Idle
  <2>8. task' \in [Tasks -> Task(K)]
    BY <1>0, <2>6, <2>7
  <2>9. \A u \in Tasks : task'[u].pc = "approved" => task'[u].key \in K
    BY <1>0, <2>6, <2>7 DEF KeysInv
  <2> QED
    BY <1>7, <2>5, <2>8, <2>9 DEF KeysInv, WriteTmp
<1>8. ASSUME Rename(t) PROVE KeysInv(K)'
  <2>1. fs' \in Files(K)
    <3>1. CASE CanRename(fs)
      <4>1. PICK i \in Inodes : fs.tmp = {i}
        BY <1>0, <3>1 DEF CanRename, Files, Names
      <4> QED
        BY <1>0, <1>1, <1>8, <3>1, FilesClosed DEF Rename
    <3>2. CASE ~CanRename(fs)
      BY <1>0, <1>8, <3>2 DEF Rename
    <3> QED
      BY <3>1, <3>2
  <2>2. task' = [task EXCEPT ![t] = Idle]
    BY <1>8 DEF Rename
  <2>3. task' \in [Tasks -> Task(K)]
    BY <1>0, <1>1, <2>2
  <2>4. \A u \in Tasks : task'[u].pc = "approved" => task'[u].key \in K
    BY <1>0, <2>2 DEF KeysInv, Idle
  <2> QED
    BY <1>8, <2>1, <2>3, <2>4 DEF KeysInv, Rename
<1> QED
  BY <1>2, <1>3, <1>4, <1>5, <1>6, <1>7, <1>8 DEF AutoBlock, ManualBlock

LEMMA KeysStep ==
    ASSUME NEW K, Covers(K), KeysInv(K), [Next]_vars
    PROVE  KeysInv(K)'
<1> USE XdpBlocklistAssumption
<1>0. K \subseteq Keys /\ map \in Lists(K) /\ EmptyMap \in Lists(K)
  BY ListsClosed DEF KeysInv, Covers
<1>1. ASSUME SweepCollect PROVE KeysInv(K)'
  <2>1. sweep' \subseteq DOMAIN map /\ nextSweep' \in Nat
    BY <1>1 DEF SweepCollect, KeysInv
  <2>2. sweep' \subseteq K
    BY <1>0, <2>1, ListsFields
  <2> QED
    BY <1>1, <2>1, <2>2 DEF SweepCollect, KeysInv
<1>2. ASSUME SweepRemove PROVE KeysInv(K)'
  <2>1. map' \in Lists(K) /\ Cardinality(DOMAIN map') <= MaxEntries
    BY <1>0, <1>2, ListsClosed, MapBound DEF SweepRemove, KeysInv
  <2> QED
    BY <1>2, <2>1 DEF SweepRemove, KeysInv
<1>3. ASSUME Restart PROVE KeysInv(K)'
  <2>1. fs' \in Files(K)
    BY <1>3, InterruptedFiles DEF Restart
  <2>2. map' \in Restored(fs')
    BY <1>3 DEF Restart
  <2>3. map' \in Lists(K) /\ Cardinality(DOMAIN map') <= MaxEntries
    BY <1>0, <2>1, <2>2, RestoredLists
  <2>4. Idle \in Task(K) /\ Idle.pc = "idle"
    BY <1>0 DEF Idle, Task
  <2>5. /\ task' \in [Tasks -> Task(K)]
        /\ \A t \in Tasks : task'[t].pc = "approved" => task'[t].key \in K
    BY <1>3, <2>4 DEF Restart
  <2>6. ops' \in 0..MaxOps
    BY <1>3 DEF Restart, KeysInv
  <2> QED
    BY <1>3, <2>1, <2>3, <2>5, <2>6 DEF Restart, KeysInv
<1>4. ASSUME Tick PROVE KeysInv(K)'
  BY <1>4 DEF Tick, KeysInv
<1>5. ASSUME UNCHANGED vars PROVE KeysInv(K)'
  BY <1>5 DEF vars, KeysInv
<1> QED
  BY <1>1, <1>2, <1>3, <1>4, <1>5, KeysTaskStep DEF Next

LEMMA KeysInit ==
    ASSUME NEW K, Init
    PROVE  KeysInv(K)
<1> USE XdpBlocklistAssumption
<1>1. EmptyMap \in Lists(K) /\ DOMAIN EmptyMap = {}
  <2>1. EmptyMap \in [{} -> Nat] /\ {} \in SUBSET K
    BY DEF EmptyMap
  <2> QED
    BY <2>1, ListsElement
<1>2. Cardinality(DOMAIN EmptyMap) = 0
  BY <1>1, FS_EmptySet
<1>3. fs \in Files(K)
  BY <1>1 DEF Init, NoFiles, Files, Names
<1>4. Idle \in Task(K) /\ Idle.pc = "idle"
  BY <1>1 DEF Idle, Task
<1>5. /\ task \in [Tasks -> Task(K)]
      /\ \A t \in Tasks : task[t].pc = "approved" => task[t].key \in K
  BY <1>4 DEF Init
<1> QED
  BY <1>1, <1>2, <1>3, <1>5 DEF Init, KeysInv

LEMMA AllKeysCovered == Covers(Keys)
BY XdpBlocklistAssumption DEF Covers, Keys, BlockKey

---------------------------------------------------------------------------
(* The sweep and the clock                                                 *)

\* The ticker is at most an interval ahead, and no entry will have been expired for
\* longer than that when it is next due, but for those the sweep is about to remove.
TimeInv ==
    /\ now <= nextSweep /\ nextSweep <= now + SweepInterval
    /\ sweep # {} => nextSweep = now + SweepInterval
    /\ \A k \in DOMAIN map : map[k] + SweepInterval >= now
    /\ \A k \in DOMAIN map \ sweep : map[k] + SweepInterval >= nextSweep

\* A sweep that is late by one interval would break this; one that removes a key which
\* was blocked anew in between does not, as it only ends a block early.
LEMMA TimeStep ==
    ASSUME KeysInv(Keys), KeysInv(Keys)', TimeInv, [Next]_vars
    PROVE  TimeInv'
<1> USE XdpBlocklistAssumption
<1>0. /\ now \in Nat /\ nextSweep \in Nat
      /\ \A k \in DOMAIN map : map[k] \in Nat
      /\ \A k \in DOMAIN map' : map'[k] \in Nat
      /\ task \in [Tasks -> Task(Keys)]
  BY ListsFields DEF KeysInv
<1>1. ASSUME UNCHANGED <<now, nextSweep, sweep, map>> PROVE TimeInv'
  BY <1>1 DEF TimeInv
<1>2. ASSUME NEW t \in Tasks, NEW h \in Hosts, NEW p, Unblock(t, h, p) PROVE TimeInv'
  BY <1>2 DEF Unblock, Without, TimeInv
<1>3. ASSUME NEW t \in Tasks, BlockInsert(t) PROVE TimeInv'
  <2>1. CASE map' = Insert(map, task[t].key, now + task[t].ttl)
    <3>1. task[t].ttl \in Nat
      BY <1>0 DEF Task
    <3>2. /\ DOMAIN map' = DOMAIN map \union {task[t].key}
          /\ \A k \in DOMAIN map' : map'[k] = IF k = task[t].key THEN now + task[t].ttl
                                              ELSE map[k]
      BY <2>1 DEF Insert
    <3>3. UNCHANGED <<now, nextSweep, sweep>>
      BY <1>3 DEF BlockInsert
    <3> QED
      BY <1>0, <3>1, <3>2, <3>3 DEF TimeInv
  <2>2. CASE UNCHANGED map
    BY <1>1, <1>3, <2>2 DEF BlockInsert
  <2> QED
    BY <1>3, <2>1, <2>2 DEF BlockInsert
<1>4. ASSUME SweepCollect PROVE TimeInv'
  <2>1. /\ now = nextSweep /\ sweep = {}
        /\ nextSweep' = now + SweepInterval
        /\ sweep' = {k \in DOMAIN map : map[k] <= now}
        /\ UNCHANGED <<now, map>>
    BY <1>0, <1>4 DEF SweepCollect, TimeInv, Swept
  <2> QED
    BY <1>0, <2>1 DEF TimeInv
<1>5. ASSUME SweepRemove PROVE TimeInv'
  BY <1>5 DEF SweepRemove, Without, TimeInv
<1>6. ASSUME Restart PROVE TimeInv'
  <2>1. /\ fs' \in Files(Keys) /\ map' \in Restored(fs')
        /\ now' = now /\ nextSweep' = now /\ sweep' = {}
    BY <1>6, InterruptedFiles DEF Restart
  <2>2. \A k \in DOMAIN map' : map'[k] > now
    BY <2>1, RestoredLists
  <2> QED
    BY <1>0, <2>1, <2>2 DEF TimeInv
<1>7. ASSUME Tick PROVE TimeInv'
  <2>1. now < nextSweep /\ sweep = {} /\ now' = now + 1 /\ UNCHANGED <<map, sweep, nextSweep>>
    BY <1>7 DEF Tick
  <2> QED
    BY <1>0, <2>1 DEF TimeInv
<1>8. ASSUME NEW t \in Tasks,
             \/ \E h \in Hosts, ttl \in Ttls :
                  \/ AutoBlock(t, h, ttl)
                  \/ \E prefix \in Prefixes : ManualBlock(t, h, prefix, ttl)
             \/ Snapshot(t) \/ CreateTmp(t) \/ WriteTmp(t) \/ Rename(t)
      PROVE  TimeInv'
  BY <1>1, <1>8 DEF AutoBlock, ManualBlock, Block, Snapshot, CreateTmp, WriteTmp, Rename
<1> QED
  BY <1>1, <1>2, <1>3, <1>4, <1>5, <1>6, <1>7, <1>8 DEF Next, vars

LEMMA TimeInit == Init => TimeInv
BY XdpBlocklistAssumption DEF Init, TimeInv, EmptyMap

\* The parts together give the type invariant and the bound on a late drop.
LEMMA TypeFromParts ==
    ASSUME KeysInv(Keys), LimiterInv
    PROVE  TypeOK
<1>1. \A n \in Names : Cardinality(n) <= 1
  <2> TAKE n \in Names
  <2>1. CASE n = {}
    BY <2>1, FS_EmptySet
  <2>2. CASE \E i : n = {i}
    BY <2>2, FS_Singleton
  <2> QED
    BY <2>1, <2>2 DEF Names
<1>2. fs.path \in Names /\ fs.tmp \in Names
  BY DEF KeysInv, Files
<1>3. DOMAIN map \subseteq Keys /\ \A k \in DOMAIN map : map[k] \in Nat
  BY ListsFields DEF KeysInv
<1>4. /\ limiter \in Seq(Nat) /\ Len(limiter) <= RateLimit
      /\ \A i \in 1..(Len(limiter) - 1) : limiter[i] <= limiter[i + 1]
  BY DEF LimiterInv
<1> QED
  BY <1>1, <1>2, <1>3, <1>4 DEF TypeOK, KeysInv

\* sweep_expired_blocklist: whatever prefixes are blocked, no drop outlasts its block by
\* more than one sweep interval, although the packet program reads another clock than
\* the one the expiries are stamped with, and although blocks, restarts and the two
\* halves of the sweep interleave.  (The variables also keep their types: a restart
\* that reads a file of more entries than the map holds stays within it.)
THEOREM DropsEnd == Spec => [](TypeOK /\ DropsEndInTime)
<1>1. Init => LimiterInv /\ KeysInv(Keys) /\ TimeInv
  <2>1. Init => LimiterInv
    BY XdpBlocklistAssumption DEF Init, LimiterInv, RateBound
  <2> QED
    BY <2>1, KeysInit, TimeInit
<1>2. LimiterInv /\ KeysInv(Keys) /\ TimeInv /\ [Next]_vars
        => LimiterInv' /\ KeysInv(Keys)' /\ TimeInv'
  BY LimiterStep, KeysStep, TimeStep, AllKeysCovered
<1>3. LimiterInv /\ KeysInv(Keys) /\ TimeInv => TypeOK /\ DropsEndInTime
  <2>1. KeysInv(Keys) /\ TimeInv => DropsEndInTime
    BY ListsFields, XdpBlocklistAssumption
       DEF KeysInv, TimeInv, DropsEndInTime, Drops, LongestMatch
  <2> QED
    BY <2>1, TypeFromParts
<1> QED
  BY <1>1, <1>2, <1>3, PTL DEF Spec

---------------------------------------------------------------------------
(* Allowlisted and released addresses                                      *)

\* The keys that cover a host which is not on the allowlist.
Targets == {k \in Keys : ~(k \subseteq Allowlist)}

LEMMA TargetsCovered == Covers(Targets)
BY XdpBlocklistAssumption DEF Covers, Targets, Keys, BlockKey, Key

\* No key of a released host alone is in the map.
ReleasedInv == \A h \in released : {h} \notin DOMAIN map

LEMMA ReleasedStep ==
    ASSUME ReleasedInv, [Next]_vars
    PROVE  ReleasedInv'
<1>1. ASSUME UNCHANGED <<released, map>> PROVE ReleasedInv'
  BY <1>1 DEF ReleasedInv
<1>2. ASSUME NEW t \in Tasks, NEW h \in Hosts, NEW p \in Prefixes, Unblock(t, h, p)
      PROVE  ReleasedInv'
  <2>1. /\ DOMAIN map' = DOMAIN map \ {UnblockKey(h, p)}
        /\ released' = released \union {g \in Hosts : {g} = UnblockKey(h, p)}
    BY <1>2 DEF Unblock, Without
  <2> QED
    BY <2>1 DEF ReleasedInv
<1>3. ASSUME NEW t \in Tasks, BlockInsert(t) PROVE ReleasedInv'
  <2>1. CASE /\ map' = Insert(map, task[t].key, now + task[t].ttl)
             /\ released' = {h \in released : {h} # task[t].key}
    <3>1. DOMAIN map' = DOMAIN map \union {task[t].key}
      BY <2>1 DEF Insert
    <3> QED
      BY <2>1, <3>1 DEF ReleasedInv
  <2> QED
    BY <1>1, <1>3, <2>1 DEF BlockInsert
<1>4. ASSUME SweepRemove PROVE ReleasedInv'
  BY <1>4 DEF SweepRemove, Without, ReleasedInv
<1>5. ASSUME Restart PROVE ReleasedInv'
  BY <1>5 DEF Restart, ReleasedInv
<1>6. ASSUME NEW t \in Tasks,
             \/ \E h \in Hosts, ttl \in Ttls :
                  \/ AutoBlock(t, h, ttl)
                  \/ \E prefix \in Prefixes : ManualBlock(t, h, prefix, ttl)
             \/ Snapshot(t) \/ CreateTmp(t) \/ WriteTmp(t) \/ Rename(t)
      PROVE  ReleasedInv'
  BY <1>1, <1>6 DEF AutoBlock, ManualBlock, Block, Snapshot, CreateTmp, WriteTmp, Rename
<1> QED
  BY <1>1, <1>2, <1>3, <1>4, <1>5, <1>6 DEF Next, vars, SweepCollect, Tick

\* A drop is always justified, whichever prefixes the callers name and the configuration
\* sets: by a block that is in time, and, where it is of an address that the allowlist
\* protects or an operator released, by a prefix that covers others with it, however
\* blocks, unblocks, sweeps, savers and restarts interleave (block_ipv4_inner,
\* unblock_ipv4, sweep_expired_blocklist, start).
THEOREM DropsAreJustified == Spec => []DropsJustified
<1> DEFINE Inv == KeysInv(Targets) /\ ReleasedInv
<1>1. Init => Inv
  BY KeysInit DEF Init, ReleasedInv
<1>2. Inv /\ [Next]_vars => Inv'
  BY KeysStep, TargetsCovered, ReleasedStep
<1>3. Inv => AllowlistedOnlyBeside /\ ReleasedOnlyByWider
  <2>1. ASSUME Inv, NEW h, NEW k \in LongestMatch(map, h)
        PROVE  k \in DOMAIN map /\ ~(k \subseteq Allowlist)
    <3>1. k \in DOMAIN map
      BY DEF LongestMatch
    <3>2. k \in Targets
      BY <2>1, <3>1, ListsFields DEF KeysInv
    <3> QED
      BY <3>1, <3>2 DEF Targets
  <2> QED
    BY <2>1 DEF AllowlistedOnlyBeside, ReleasedOnlyByWider, ReleasedInv
<1>4. TypeOK /\ DropsEndInTime /\ AllowlistedOnlyBeside /\ ReleasedOnlyByWider
        => DropsJustified
  BY DEF DropsJustified
<1> QED
  BY <1>1, <1>2, <1>3, <1>4, DropsEnd, PTL DEF Spec

---------------------------------------------------------------------------
(* What was blocked stays                                                  *)

\* The map holds what was asked for, with its expiry; a key that is to be removed has
\* expired, was undone or was blocked anew since it was collected.
LastInv ==
    /\ BlocksLast
    /\ \A k \in DOMAIN intent : intent[k] \in Nat
    /\ \A k \in DOMAIN map : k \in DOMAIN intent /\ intent[k] = map[k]
    /\ \A k \in sweep : k \in DOMAIN intent => intent[k] <= now \/ k \in overtaken

LEMMA LastStep ==
    ASSUME KeysInv(Keys), KeysInv(Keys)', LastInv, [Next]_vars
    PROVE  LastInv'
<1> USE XdpBlocklistAssumption
<1>0. /\ now \in Nat /\ task \in [Tasks -> Task(Keys)]
      /\ \A k \in DOMAIN map : map[k] \in Nat
      /\ \A k \in DOMAIN map' : map'[k] \in Nat
  BY ListsFields DEF KeysInv
<1>1. ASSUME UNCHANGED <<now, map, intent, sweep, overtaken>> PROVE LastInv'
  BY <1>1 DEF LastInv, BlocksLast, Live
<1>2. ASSUME NEW t \in Tasks, NEW h \in Hosts, NEW p \in Prefixes, Unblock(t, h, p)
      PROVE  LastInv'
  BY <1>2 DEF Unblock, Without, LastInv, BlocksLast, Live
<1>3. ASSUME NEW t \in Tasks, BlockInsert(t) PROVE LastInv'
  <2> DEFINE k == task[t].key
             e == now + task[t].ttl
  <2>1. CASE /\ map' = Insert(map, k, e)
             /\ intent' = Insert(intent, k, e)
             /\ overtaken' = IF k \in sweep THEN overtaken \union {k} ELSE overtaken \ {k}
    <3>0. e \in Nat
      BY <1>0 DEF Task
    <3> HIDE DEF k, e
    <3>1. /\ DOMAIN map' = DOMAIN map \union {k}
          /\ \A j \in DOMAIN map' : map'[j] = IF j = k THEN e ELSE map[j]
          /\ DOMAIN intent' = DOMAIN intent \union {k}
          /\ \A j \in DOMAIN intent' : intent'[j] = IF j = k THEN e ELSE intent[j]
      BY <2>1 DEF Insert
    <3>2. UNCHANGED <<now, sweep>>
      BY <1>3 DEF BlockInsert
    <3>3. BlocksLast'
      BY <2>1, <3>1, <3>2 DEF LastInv, BlocksLast, Live
    <3> QED
      BY <2>1, <3>0, <3>1, <3>2, <3>3 DEF LastInv
  <2>2. CASE UNCHANGED <<map, intent, overtaken>>
    BY <1>1, <1>3, <2>2 DEF BlockInsert
  <2> QED
    BY <1>3, <2>1, <2>2 DEF BlockInsert
<1>4. ASSUME SweepCollect PROVE LastInv'
  BY <1>4 DEF SweepCollect, Swept, LastInv, BlocksLast, Live
<1>5. ASSUME SweepRemove PROVE LastInv'
  <2>1. /\ DOMAIN map' = DOMAIN map \ sweep /\ sweep' = {}
        /\ \A k \in DOMAIN map' : map'[k] = map[k]
        /\ UNCHANGED <<now, intent, overtaken>>
    BY <1>5 DEF SweepRemove, Without
  <2>2. BlocksLast'
    <3> SUFFICES ASSUME NEW k \in DOMAIN intent, intent[k] > now, k \notin overtaken
                 PROVE  k \in DOMAIN map' /\ map'[k] = intent[k]
      BY <2>1 DEF BlocksLast, Live
    <3>1. k \in DOMAIN map /\ map[k] = intent[k]
      BY DEF LastInv, BlocksLast, Live
    <3>2. k \notin sweep
      BY <1>0, <3>1 DEF LastInv
    <3> QED
      BY <2>1, <3>1, <3>2
  <2> QED
    BY <2>1, <2>2 DEF LastInv
<1>6. ASSUME Restart PROVE LastInv'
  BY <1>0, <1>6 DEF Restart, LastInv, BlocksLast, Live
<1>7. ASSUME Tick PROVE LastInv'
  <2>1. now' = now + 1 /\ UNCHANGED <<map, sweep, intent, overtaken>> /\ sweep = {}
    BY <1>7 DEF Tick
  <2>2. BlocksLast'
    <3> SUFFICES ASSUME NEW k \in DOMAIN intent, intent[k] > now + 1, k \notin overtaken
                 PROVE  k \in DOMAIN map /\ map[k] = intent[k]
      BY <2>1 DEF BlocksLast, Live
    <3> QED
      BY <1>0 DEF LastInv, BlocksLast, Live
  <2> QED
    BY <2>1, <2>2 DEF LastInv
<1>8. ASSUME NEW t \in Tasks,
             \/ \E h \in Hosts, ttl \in Ttls :
                  \/ AutoBlock(t, h, ttl)
                  \/ \E prefix \in Prefixes : ManualBlock(t, h, prefix, ttl)
             \/ Snapshot(t) \/ CreateTmp(t) \/ WriteTmp(t) \/ Rename(t)
      PROVE  LastInv'
  BY <1>1, <1>8 DEF AutoBlock, ManualBlock, Block, Snapshot, CreateTmp, WriteTmp, Rename
<1> QED
  BY <1>1, <1>2, <1>3, <1>4, <1>5, <1>6, <1>7, <1>8 DEF Next, vars

\* A block that took effect lasts as long as it was asked for, unless it is undone, the
\* process is restarted, or it renewed a key between the two halves of the sweep that was
\* about to remove it; that is the only way to lose one (block_ipv4_inner, unblock_ipv4,
\* sweep_expired_blocklist).
THEOREM BlocksDoLast == Spec => []BlocksLast
<1>1. Init => KeysInv(Keys) /\ LastInv
  <2>1. Init => LastInv
    BY DEF Init, LastInv, BlocksLast, Live, EmptyMap
  <2> QED
    BY <2>1, KeysInit
<1>2. KeysInv(Keys) /\ LastInv /\ [Next]_vars => KeysInv(Keys)' /\ LastInv'
  BY KeysStep, AllKeysCovered, LastStep
<1>3. LastInv => BlocksLast
  BY DEF LastInv
<1> QED
  BY <1>1, <1>2, <1>3, PTL DEF Spec
=============================================================================
