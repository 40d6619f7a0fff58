----------------------------- MODULE NsmProofs ------------------------------
(***************************************************************************)
(* nsm: what its watchdog, its queues and its automatic block promise, for *)
(* all periods, thresholds, capacities and frames.                         *)
(***************************************************************************)
EXTENDS MCNsm, SequenceTheorems, FiniteSetTheorems, TLAPS

(***************************************************************************)
(* The watchdog.  The bound on the time since the loop last ran is not     *)
(* inductive: it follows from the two clocks' agreement up to what was set *)
(* back (Aged), and from how long systemd has heard nothing since a check  *)
(* that still found the loop fresh (Silent).  That only a stalled loop is  *)
(* killed rests on when the next check is due: the unit has been silent    *)
(* for less than one period (Heard), or a step of the clock made one check *)
(* fail and the next cannot (Skipped), or the loop did stall (Stalled).    *)
(***************************************************************************)
WatchTypes == /\ age \in Int /\ stalled \in Nat /\ silence \in Nat /\ back \in Nat
              /\ longest \in Nat /\ checkIn \in Nat /\ steps \in Nat
              /\ unit \in {"running", "killed"}

Aged == age + back >= stalled

Silent == unit = "running" => /\ stalled <= StaleAfter + back + silence
                              /\ silence <= WatchdogSec

OneClock == steps = 0 => age = stalled

Stalled == longest > StaleAfter \/ (steps = 1 /\ longest >= Interval)

Heard == silence + checkIn <= Interval

Skipped == /\ steps = 1
           /\ silence + checkIn <= 2 * Interval
           /\ age = stalled \/ stalled + checkIn >= Interval

Patient == steps <= 1 => Stalled \/ (unit = "running" /\ (Heard \/ Skipped))

WatchInv == /\ WatchTypes /\ Aged /\ Silent
            /\ OneClock /\ longest >= stalled /\ Patient

LEMMA WatchInvInit ==
  ASSUME W!Init
  PROVE  WatchInv
BY WatchdogPeriods DEF W!WatchdogAssumption, W!Init, WatchInv, WatchTypes, Aged, Silent, OneClock, Patient, Heard

LEMMA WatchInvStep ==
  ASSUME WatchInv, W!Next
  PROVE  WatchInv'
<1> USE WatchdogPeriods
    DEF W!WatchdogAssumption, WatchInv, WatchTypes, Aged, Silent, OneClock, Patient, Heard, Skipped, Stalled
<1>1. CASE W!Recv
  BY <1>1 DEF W!Recv, W!Awake, W!Bump
<1>2. CASE W!LivenessTick
  BY <1>2 DEF W!LivenessTick, W!Awake, W!Bump
<1>3. CASE W!Resume
  BY <1>3 DEF W!Resume
<1>4. CASE W!Check
  BY <1>4 DEF W!Check, W!Fresh
<1>5. CASE W!Kill
  BY <1>5 DEF W!Kill
<1>6. CASE W!Restart
  BY <1>6 DEF W!Restart
<1>7. CASE W!ClockStep
  <2>1. PICK d \in Steps : /\ age' = age + d
                           /\ back' = IF d < 0 THEN back - d ELSE back
    BY <1>7 DEF W!ClockStep
  <2>2. d \in Int
    OBVIOUS
  <2> QED
    BY <1>7, <2>1, <2>2 DEF W!ClockStep
<1>8. CASE W!Pass
  BY <1>8 DEF W!Pass
<1> QED
  BY <1>1, <1>2, <1>3, <1>4, <1>5, <1>6, <1>7, <1>8 DEF W!Next

(***************************************************************************)
(* A loop that hangs takes the unit down in time and nothing else does:    *)
(* nsm's bump and liveness check and systemd's WatchdogSec, whatever the   *)
(* wall clock is stepped by.                                               *)
(***************************************************************************)
THEOREM KilledWhenStalled == MCSpec => []KilledIffStalled
<1>1. MCInit => WatchInv
  BY WatchInvInit DEF MCInit
<1>2. WatchInv /\ [MCNext]_<<part, vars, watch>> => WatchInv'
  <2>1. ASSUME WatchInv, UNCHANGED watch
        PROVE  WatchInv'
    BY <2>1 DEF watch, WatchInv, WatchTypes, Aged, Silent, OneClock, Patient, Heard, Skipped, Stalled
  <2> QED
    BY <2>1, WatchInvStep DEF MCNext
<1>3. WatchInv => KilledIffStalled
  BY WatchdogPeriods DEF W!WatchdogAssumption, WatchInv, WatchTypes, Silent, Patient, Stalled,
     KilledIffStalled, W!HangNoticed, W!KilledOnlyIfStalled
<1> QED
  BY <1>1, <1>2, <1>3, PTL DEF MCSpec

-----------------------------------------------------------------------------
(***************************************************************************)
(* The queues.  Only xdp mode uses the ring, only sim mode hangs up, and   *)
(* what has hung up holds nothing: without these the second half of        *)
(* EventsAccounted is not inductive.                                       *)
(***************************************************************************)
IsSeq(s) == \E S : s \in Seq(S)

CounterNames == {"passed", "dropped", "truncated", "errors"}

QueueTypes == /\ IsSeq(ring) /\ IsSeq(chan) /\ IsSeq(seen)
              /\ stats \in [CounterNames -> Nat]
              /\ producer \in {"open", "closed"} /\ running \in BOOLEAN

Routes == /\ mode # "xdp" => ring = <<>>
          /\ producer = "closed" => mode = "sim" /\ hand = None
          /\ ~running => chan = <<>>

EventsInv == QueueTypes /\ Routes /\ EventsAccounted

LEMMA SeqGrows ==
  ASSUME NEW s, NEW e, IsSeq(s)
  PROVE  IsSeq(Append(s, e)) /\ Len(Append(s, e)) = Len(s) + 1 /\ Len(s) \in Nat
<1>1. PICK S : s \in Seq(S)
  BY DEF IsSeq
<1>2. s \in Seq(S \cup {e}) /\ e \in S \cup {e}
  <2>1. s \in [1..Len(s) -> S]
    BY <1>1
  <2> QED
    BY <1>1, <2>1
<1>3. Append(s, e) \in Seq(S \cup {e}) /\ Len(Append(s, e)) = Len(s) + 1 /\ Len(s) \in Nat
  BY <1>2
<1> QED
  BY <1>3 DEF IsSeq

LEMMA SeqShrinks ==
  ASSUME NEW s, IsSeq(s), s # <<>>
  PROVE  IsSeq(Tail(s)) /\ Len(Tail(s)) = Len(s) - 1 /\ Len(s) \in Nat
<1>1. PICK S : s \in Seq(S)
  BY DEF IsSeq
<1>2. Tail(s) \in Seq(S) /\ Len(Tail(s)) = Len(s) - 1 /\ Len(s) \in Nat
  BY <1>1
<1> QED
  BY <1>2 DEF IsSeq

LEMMA MetaIsSome == ASSUME NEW p PROVE Meta(p) # None
<1>1. "none" \in DOMAIN None /\ "none" \notin DOMAIN Meta(p)
  BY DEF None, Meta
<1> QED
  BY <1>1

LEMMA EventsInvInit ==
  ASSUME Init
  PROVE  EventsInv
<1>1. IsSeq(<<>>) /\ Len(<<>>) = 0
  BY DEF IsSeq
<1> QED
  BY <1>1 DEF Init, EventsInv, QueueTypes, Routes, EventsAccounted, CounterNames

LEMMA EventsInvStep ==
  ASSUME EventsInv, Next
  PROVE  EventsInv'
<1>1. /\ IsSeq(ring) /\ IsSeq(chan) /\ IsSeq(seen)
      /\ stats \in [CounterNames -> Nat]
      /\ producer \in {"open", "closed"} /\ running \in BOOLEAN
  BY DEF EventsInv, QueueTypes
<1>2. Len(ring) \in Nat /\ Len(chan) \in Nat /\ Len(seen) \in Nat /\ Len(<<>>) = 0
  BY <1>1 DEF IsSeq
<1>11. stats.passed + stats.dropped \in Nat
  BY <1>1 DEF CounterNames
<1>3. ASSUME UNCHANGED <<mode, producer, running, chan, seen>>, running,
             mode # "xdp", UNCHANGED <<ring, stats>>, producer = "open"
      PROVE  EventsInv'
  BY <1>1, <1>2, <1>3 DEF EventsInv, QueueTypes, Routes, EventsAccounted
<1>4. CASE Arrive
  <2>1. PICK f \in Frames[mode] : XdpFrame(f) \/ PnetFrame(f) \/ SimPacket(f)
    BY <1>4 DEF Arrive
  <2>2. running /\ UNCHANGED <<mode, producer, running, chan, seen>>
    BY <1>4 DEF Arrive
  <2>3. CASE XdpFrame(f)
    <3>1. mode = "xdp" /\ producer = "open" /\ UNCHANGED hand
      BY <1>1, <2>3 DEF XdpFrame, EventsInv, Routes
    <3>2. CASE IsIp(f) /\ Submit(f)
      <4>1. CASE UNCHANGED ring /\ stats' = [stats EXCEPT !.truncated = @ + 1]
        BY <1>1, <1>2, <2>2, <3>1, <4>1
        DEF EventsInv, QueueTypes, Routes, EventsAccounted, CounterNames
      <4>2. ASSUME NEW kind \in {"passed", "dropped"}, NEW e,
                   ring' = Append(ring, e), stats' = [stats EXCEPT ![kind] = @ + 1]
            PROVE  EventsInv'
        <5>1. IsSeq(ring') /\ Len(ring') = Len(ring) + 1
          BY <1>1, <4>2, SeqGrows
        <5>2. stats' \in [CounterNames -> Nat]
              /\ stats'.passed + stats'.dropped = stats.passed + stats.dropped + 1
          <6>1. stats["passed"] \in Nat /\ stats["dropped"] \in Nat
            BY <1>1 DEF CounterNames
          <6>2. /\ stats' \in [CounterNames -> Nat]
                /\ \A c \in CounterNames :
                     stats'[c] = IF c = kind THEN stats[c] + 1 ELSE stats[c]
            BY <1>1, <4>2 DEF CounterNames
          <6>3. /\ stats'["passed"] = IF "passed" = kind THEN stats["passed"] + 1
                                                          ELSE stats["passed"]
                /\ stats'["dropped"] = IF "dropped" = kind THEN stats["dropped"] + 1
                                                            ELSE stats["dropped"]
            BY <6>2 DEF CounterNames
          <6>4. stats'["passed"] + stats'["dropped"] = stats["passed"] + stats["dropped"] + 1
            BY <6>1, <6>3, <4>2
          <6> QED
            BY <6>2, <6>4
        <5>3. Routes' /\ QueueTypes'
          BY <1>1, <2>2, <3>1, <5>1, <5>2 DEF EventsInv, QueueTypes, Routes
        <5> QED
          BY <1>2, <1>11, <2>2, <3>1, <5>1, <5>2, <5>3 DEF EventsInv, EventsAccounted
      <4> QED
        BY <3>2, <4>1, <4>2 DEF Submit
    <3>3. CASE UNCHANGED ring /\ stats' = [stats EXCEPT !.errors = @ + 1]
      BY <1>1, <1>2, <2>2, <3>1, <3>3
      DEF EventsInv, QueueTypes, Routes, EventsAccounted, CounterNames
    <3>4. CASE UNCHANGED <<ring, stats>>
      BY <1>1, <1>2, <2>2, <3>1, <3>4 DEF EventsInv, QueueTypes, Routes, EventsAccounted
    <3> QED
      BY <2>3, <3>2, <3>3, <3>4 DEF XdpFrame
  <2>4. CASE PnetFrame(f)
    BY <1>1, <1>3, <2>2, <2>4 DEF PnetFrame, EventsInv, Routes
  <2>5. CASE SimPacket(f)
    BY <1>3, <2>2, <2>5 DEF SimPacket
  <2> QED
    BY <2>1, <2>3, <2>4, <2>5
<1>5. CASE ReadEvent
  <2>1. IsSeq(ring') /\ Len(ring') = Len(ring) - 1
    BY <1>1, <1>5, SeqShrinks DEF ReadEvent
  <2>2. hand = None /\ hand' # None /\ mode = "xdp" /\ producer = "open" /\ running
    BY <1>1, <1>5, MetaIsSome DEF ReadEvent, EventToMeta, EventsInv, Routes
  <2>3. UNCHANGED <<mode, chan, producer, running, stats, seen>>
    BY <1>5 DEF ReadEvent
  <2> QED
    BY <1>1, <1>2, <2>1, <2>2, <2>3
    DEF EventsInv, QueueTypes, Routes, EventsAccounted, CounterNames
<1>6. CASE Send
  <2>1. IsSeq(chan') /\ Len(chan') = Len(chan) + 1
    BY <1>1, <1>6, SeqGrows DEF Send
  <2>2. hand # None /\ hand' = None /\ producer = "open" /\ running
    BY <1>1, <1>6 DEF Send, EventsInv, Routes
  <2>3. UNCHANGED <<mode, ring, producer, running, stats, seen>>
    BY <1>6 DEF Send
  <2> QED
    BY <1>1, <1>2, <2>1, <2>2, <2>3
    DEF EventsInv, QueueTypes, Routes, EventsAccounted, CounterNames
<1>7. CASE HangUp
  BY <1>1, <1>2, <1>7 DEF HangUp, queues, EventsInv, QueueTypes, Routes, EventsAccounted
<1>8. CASE Analyze
  <2>1. IsSeq(chan') /\ Len(chan') = Len(chan) - 1
    BY <1>1, <1>8, SeqShrinks DEF Analyze
  <2>2. IsSeq(seen') /\ Len(seen') = Len(seen) + 1
    BY <1>1, <1>8, SeqGrows DEF Analyze
  <2>3. running /\ UNCHANGED <<mode, ring, hand, producer, running, stats>>
    BY <1>8 DEF Analyze
  <2>4. Routes' /\ QueueTypes'
    BY <1>1, <2>1, <2>2, <2>3 DEF EventsInv, QueueTypes, Routes
  <2>5. /\ stats'.passed + stats'.dropped = stats.passed + stats.dropped
        /\ mode' = mode /\ Len(ring') = Len(ring) /\ hand' = hand
        /\ running' = TRUE
    BY <1>1, <2>3
  <2> QED
    <3>1. PICK n \in Nat, h \in {0, 1} : /\ n = stats.passed + stats.dropped
                                         /\ h = IF hand = None THEN 0 ELSE 1
      BY <1>11
    <3>2. mode = "xdp" => n = Len(ring) + h + Len(chan) + Len(seen)
      BY <3>1 DEF EventsInv, EventsAccounted
    <3>3. mode = "xdp" => n = Len(ring) + h + Len(chan') + Len(seen')
      BY <1>2, <2>1, <2>2, <3>2
    <3>4. EventsAccounted'
      BY <2>5, <3>1, <3>3 DEF EventsAccounted
    <3> QED
      BY <2>4, <3>4 DEF EventsInv
<1>9. CASE Finish
  <2>1. ring = <<>> /\ chan = <<>> /\ hand = None /\ mode = "sim"
    BY <1>9 DEF Finish, EventsInv, Routes
  <2>2. UNCHANGED <<mode, ring, hand, chan, producer, stats, seen>> /\ running' = FALSE
    BY <1>9 DEF Finish, queues
  <2>3. Routes' /\ QueueTypes'
    BY <1>1, <2>1, <2>2 DEF EventsInv, QueueTypes, Routes
  <2> QED
    BY <1>2, <2>1, <2>2, <2>3 DEF EventsInv, EventsAccounted
<1>10. CASE Reap \/ Lapse \/ Pass
  BY <1>1, <1>2, <1>10
  DEF Reap, Lapse, Pass, queues, EventsInv, QueueTypes, Routes, EventsAccounted
<1> QED
  BY <1>4, <1>5, <1>6, <1>7, <1>8, <1>9, <1>10 DEF Next

(***************************************************************************)
(* Every event the kernel counted is in the ring, with the reader, in the  *)
(* channel or analysed, and a simulation that ended has had all of its     *)
(* packets analysed (nsm_xdp, read_events, run_event_loop), for rings and  *)
(* channels of any size.                                                   *)
(***************************************************************************)
THEOREM NoEventLost == MCSpec => []EventsAccounted
<1>1. MCInit => EventsInv
  BY EventsInvInit DEF MCInit
<1>2. EventsInv /\ [MCNext]_<<part, vars, watch>> => EventsInv'
  <2>1. ASSUME EventsInv, UNCHANGED vars
        PROVE  EventsInv'
    BY <2>1 DEF vars, EventsInv, QueueTypes, Routes, EventsAccounted
  <2> QED
    BY <2>1, EventsInvStep DEF MCNext
<1>3. EventsInv => EventsAccounted
  BY DEF EventsInv
<1> QED
  BY <1>1, <1>2, <1>3, PTL DEF MCSpec

-----------------------------------------------------------------------------
(***************************************************************************)
(* Tumbling windows, apart from any state.  E is the set of the hits of    *)
(* one key, as pairs of a time and of what is counted; A the times of its  *)
(* alerts; the current window began at s.  What holds of every stretch of  *)
(* the length of a window (2T - 1 hits raise an alert) follows for a       *)
(* stretch that ends now from what holds within the current window and     *)
(* from the hits of such a stretch that precede it.                        *)
(***************************************************************************)
Items(E, t, u) == {e[2] : e \in {x \in E : t <= x[1] /\ x[1] <= u}}

Alarm(A, t, u) == \E x \in A : t <= x /\ x <= u

Tumbling(E, A, s, T, len) ==
  /\ \A e \in E : e[1] <= s + len
  /\ \A t, u \in Int : t >= s /\ Cardinality(Items(E, t, u)) >= T => Alarm(A, t, u)
  /\ \A t \in Int : t < s /\ s <= t + len /\ Cardinality(Items(E, t, s - 1)) >= T
                   => Alarm(A, t, t + len)
  /\ \A t \in Int : Cardinality(Items(E, t, t + len)) >= 2 * T - 1 => Alarm(A, t, t + len)

LEMMA ItemsFinite ==
  ASSUME NEW E, IsFiniteSet(E), NEW t, NEW u
  PROVE  IsFiniteSet(Items(E, t, u)) /\ Cardinality(Items(E, t, u)) \in Nat
<1> DEFINE D == {x \in E : t <= x[1] /\ x[1] <= u}
           f == [e \in D |-> e[2]]
<1>1. IsFiniteSet(D)
  BY FS_Subset
<1>2. f \in Surjection(D, Items(E, t, u))
  BY DEF Surjection, Items
<1> HIDE DEF f, D
<1> QED
  BY <1>1, <1>2, FS_Surjection, FS_CardinalityType

LEMMA ItemsMono ==
  ASSUME NEW E, NEW F, IsFiniteSet(F), NEW t, NEW u, NEW v, NEW w,
         Items(E, t, u) \subseteq Items(F, v, w)
  PROVE  Cardinality(Items(E, t, u)) <= Cardinality(Items(F, v, w))
<1>1. PICK S, U : S = Items(E, t, u) /\ U = Items(F, v, w)
  OBVIOUS
<1>2. S \subseteq U /\ IsFiniteSet(U)
  BY <1>1, ItemsFinite
<1> QED
  BY <1>1, <1>2, FS_Subset

LEMMA TooFew ==
  ASSUME NEW T \in Nat \ {0}, NEW n, n = 0
  PROVE  ~(n >= T) /\ ~(n >= 2 * T - 1)
OBVIOUS

LEMMA OneHasHalf ==
  ASSUME NEW X, IsFiniteSet(X), NEW Y, IsFiniteSet(Y), NEW T \in Nat \ {0},
         Cardinality(X \cup Y) >= 2 * T - 1
  PROVE  Cardinality(X) >= T \/ Cardinality(Y) >= T
<1>1. /\ Cardinality(X \cup Y) = Cardinality(X) + Cardinality(Y) - Cardinality(X \cap Y)
      /\ IsFiniteSet(X \cap Y)
  BY FS_Union, FS_Subset
<1>2. Cardinality(X) \in Nat /\ Cardinality(Y) \in Nat /\ Cardinality(X \cap Y) \in Nat
  BY <1>1, FS_CardinalityType
<1> QED
  BY <1>1, <1>2

LEMMA TumbleStart ==
  ASSUME NEW A, NEW T \in Nat \ {0}, NEW len, NEW s
  PROVE  Tumbling({}, A, s, T, len)
<1>1. \A t, u : Items({}, t, u) = {}
  BY DEF Items
<1>2. Cardinality({}) = 0
  BY FS_EmptySet
<1>3. ~(0 >= T) /\ ~(0 >= 2 * T - 1)
  OBVIOUS
<1> HIDE DEF Items
<1> QED
  BY <1>1, <1>2, <1>3 DEF Tumbling

LEMMA TumbleMore ==
  ASSUME NEW E, NEW A, NEW B, A \subseteq B, NEW T, NEW len, NEW s,
         Tumbling(E, A, s, T, len)
  PROVE  Tumbling(E, B, s, T, len)
<1>1. \A t, u : Alarm(A, t, u) => Alarm(B, t, u)
  BY DEF Alarm
<1> QED
  BY <1>1 DEF Tumbling

(***************************************************************************)
(* One more hit: it falls in the current window, or begins a new one.      *)
(***************************************************************************)
NextHit(E, F, A, B, s, r, c, v, T, len) ==
  /\ IsFiniteSet(E) /\ F = E \cup {<<c, v>>}
  /\ A \subseteq B /\ B \subseteq Int
  /\ T \in Nat \ {0} /\ len \in Nat /\ s \in Int /\ r \in Int /\ c \in Int
  /\ \A e \in E : e[1] \in Int /\ e[1] <= c
  /\ Tumbling(E, A, s, T, len)
  /\ \/ s <= c /\ c - s <= len /\ r = s
     \/ c - s > len /\ r = c
  /\ Cardinality(Items(F, r, r + len)) >= T => c \in B

LEMMA TumbleOn ==
  ASSUME NEW E, NEW F, NEW A, NEW B, NEW s, NEW r, NEW c, NEW v, NEW T, NEW len,
         NextHit(E, F, A, B, s, r, c, v, T, len)
  PROVE  Tumbling(F, B, r, T, len)
<1> USE DEF NextHit
<1>0. PICK q \in Int : q = r + len
  OBVIOUS
<1>1. IsFiniteSet(F)
  BY FS_AddElement
<1>2. \A t, u \in Int : u < c => Items(F, t, u) = Items(E, t, u)
  BY DEF Items
<1>3. \A t, u \in Int : Cardinality(Items(F, t, u)) \in Nat
  BY <1>1, ItemsFinite
<1>4. \A t, u : Alarm(A, t, u) => Alarm(B, t, u)
  BY DEF Alarm
<1>5. \A e \in F : e[1] \in Int /\ e[1] <= c
  OBVIOUS
<1>6. \A e \in F : e[1] <= r + len
  BY DEF Tumbling
<1>7. ASSUME NEW t \in Int, NEW u \in Int, t >= r, Cardinality(Items(F, t, u)) >= T
      PROVE  Alarm(B, t, u)
  <2>1. CASE u < c /\ r = s
    BY <1>2, <1>4, <1>7, <2>1 DEF Tumbling
  <2>2. CASE t > c \/ (u < c /\ r = c)
    <3>1. Items(F, t, u) = {}
      BY <1>5, <1>7, <2>2 DEF Items
    <3>2. Cardinality(Items(F, t, u)) = 0
      BY <3>1, FS_EmptySet
    <3> QED
      BY <1>7, <3>2, TooFew
  <2>3. CASE u >= c /\ t <= c
    <3>1. Items(F, t, u) \subseteq Items(F, r, q)
      BY <1>0, <1>5, <1>7 DEF Items
    <3>2. Cardinality(Items(F, t, u)) <= Cardinality(Items(F, r, q))
      BY <1>1, <3>1, ItemsMono
    <3>3. PICK m \in Nat, n \in Nat : /\ m = Cardinality(Items(F, t, u))
                                      /\ n = Cardinality(Items(F, r, q))
      BY <1>3
    <3>4. n >= T
      BY <1>7, <3>2, <3>3
    <3>5. c \in B
      BY <1>0, <3>3, <3>4
    <3> QED
      BY <2>3, <3>5 DEF Alarm
  <2> QED
    BY <2>1, <2>2, <2>3
<1>8. ASSUME NEW t \in Int, NEW u \in Int, u = t + len, t < r, r <= u,
             NEW w \in Int, w = r - 1, Cardinality(Items(F, t, w)) >= T
      PROVE  Alarm(B, t, u)
  <2>1. CASE r = s /\ s <= c
    <3>1. w < c /\ w = s - 1 /\ t < s /\ s <= t + len
      BY <1>8, <2>1
    <3>3. Items(F, t, w) = Items(E, t, w)
      BY <1>2, <3>1
    <3>2. Alarm(A, t, t + len)
      <4>1. Cardinality(Items(E, t, s - 1)) >= T
        BY <1>8, <3>1, <3>3
      <4> QED
        BY <3>1, <4>1 DEF Tumbling
    <3> QED
      BY <1>4, <1>8, <3>2
  <2>2. CASE r = c /\ c - s > len
    <3>1. Items(F, t, w) = Items(E, t, w)
      <4>1. w < c
        BY <1>8, <2>2
      <4> QED
        BY <1>2, <4>1
    <3>2. t >= s
      BY <1>8, <2>2
    <3>3. Alarm(A, t, w)
      BY <1>8, <3>1, <3>2 DEF Tumbling
    <3>4. PICK x \in A : t <= x /\ x <= w
      BY <3>3 DEF Alarm
    <3>5. x \in B /\ x <= u
      BY <1>8, <3>4
    <3> QED
      BY <3>4, <3>5 DEF Alarm
  <2> QED
    BY <2>1, <2>2
<1>9. ASSUME NEW t \in Int, NEW u \in Int, u = t + len,
             Cardinality(Items(F, t, u)) >= 2 * T - 1
      PROVE  Alarm(B, t, u)
  <2>1. CASE u < c
    <3>1. Items(F, t, u) = Items(E, t, t + len)
      BY <1>2, <1>9, <2>1
    <3>2. Alarm(A, t, t + len)
      BY <1>9, <3>1 DEF Tumbling
    <3> QED
      BY <1>4, <1>9, <3>2
  <2>2. CASE t >= r
    <3>1. PICK n \in Nat : n = Cardinality(Items(F, t, u))
      BY <1>3
    <3>2. n >= T
      BY <1>9, <3>1
    <3> QED
      BY <1>7, <2>2, <3>1, <3>2
  <2>3. CASE u >= c /\ t < r
    <3>1. PICK w \in Int : w = r - 1
      OBVIOUS
    <3>2. r <= u
      BY <2>3
    <3>3. Items(F, t, u) = Items(F, t, w) \cup Items(F, r, u)
      BY <1>5, <2>3, <3>1 DEF Items
    <3>4. PICK X, Y : X = Items(F, t, w) /\ Y = Items(F, r, u)
      OBVIOUS
    <3>5. IsFiniteSet(X) /\ IsFiniteSet(Y)
      BY <1>1, <3>4, ItemsFinite
    <3>6. Cardinality(X \cup Y) >= 2 * T - 1
      BY <1>9, <3>3, <3>4
    <3>7. Cardinality(X) >= T \/ Cardinality(Y) >= T
      BY <3>5, <3>6, OneHasHalf
    <3>8. CASE Cardinality(X) >= T
      BY <1>8, <1>9, <2>3, <3>1, <3>2, <3>4, <3>8
    <3>9. CASE Cardinality(Y) >= T
      <4>1. Alarm(B, r, u)
        <5>1. r >= r /\ Cardinality(Items(F, r, u)) >= T
          BY <3>4, <3>9
        <5> QED
          BY <1>7, <5>1
      <4>2. PICK x \in B : r <= x /\ x <= u
        BY <4>1 DEF Alarm
      <4>3. t <= x
        BY <2>3, <4>2
      <4> QED
        BY <4>2, <4>3 DEF Alarm
    <3> QED
      BY <3>7, <3>8, <3>9
  <2> QED
    BY <2>1, <2>2, <2>3
<1>10. /\ \A t \in Int : t < r /\ r <= t + len /\ Cardinality(Items(F, t, r - 1)) >= T
                       => Alarm(B, t, t + len)
       /\ \A t \in Int : Cardinality(Items(F, t, t + len)) >= 2 * T - 1
                       => Alarm(B, t, t + len)
  <2>1. \A t \in Int : t + len \in Int /\ r - 1 \in Int
    OBVIOUS
  <2> QED
    BY <1>8, <1>9, <2>1
<1> QED
  BY <1>6, <1>7, <1>10 DEF Tumbling

(***************************************************************************)
(* What the window that a hit falls in has counted.                        *)
(***************************************************************************)
Grown(E, F, s, c, v, len) ==
  /\ len \in Nat /\ s \in Int /\ c \in Int /\ F = E \cup {<<c, v>>}
  /\ \A e \in E : e[1] \in Int /\ e[1] <= c /\ e[1] <= s + len

LEMMA WindowOn ==
  ASSUME NEW E, NEW F, NEW s, NEW c, NEW v, NEW len, Grown(E, F, s, c, v, len)
  PROVE  /\ s <= c /\ c - s <= len => Items(F, s, s + len) = Items(E, s, s + len) \cup {v}
         /\ c - s > len => Items(F, c, c + len) = {v}
<1> USE DEF Grown
<1> DEFINE n == <<c, v>>
<1>1. n[1] = c /\ n[2] = v /\ n \in F
  OBVIOUS
<1>2. \A e \in F : e \in E \/ e = n
  OBVIOUS
<1> HIDE DEF n
<1>3. ASSUME s <= c, c - s <= len
      PROVE  Items(F, s, s + len) = Items(E, s, s + len) \cup {v}
  <2>1. n \in {x \in F : s <= x[1] /\ x[1] <= s + len}
    BY <1>1, <1>3
  <2>2. {x \in F : s <= x[1] /\ x[1] <= s + len}
          = {x \in E : s <= x[1] /\ x[1] <= s + len} \cup {n}
    BY <1>1, <1>2, <2>1
  <2> QED
    BY <1>1, <2>2 DEF Items
<1>4. ASSUME c - s > len
      PROVE  Items(F, c, c + len) = {v}
  <2>1. \A e \in E : ~(c <= e[1])
    BY <1>4
  <2>2. {x \in F : c <= x[1] /\ x[1] <= c + len} = {n}
    BY <1>1, <1>2, <2>1
  <2> QED
    BY <1>1, <2>2 DEF Items
<1> QED
  BY <1>3, <1>4

-----------------------------------------------------------------------------
(***************************************************************************)
(* The detectors.  The hits of a key are the packets analysed that count   *)
(* for it; a window's log holds those since the window began, no more (the *)
(* alerts are backed) and no less (bursts are reported).  Packets come     *)
(* from frames: their addresses are those of a frame, and in xdp mode they *)
(* have no payload.                                                        *)
(***************************************************************************)
Traced(p) == \E f \in Frames[mode] :
               /\ p.src = f.src /\ p.dst = f.dst
               /\ SynOnly(p) => FloodKey(p) = FloodKey(f)
               /\ mode = "xdp" => p.body = "none"

Origin == /\ IsSeq(ring) /\ IsSeq(chan) /\ IsSeq(seen)
          /\ mode \in Modes
          /\ \A i \in DOMAIN ring : Traced(ring[i])
          /\ hand # None => Traced(hand.pkt)
          /\ \A i \in DOMAIN chan : Traced(chan[i].pkt)
          /\ \A i \in DOMAIN seen : Traced(seen[i].pkt)

Clocks == /\ clock \in Nat
          /\ \A i \in DOMAIN seen : seen[i].at \in Nat /\ seen[i].at <= clock
          /\ \A a \in alerts : a.at \in Nat

ScanHits(s) == {<<seen[i].at, seen[i].pkt.dport>> : i \in
                 {j \in DOMAIN seen : IsTouch(seen[j].pkt) /\ seen[j].pkt.src = s}}
FloodHits(k) == {<<seen[i].at, i>> : i \in
                  {j \in DOMAIN seen : SynOnly(seen[j].pkt) /\ FloodKey(seen[j].pkt) = k}}
DnsHits(s) == {<<seen[i].at, i>> : i \in
                {j \in DOMAIN seen : IsDns(seen[j].pkt) /\ seen[j].pkt.src = s}}
LabelHits(s) == {<<seen[i].at, i>> : i \in
                  {j \in DOMAIN seen : /\ IsDns(seen[j].pkt) /\ seen[j].pkt.src = s
                                       /\ seen[j].pkt.body = "label"}}

ScanTimes(s) == {a.at : a \in {x \in alerts : x.det = "portscan" /\ x.src = s}}
FloodTimes(k) == {a.at : a \in {x \in alerts : x.det = "synflood" /\ x.dst = k[1]}}
DnsTimes(s) == {a.at : a \in {x \in alerts : x.det \in {"dns_rate", "dns_tunnel"} /\ x.src = s}}

WindowInv(m, k, E, A, T, len) ==
  IF k \in DOMAIN m
  THEN /\ m[k].started \in Nat /\ m[k].started <= clock
       /\ Tumbling(E, A, m[k].started, T, len)
  ELSE E = {}

InWindow(m, k, E, len) == Items(E, m[k].started, m[k].started + len)

Inbound(s) == \A f \in Frames[mode] : f.src = s => f.dst \in Local

ScanInv ==
  \A s : /\ WindowInv(scans, s, ScanHits(s), ScanTimes(s), OutPorts, ScanWindow)
         /\ Inbound(s) => WindowInv(scans, s, ScanHits(s), ScanTimes(s), InPorts, ScanWindow)
         /\ s \in DOMAIN scans =>
              /\ IsSeq(scans[s].log)
              /\ Field(scans[s], "dport") = InWindow(scans, s, ScanHits(s), ScanWindow)

FloodInv ==
  \A k : /\ WindowInv(floods, k, FloodHits(k), FloodTimes(k), FloodSyns, FloodWindow)
         /\ k \in DOMAIN floods =>
              /\ IsSeq(floods[k].log)
              /\ Len(floods[k].log) = Cardinality(InWindow(floods, k, FloodHits(k), FloodWindow))

Labels(log) == {i \in DOMAIN log : log[i].body = "label"}

DnsInv ==
  \A s : /\ WindowInv(dns, s, DnsHits(s), DnsTimes(s), DnsQueries, DnsWindow)
         /\ s \in DOMAIN dns =>
              /\ IsSeq(dns[s].log)
              /\ Len(dns[s].log) = Cardinality(InWindow(dns, s, DnsHits(s), DnsWindow))
              /\ Cardinality(Labels(dns[s].log))
                   = Cardinality(InWindow(dns, s, LabelHits(s), DnsWindow))

(* What backs an alert, and a block, in terms of hits.                     *)
Enough(E, t, u, n) == Cardinality(Items(E, t, u)) >= n

Backed(a) ==
  /\ a.det = "portscan"
     => Enough(ScanHits(a.src), a.at - ScanWindow, a.at, InPorts)
  /\ a.det = "synflood"
     => \E k \in Targets : /\ k[1] = a.dst
                           /\ Enough(FloodHits(k), a.at - FloodWindow, a.at, FloodSyns)
  /\ a.det = "dns_tunnel"
     => Enough(LabelHits(a.src), a.at - DnsWindow, a.at, DnsSuspicious)

Earned(s) == \E t \in 0..clock : Enough(ScanHits(s), t, t + ScanWindow, InPorts * Escalation)

SensorInv == /\ Origin /\ Clocks /\ ScanInv /\ FloodInv /\ DnsInv
             /\ \A a \in alerts : Backed(a)
             /\ \A s \in blocked : Earned(s)

LEMMA Appended ==
  ASSUME NEW s, NEW e, IsSeq(s)
  PROVE  /\ DOMAIN s = 1..Len(s) /\ Len(s) \in Nat
         /\ DOMAIN Append(s, e) = DOMAIN s \cup {Len(s) + 1}
         /\ Len(s) + 1 \notin DOMAIN s
         /\ \A i \in DOMAIN s : Append(s, e)[i] = s[i]
         /\ Append(s, e)[Len(s) + 1] = e
<1>1. PICK S : s \in Seq(S)
  BY DEF IsSeq
<1>2. s \in Seq(S \cup {e}) /\ e \in S \cup {e}
  <2>1. s \in [1..Len(s) -> S]
    BY <1>1
  <2> QED
    BY <1>1, <2>1
<1>3. DOMAIN s = 1..Len(s) /\ Len(s) \in Nat /\ DOMAIN Append(s, e) = 1..(Len(s) + 1)
  BY <1>2
<1>4. /\ DOMAIN Append(s, e) = DOMAIN s \cup {Len(s) + 1}
      /\ Len(s) + 1 \notin DOMAIN s
  BY <1>3
<1> QED
  BY <1>2, <1>3, <1>4

LEMMA Taken ==
  ASSUME NEW s, IsSeq(s), s # <<>>
  PROVE  /\ \A i \in DOMAIN Tail(s) : \E j \in DOMAIN s : Tail(s)[i] = s[j]
         /\ \E j \in DOMAIN s : Head(s) = s[j]
<1>1. PICK S : s \in Seq(S)
  BY DEF IsSeq
<1>2. \A i \in DOMAIN Tail(s) : i + 1 \in DOMAIN s /\ Tail(s)[i] = s[i + 1]
  BY <1>1
<1>3. 1 \in DOMAIN s /\ Head(s) = s[1]
  BY <1>1
<1> QED
  BY <1>2, <1>3

(***************************************************************************)
(* The kernel's event and a parsed packet both stem from a frame.          *)
(***************************************************************************)
LEMMA FrameTraced ==
  ASSUME mode \in Modes, NEW f \in Frames[mode]
  PROVE  /\ mode # "xdp" => Traced(f)
         /\ \A d \in BOOLEAN : Traced(Event(f, d))
<1>1. DOMAIN f = FrameFields
  BY SensorAssumption
<1>2. mode # "xdp" => Traced(f)
  BY DEF Traced
<1>3. /\ Blank(f).src = f.src /\ Blank(f).dst = f.dst
      /\ Blank(f).body = "none" /\ Blank(f).flags = {}
  BY <1>1 DEF Blank, FrameFields
<1>4. Traced(Blank(f))
  BY <1>3 DEF Traced, SynOnly
<1>5. LET g == [f EXCEPT !.body = "none"]
      IN  /\ g.src = f.src /\ g.dst = f.dst /\ g.dport = f.dport /\ g.body = "none"
  BY <1>1 DEF FrameFields
<1>6. Traced([f EXCEPT !.body = "none"])
  BY <1>5 DEF Traced, FloodKey
<1> QED
  BY <1>2, <1>4, <1>6 DEF Event

LEMMA OriginStep ==
  ASSUME Origin, Next
  PROVE  Origin'
<1>1. UNCHANGED mode
  BY DEF Next, Arrive, ReadEvent, Send, HangUp, Analyze, Finish, Reap, Lapse, Pass
<1>2. \A p : Traced(p)' <=> Traced(p)
  BY <1>1 DEF Traced
<1>3. CASE Arrive
  <2>1. PICK f \in Frames[mode] : XdpFrame(f) \/ PnetFrame(f) \/ SimPacket(f)
    BY <1>3 DEF Arrive
  <2>2. UNCHANGED <<chan, seen>>
    BY <1>3 DEF Arrive
  <2>3. CASE XdpFrame(f)
    <3>1. UNCHANGED hand
      BY <2>3 DEF XdpFrame
    <3>2. CASE UNCHANGED ring
      BY <1>1, <1>2, <2>2, <3>1, <3>2 DEF Origin
    <3>3. CASE \E d \in BOOLEAN : ring' = Append(ring, Event(f, d))
      <4>1. PICK e : Traced(e) /\ ring' = Append(ring, e)
        BY <3>3, FrameTraced DEF Origin
      <4>2. /\ IsSeq(ring') /\ DOMAIN ring' = DOMAIN ring \cup {Len(ring) + 1}
            /\ \A i \in DOMAIN ring : ring'[i] = ring[i]
            /\ ring'[Len(ring) + 1] = e
        BY <4>1, Appended, SeqGrows DEF Origin
      <4>3. \A i \in DOMAIN ring' : Traced(ring'[i])
        BY <4>1, <4>2 DEF Origin
      <4> QED
        BY <1>1, <1>2, <2>2, <3>1, <4>2, <4>3 DEF Origin
    <3> QED
      BY <2>3, <3>2, <3>3 DEF XdpFrame, Submit, Dropped
  <2>4. CASE PnetFrame(f) \/ SimPacket(f)
    <3>1. UNCHANGED ring /\ mode # "xdp" /\ (hand' = None \/ hand'.pkt = f)
      BY <2>4 DEF PnetFrame, SimPacket, Meta
    <3>2. Traced(f)
      BY <3>1, FrameTraced DEF Origin
    <3> QED
      BY <1>1, <1>2, <2>2, <3>1, <3>2 DEF Origin
  <2> QED
    BY <2>1, <2>3, <2>4
<1>4. CASE ReadEvent
  <2>1. /\ IsSeq(ring') /\ \A i \in DOMAIN ring' : Traced(ring'[i])
        /\ Traced(Head(ring))
    BY <1>4, Taken, SeqShrinks DEF ReadEvent, Origin
  <2>2. hand'.pkt = Head(ring)
    BY <1>4 DEF ReadEvent, EventToMeta, Meta
  <2> QED
    BY <1>1, <1>2, <1>4, <2>1, <2>2 DEF ReadEvent, Origin
<1>5. CASE Send
  <2>1. /\ IsSeq(chan') /\ DOMAIN chan' = DOMAIN chan \cup {Len(chan) + 1}
        /\ \A i \in DOMAIN chan : chan'[i] = chan[i]
        /\ chan'[Len(chan) + 1] = hand
    BY <1>5, Appended, SeqGrows DEF Send, Origin
  <2>2. \A i \in DOMAIN chan' : Traced(chan'[i].pkt)
    BY <1>5, <2>1 DEF Send, Origin
  <2> QED
    BY <1>1, <1>2, <1>5, <2>1, <2>2 DEF Send, Origin
<1>6. CASE Analyze
  <2>1. PICK e : e = [pkt |-> Head(chan).pkt, at |-> clock] /\ seen' = Append(seen, e)
    BY <1>6 DEF Analyze
  <2>2. /\ IsSeq(chan') /\ \A i \in DOMAIN chan' : Traced(chan'[i].pkt)
        /\ Traced(e.pkt)
    BY <1>6, <2>1, Taken, SeqShrinks DEF Analyze, Origin
  <2>3. /\ IsSeq(seen') /\ DOMAIN seen' = DOMAIN seen \cup {Len(seen) + 1}
        /\ \A i \in DOMAIN seen : seen'[i] = seen[i]
        /\ seen'[Len(seen) + 1] = e
    BY <2>1, Appended, SeqGrows DEF Origin
  <2>4. \A i \in DOMAIN seen' : Traced(seen'[i].pkt)
    BY <2>2, <2>3 DEF Origin
  <2>5. UNCHANGED <<ring, hand>>
    BY <1>6 DEF Analyze
  <2> QED
    BY <1>1, <1>2, <2>2, <2>3, <2>4, <2>5 DEF Origin
<1>7. CASE HangUp \/ Finish \/ Reap \/ Lapse \/ Pass
  <2>1. UNCHANGED <<ring, hand, chan, seen>>
    BY <1>7 DEF HangUp, Finish, Reap, Lapse, Pass, queues
  <2> QED
    BY <1>1, <1>2, <2>1 DEF Origin
<1> QED
  BY <1>3, <1>4, <1>5, <1>6, <1>7 DEF Next

(***************************************************************************)
(* The hits of a key are finitely many, and a packet analysed adds at most *)
(* one.                                                                    *)
(***************************************************************************)
LEMMA SeenFinite ==
  ASSUME IsSeq(seen), NEW D, D \subseteq DOMAIN seen
  PROVE  IsFiniteSet(D)
<1>1. DOMAIN seen = 1..Len(seen) /\ Len(seen) \in Nat
  BY Appended
<1>2. IsFiniteSet(1..Len(seen))
  BY <1>1, FS_Interval
<1> QED
  BY <1>1, <1>2, FS_Subset

LEMMA ScanHitsGrow ==
  ASSUME IsSeq(seen), NEW p, NEW c, seen' = Append(seen, [pkt |-> p, at |-> c]), NEW s
  PROVE  ScanHits(s)' = IF IsTouch(p) /\ p.src = s
                      THEN ScanHits(s) \cup {<<c, p.dport>>} ELSE ScanHits(s)
<1> DEFINE n == Len(seen) + 1
           D == {j \in DOMAIN seen : IsTouch(seen[j].pkt) /\ seen[j].pkt.src = s}
           D2 == {j \in DOMAIN seen' : IsTouch(seen'[j].pkt) /\ seen'[j].pkt.src = s}
<1>1. /\ DOMAIN seen' = DOMAIN seen \cup {n} /\ n \notin DOMAIN seen
      /\ \A i \in DOMAIN seen : seen'[i] = seen[i]
      /\ seen'[n].pkt = p /\ seen'[n].at = c
  BY Appended
<1> HIDE DEF n
<1>2. D2 = IF IsTouch(p) /\ p.src = s THEN D \cup {n} ELSE D
  BY <1>1
<1>3. \A i \in D : i \in DOMAIN seen
  OBVIOUS
<1>4. ScanHits(s)' = {<<seen'[i].at, seen'[i].pkt.dport>> : i \in D2}
  BY DEF ScanHits
<1>5. ScanHits(s) = {<<seen[i].at, seen[i].pkt.dport>> : i \in D}
  BY DEF ScanHits
<1> HIDE DEF D, D2
<1> QED
  BY <1>1, <1>2, <1>3, <1>4, <1>5

LEMMA ScanHitsFinite ==
  ASSUME IsSeq(seen), Clocks, NEW s
  PROVE  /\ IsFiniteSet(ScanHits(s))
         /\ \A e \in ScanHits(s) : e[1] \in Nat /\ e[1] <= clock
<1> DEFINE D == {j \in DOMAIN seen : IsTouch(seen[j].pkt) /\ seen[j].pkt.src = s}
           f == [i \in D |-> <<seen[i].at, seen[i].pkt.dport>>]
<1>1. DOMAIN seen = 1..Len(seen) /\ Len(seen) \in Nat
  BY Appended
<1>2. IsFiniteSet(D)
  <2>1. D \subseteq DOMAIN seen
    OBVIOUS
  <2> HIDE DEF D
  <2> QED
    BY <2>1, SeenFinite
<1>3. f \in Surjection(D, ScanHits(s))
  BY DEF Surjection, ScanHits
<1>4. \A e \in ScanHits(s) : e[1] \in Nat /\ e[1] <= clock
  BY <1>1 DEF ScanHits, Clocks
<1> HIDE DEF f, D
<1> QED
  BY <1>2, <1>3, <1>4, FS_Surjection

LEMMA FloodHitsGrow ==
  ASSUME IsSeq(seen), NEW p, NEW c, seen' = Append(seen, [pkt |-> p, at |-> c]), NEW k
  PROVE  FloodHits(k)' = IF SynOnly(p) /\ FloodKey(p) = k
                      THEN FloodHits(k) \cup {<<c, Len(seen) + 1>>} ELSE FloodHits(k)
<1> DEFINE n == Len(seen) + 1
           D == {j \in DOMAIN seen : SynOnly(seen[j].pkt) /\ FloodKey(seen[j].pkt) = k}
           D2 == {j \in DOMAIN seen' : SynOnly(seen'[j].pkt) /\ FloodKey(seen'[j].pkt) = k}
<1>1. /\ DOMAIN seen' = DOMAIN seen \cup {n} /\ n \notin DOMAIN seen
      /\ \A i \in DOMAIN seen : seen'[i] = seen[i]
      /\ seen'[n].pkt = p /\ seen'[n].at = c
  BY Appended
<1> HIDE DEF n
<1>2. D2 = IF SynOnly(p) /\ FloodKey(p) = k THEN D \cup {n} ELSE D
  BY <1>1
<1>3. \A i \in D : i \in DOMAIN seen
  OBVIOUS
<1>4. FloodHits(k)' = {<<seen'[i].at, i>> : i \in D2}
  BY DEF FloodHits
<1>5. FloodHits(k) = {<<seen[i].at, i>> : i \in D}
  BY DEF FloodHits
<1> HIDE DEF D, D2
<1> QED
  BY <1>1, <1>2, <1>3, <1>4, <1>5 DEF n

LEMMA FloodHitsFinite ==
  ASSUME IsSeq(seen), Clocks, NEW k
  PROVE  /\ IsFiniteSet(FloodHits(k))
         /\ \A e \in FloodHits(k) : e[1] \in Nat /\ e[1] <= clock /\ e[2] \in 1..Len(seen)
<1> DEFINE D == {j \in DOMAIN seen : SynOnly(seen[j].pkt) /\ FloodKey(seen[j].pkt) = k}
           f == [i \in D |-> <<seen[i].at, i>>]
<1>1. DOMAIN seen = 1..Len(seen) /\ Len(seen) \in Nat
  BY Appended
<1>2. IsFiniteSet(D)
  <2>1. D \subseteq DOMAIN seen
    OBVIOUS
  <2> HIDE DEF D
  <2> QED
    BY <2>1, SeenFinite
<1>3. f \in Surjection(D, FloodHits(k))
  BY DEF Surjection, FloodHits
<1>4. \A e \in FloodHits(k) : e[1] \in Nat /\ e[1] <= clock /\ e[2] \in 1..Len(seen)
  BY <1>1 DEF FloodHits, Clocks
<1> HIDE DEF f, D
<1> QED
  BY <1>2, <1>3, <1>4, FS_Surjection

LEMMA DnsHitsGrow ==
  ASSUME IsSeq(seen), NEW p, NEW c, seen' = Append(seen, [pkt |-> p, at |-> c]), NEW s
  PROVE  DnsHits(s)' = IF IsDns(p) /\ p.src = s
                      THEN DnsHits(s) \cup {<<c, Len(seen) + 1>>} ELSE DnsHits(s)
<1> DEFINE n == Len(seen) + 1
           D == {j \in DOMAIN seen : IsDns(seen[j].pkt) /\ seen[j].pkt.src = s}
           D2 == {j \in DOMAIN seen' : IsDns(seen'[j].pkt) /\ seen'[j].pkt.src = s}
<1>1. /\ DOMAIN seen' = DOMAIN seen \cup {n} /\ n \notin DOMAIN seen
      /\ \A i \in DOMAIN seen : seen'[i] = seen[i]
      /\ seen'[n].pkt = p /\ seen'[n].at = c
  BY Appended
<1> HIDE DEF n
<1>2. D2 = IF IsDns(p) /\ p.src = s THEN D \cup {n} ELSE D
  BY <1>1
<1>3. \A i \in D : i \in DOMAIN seen
  OBVIOUS
<1>4. DnsHits(s)' = {<<seen'[i].at, i>> : i \in D2}
  BY DEF DnsHits
<1>5. DnsHits(s) = {<<seen[i].at, i>> : i \in D}
  BY DEF DnsHits
<1> HIDE DEF D, D2
<1> QED
  BY <1>1, <1>2, <1>3, <1>4, <1>5 DEF n

LEMMA DnsHitsFinite ==
  ASSUME IsSeq(seen), Clocks, NEW s
  PROVE  /\ IsFiniteSet(DnsHits(s))
         /\ \A e \in DnsHits(s) : e[1] \in Nat /\ e[1] <= clock /\ e[2] \in 1..Len(seen)
<1> DEFINE D == {j \in DOMAIN seen : IsDns(seen[j].pkt) /\ seen[j].pkt.src = s}
           f == [i \in D |-> <<seen[i].at, i>>]
<1>1. DOMAIN seen = 1..Len(seen) /\ Len(seen) \in Nat
  BY Appended
<1>2. IsFiniteSet(D)
  <2>1. D \subseteq DOMAIN seen
    OBVIOUS
  <2> HIDE DEF D
  <2> QED
    BY <2>1, SeenFinite
<1>3. f \in Surjection(D, DnsHits(s))
  BY DEF Surjection, DnsHits
<1>4. \A e \in DnsHits(s) : e[1] \in Nat /\ e[1] <= clock /\ e[2] \in 1..Len(seen)
  BY <1>1 DEF DnsHits, Clocks
<1> HIDE DEF f, D
<1> QED
  BY <1>2, <1>3, <1>4, FS_Surjection

LEMMA LabelHitsGrow ==
  ASSUME IsSeq(seen), NEW p, NEW c, seen' = Append(seen, [pkt |-> p, at |-> c]), NEW s
  PROVE  LabelHits(s)' = IF IsDns(p) /\ p.src = s /\ p.body = "label"
                      THEN LabelHits(s) \cup {<<c, Len(seen) + 1>>} ELSE LabelHits(s)
<1> DEFINE n == Len(seen) + 1
           D == {j \in DOMAIN seen : IsDns(seen[j].pkt) /\ seen[j].pkt.src = s /\ seen[j].pkt.body = "label"}
           D2 == {j \in DOMAIN seen' : IsDns(seen'[j].pkt) /\ seen'[j].pkt.src = s /\ seen'[j].pkt.body = "label"}
<1>1. /\ DOMAIN seen' = DOMAIN seen \cup {n} /\ n \notin DOMAIN seen
      /\ \A i \in DOMAIN seen : seen'[i] = seen[i]
      /\ seen'[n].pkt = p /\ seen'[n].at = c
  BY Appended
<1> HIDE DEF n
<1>2. D2 = IF IsDns(p) /\ p.src = s /\ p.body = "label" THEN D \cup {n} ELSE D
  BY <1>1
<1>3. \A i \in D : i \in DOMAIN seen
  OBVIOUS
<1>4. LabelHits(s)' = {<<seen'[i].at, i>> : i \in D2}
  BY DEF LabelHits
<1>5. LabelHits(s) = {<<seen[i].at, i>> : i \in D}
  BY DEF LabelHits
<1> HIDE DEF D, D2
<1> QED
  BY <1>1, <1>2, <1>3, <1>4, <1>5 DEF n

LEMMA LabelHitsFinite ==
  ASSUME IsSeq(seen), Clocks, NEW s
  PROVE  /\ IsFiniteSet(LabelHits(s))
         /\ \A e \in LabelHits(s) : e[1] \in Nat /\ e[1] <= clock /\ e[2] \in 1..Len(seen)
<1> DEFINE D == {j \in DOMAIN seen : IsDns(seen[j].pkt) /\ seen[j].pkt.src = s /\ seen[j].pkt.body = "label"}
           f == [i \in D |-> <<seen[i].at, i>>]
<1>1. DOMAIN seen = 1..Len(seen) /\ Len(seen) \in Nat
  BY Appended
<1>2. IsFiniteSet(D)
  <2>1. D \subseteq DOMAIN seen
    OBVIOUS
  <2> HIDE DEF D
  <2> QED
    BY <2>1, SeenFinite
<1>3. f \in Surjection(D, LabelHits(s))
  BY DEF Surjection, LabelHits
<1>4. \A e \in LabelHits(s) : e[1] \in Nat /\ e[1] <= clock /\ e[2] \in 1..Len(seen)
  BY <1>1 DEF LabelHits, Clocks
<1> HIDE DEF f, D
<1> QED
  BY <1>2, <1>3, <1>4, FS_Surjection

-----------------------------------------------------------------------------
(***************************************************************************)
(* A packet counted for key k falls in the window k has, or begins one.    *)
(***************************************************************************)
LEMMA AnyWindow ==
  ASSUME NEW m, NEW k, NEW E, NEW A, NEW T \in Nat \ {0}, NEW len \in Nat,
         clock \in Nat, WindowInv(m, k, E, A, T, len)
  PROVE  \E s \in Int :
           /\ Tumbling(E, A, s, T, len)
           /\ \/ /\ k \in DOMAIN m /\ s = m[k].started /\ Window(m, k, len) = m[k]
                 /\ s \in Nat /\ s <= clock /\ clock - s <= len
              \/ clock - s > len /\ Window(m, k, len) = NewWindow
<1>1. CASE k \notin DOMAIN m
  <2>1. PICK s \in Int : s = clock - len - 1
    OBVIOUS
  <2>2. Tumbling(E, A, s, T, len)
    BY <1>1, TumbleStart DEF WindowInv
  <2>3. clock - s > len
    BY <2>1
  <2> QED
    BY <1>1, <2>2, <2>3 DEF Window
<1>2. CASE k \in DOMAIN m
  <2>1. PICK s \in Nat : /\ s = m[k].started /\ s <= clock
                         /\ Tumbling(E, A, s, T, len)
    BY <1>2 DEF WindowInv
  <2>2. CASE clock - s <= len
    BY <1>2, <2>1, <2>2 DEF Window
  <2>3. CASE clock - s > len
    <3>1. Window(m, k, len) = NewWindow
      BY <2>1, <2>3 DEF Window
    <3> QED
      BY <2>1, <2>3, <3>1
  <2> QED
    BY <2>1, <2>2, <2>3
<1> QED
  BY <1>1, <1>2

IsCounted(m, n, k, E, F, A, T, len, p, v) ==
  /\ IsFiniteSet(E) /\ F = E \cup {<<clock, v>>} /\ n = Counted(m, k, len, p)
  /\ T \in Nat \ {0} /\ len \in Nat /\ clock \in Nat
  /\ \A e \in E : e[1] \in Nat /\ e[1] <= clock
  /\ WindowInv(m, k, E, A, T, len)

LEMMA CountedOn ==
  ASSUME NEW m, NEW n, NEW k, NEW E, NEW F, NEW A, NEW T, NEW len, NEW p, NEW v,
         IsCounted(m, n, k, E, F, A, T, len, p, v),
         NEW B, A \subseteq B, B \subseteq Int,
         Cardinality(InWindow(n, k, F, len)) >= T => clock \in B
  PROVE  WindowInv(n, k, F, B, T, len)
<1> USE DEF IsCounted
<1>1. PICK s \in Int :
           /\ Tumbling(E, A, s, T, len)
           /\ \/ /\ k \in DOMAIN m /\ s = m[k].started /\ Window(m, k, len) = m[k]
                 /\ s \in Nat /\ s <= clock /\ clock - s <= len
              \/ clock - s > len /\ Window(m, k, len) = NewWindow
  BY AnyWindow
<1>2. k \in DOMAIN n /\ n[k].started = Window(m, k, len).started
  BY DEF Counted, Put
<1>3. PICK r \in Nat : /\ r = n[k].started /\ r <= clock
                       /\ \/ s <= clock /\ clock - s <= len /\ r = s
                          \/ clock - s > len /\ r = clock
  BY <1>1, <1>2 DEF NewWindow
<1>5. Cardinality(Items(F, r, r + len)) >= T => clock \in B
  BY <1>3 DEF InWindow
<1>6. \A e \in E : e[1] \in Int /\ e[1] <= clock
  OBVIOUS
<1>7. NextHit(E, F, A, B, s, r, clock, v, T, len)
  BY <1>1, <1>3, <1>5, <1>6 DEF NextHit
<1>8. Tumbling(F, B, r, T, len)
  BY <1>7, TumbleOn
<1> QED
  BY <1>2, <1>3, <1>8 DEF WindowInv

LEMMA CountedLog ==
  ASSUME NEW m, NEW n, NEW k, NEW E, NEW F, NEW A, NEW T, NEW len, NEW p, NEW v,
         IsCounted(m, n, k, E, F, A, T, len, p, v)
  PROVE  /\ n[k].started \in Nat /\ n[k].started <= clock /\ clock <= n[k].started + len
         /\ \/ /\ k \in DOMAIN m /\ n[k].log = Append(m[k].log, p)
               /\ n[k].started = m[k].started
               /\ InWindow(n, k, F, len) = InWindow(m, k, E, len) \cup {v}
            \/ /\ n[k].log = Append(<<>>, p)
               /\ n[k].started = clock
               /\ InWindow(n, k, F, len) = {v}
               /\ \A e \in E : e[1] < clock
<1> USE DEF IsCounted
<1>1. PICK s \in Int :
           /\ Tumbling(E, A, s, T, len)
           /\ \/ /\ k \in DOMAIN m /\ s = m[k].started /\ Window(m, k, len) = m[k]
                 /\ s \in Nat /\ s <= clock /\ clock - s <= len
              \/ clock - s > len /\ Window(m, k, len) = NewWindow
  BY AnyWindow
<1>2. /\ n[k].started = Window(m, k, len).started
      /\ n[k].log = Append(Window(m, k, len).log, p)
  BY DEF Counted, Put
<1>3. \A e \in E : e[1] \in Int /\ e[1] <= clock /\ e[1] <= s + len
  BY <1>1 DEF Tumbling
<1>4. PICK c \in Nat : c = clock
  OBVIOUS
<1>7. /\ s <= c /\ c - s <= len => Items(F, s, s + len) = Items(E, s, s + len) \cup {v}
      /\ c - s > len => Items(F, c, c + len) = {v}
  <2>1. Grown(E, F, s, c, v, len)
    BY <1>3, <1>4 DEF Grown
  <2> HIDE DEF IsCounted
  <2> QED
    BY ONLY <2>1, WindowOn, SMT
<1>5. CASE /\ k \in DOMAIN m /\ s = m[k].started /\ Window(m, k, len) = m[k]
           /\ s \in Nat /\ s <= clock /\ clock - s <= len
  <2>1. Items(F, s, s + len) = Items(E, s, s + len) \cup {v}
    BY <1>4, <1>5, <1>7
  <2>2. /\ n[k].started = s /\ m[k].started = s /\ n[k].log = Append(m[k].log, p)
    BY <1>2, <1>5
  <2>3. InWindow(n, k, F, len) = InWindow(m, k, E, len) \cup {v}
    BY <2>1, <2>2 DEF InWindow
  <2>4. clock <= s + len
    BY <1>5
  <2> QED
    BY <1>5, <2>2, <2>3, <2>4
<1>6. CASE clock - s > len /\ Window(m, k, len) = NewWindow
  <2>1. Items(F, c, c + len) = {v}
    BY <1>4, <1>6, <1>7
  <2>2. n[k].started = clock /\ n[k].log = Append(<<>>, p)
    BY <1>2, <1>6 DEF NewWindow
  <2>3. InWindow(n, k, F, len) = {v}
    BY <1>4, <2>1, <2>2 DEF InWindow
  <2>4. clock <= clock + len
    OBVIOUS
  <2>5. \A e \in E : e[1] < clock
    <3>1. TAKE e \in E
    <3>2. e[1] \in Int /\ e[1] <= s + len
      BY <1>3
    <3> QED
      BY <1>6, <3>2
  <2>6. n[k].started \in Nat /\ n[k].started <= clock /\ clock <= n[k].started + len
    BY <2>2, <2>4
  <2> HIDE DEF IsCounted
  <2> QED
    BY <2>2, <2>3, <2>5, <2>6
<1> QED
  BY <1>1, <1>5, <1>6

-----------------------------------------------------------------------------
(***************************************************************************)
(* The port scan detector.                                                 *)
(***************************************************************************)
LEMMA NewAlertsNow ==
  ASSUME NEW p, NEW a \in NewAlerts(p)
  PROVE  a.at = clock
BY DEF NewAlerts, ScanAlerts, FloodAlerts, DnsAlerts, BeaconAlerts, SignatureAlerts, Alert

LEMMA Analyzed ==
  ASSUME Origin, Clocks, Analyze
  PROVE  \E p :
           /\ Traced(p) /\ p = Head(chan).pkt
           /\ seen' = Append(seen, [pkt |-> p, at |-> clock])
           /\ alerts' = alerts \cup NewAlerts(p)
           /\ scans' = ScanNext(p) /\ floods' = FloodNext(p) /\ dns' = DnsNext(p)
           /\ UNCHANGED <<mode, clock>>
<1>1. Traced(Head(chan).pkt)
  BY Taken DEF Analyze, Origin
<1> QED
  BY <1>1 DEF Analyze

LEMMA TimesGrow ==
  ASSUME Clocks, NEW p, alerts' = alerts \cup NewAlerts(p), NEW s
  PROVE  /\ ScanTimes(s) \subseteq ScanTimes(s)' /\ ScanTimes(s)' \subseteq Int
         /\ FloodTimes(s) \subseteq FloodTimes(s)' /\ FloodTimes(s)' \subseteq Int
         /\ DnsTimes(s) \subseteq DnsTimes(s)' /\ DnsTimes(s)' \subseteq Int
<1>1. \A a \in alerts' : a.at \in Int
  BY NewAlertsNow DEF Clocks
<1>2. ScanTimes(s) \subseteq ScanTimes(s)' /\ ScanTimes(s)' \subseteq Int
  BY <1>1 DEF ScanTimes
<1>3. FloodTimes(s) \subseteq FloodTimes(s)' /\ FloodTimes(s)' \subseteq Int
  BY <1>1 DEF FloodTimes
<1>4. DnsTimes(s) \subseteq DnsTimes(s)' /\ DnsTimes(s)' \subseteq Int
  BY <1>1 DEF DnsTimes
<1> QED
  BY <1>2, <1>3, <1>4

LEMMA ClocksStep ==
  ASSUME Origin, Clocks, Next
  PROVE  Clocks'
<1>1. CASE Analyze
  <2>1. PICK p : /\ seen' = Append(seen, [pkt |-> p, at |-> clock])
                 /\ alerts' = alerts \cup NewAlerts(p) /\ clock' = clock
    BY <1>1, Analyzed
  <2>2. /\ DOMAIN seen' = DOMAIN seen \cup {Len(seen) + 1}
        /\ \A i \in DOMAIN seen : seen'[i] = seen[i]
        /\ seen'[Len(seen) + 1].at = clock
    BY <2>1, Appended DEF Origin
  <2>3. \A i \in DOMAIN seen' : seen'[i].at \in Nat /\ seen'[i].at <= clock
    BY <2>2 DEF Clocks
  <2>4. \A a \in alerts' : a.at \in Nat
    BY <2>1, NewAlertsNow DEF Clocks
  <2> QED
    BY <2>1, <2>3, <2>4 DEF Clocks
<1>2. CASE Pass
  BY <1>2 DEF Pass, Clocks
<1>3. CASE Arrive \/ ReadEvent \/ Send \/ HangUp \/ Finish \/ Reap \/ Lapse
  <2>1. UNCHANGED <<clock, seen, alerts>>
    BY <1>3 DEF Arrive, ReadEvent, Send, HangUp, Finish, Reap, Lapse
  <2> QED
    BY <2>1 DEF Clocks
<1> QED
  BY <1>1, <1>2, <1>3 DEF Next

DPorts(log) == {log[i].dport : i \in DOMAIN log}

LEMMA FieldAppended ==
  ASSUME NEW w, NEW log, NEW p, IsSeq(log), w.log = Append(log, p)
  PROVE  /\ Field(w, "dport") = DPorts(log) \cup {p.dport}
         /\ IsSeq(w.log) /\ Len(w.log) = Len(log) + 1
<1>1. /\ DOMAIN w.log = DOMAIN log \cup {Len(log) + 1}
      /\ \A i \in DOMAIN log : w.log[i] = log[i]
      /\ w.log[Len(log) + 1] = p
  BY Appended
<1>2. Field(w, "dport") = DPorts(log) \cup {p.dport}
  BY <1>1 DEF Field, DPorts
<1> QED
  BY <1>2, SeqGrows

LEMMA ScanRaised ==
  ASSUME NEW p, IsTouch(p), NEW n \in Nat, scans' = ScanNext(p),
         n = Cardinality(Field(scans'[p.src], "dport")),
         n >= IF p.dst \in Local THEN InPorts ELSE OutPorts,
         alerts' = alerts \cup NewAlerts(p)
  PROVE  clock \in ScanTimes(p.src)'
<1>1. PICK a \in ScanAlerts(p, ScanNext(p)) :
         a.det = "portscan" /\ a.src = p.src /\ a.at = clock
  BY DEF ScanAlerts, Alert
<1> QED
  BY <1>1 DEF ScanTimes, NewAlerts

(***************************************************************************)
(* Another key's packet leaves a key's window and hits alone.              *)
(***************************************************************************)
LEMMA WindowKeeps ==
  ASSUME NEW m, NEW n, NEW k, NEW E, NEW A, NEW B, A \subseteq B, NEW T, NEW len,
         k \in DOMAIN m <=> k \in DOMAIN n, k \in DOMAIN m => n[k] = m[k],
         WindowInv(m, k, E, A, T, len)
  PROVE  WindowInv(n, k, E, B, T, len)
BY TumbleMore DEF WindowInv

LEMMA ScanStep ==
  ASSUME Origin, Clocks, ScanInv, Analyze
  PROVE  ScanInv'
<1>1. PICK p :
         /\ Traced(p)
         /\ seen' = Append(seen, [pkt |-> p, at |-> clock])
         /\ alerts' = alerts \cup NewAlerts(p)
         /\ scans' = ScanNext(p) /\ UNCHANGED <<mode, clock>>
  BY Analyzed
<1>2. SUFFICES ASSUME NEW s
      PROVE  /\ WindowInv(scans, s, ScanHits(s), ScanTimes(s), OutPorts, ScanWindow)'
             /\ Inbound(s)' => WindowInv(scans, s, ScanHits(s), ScanTimes(s), InPorts, ScanWindow)'
             /\ s \in DOMAIN scans' =>
                  /\ IsSeq(scans'[s].log)
                  /\ Field(scans'[s], "dport") = InWindow(scans, s, ScanHits(s), ScanWindow)'
  BY DEF ScanInv
<1>3. PICK E, F, A, B : /\ E = ScanHits(s) /\ F = ScanHits(s)'
                        /\ A = ScanTimes(s) /\ B = ScanTimes(s)'
  OBVIOUS
<1>4. /\ IsFiniteSet(E) /\ \A e \in E : e[1] \in Nat /\ e[1] <= clock
      /\ A \subseteq B /\ B \subseteq Int
  BY <1>1, <1>3, ScanHitsFinite, TimesGrow DEF Origin
<1>5. /\ WindowInv(scans, s, E, A, OutPorts, ScanWindow)
      /\ Inbound(s) => WindowInv(scans, s, E, A, InPorts, ScanWindow)
      /\ s \in DOMAIN scans =>
           /\ IsSeq(scans[s].log)
           /\ Field(scans[s], "dport") = InWindow(scans, s, E, ScanWindow)
  BY <1>3 DEF ScanInv
<1>6. SUFFICES /\ WindowInv(scans', s, F, B, OutPorts, ScanWindow)
               /\ Inbound(s) => WindowInv(scans', s, F, B, InPorts, ScanWindow)
               /\ s \in DOMAIN scans' =>
                    /\ IsSeq(scans'[s].log)
                    /\ Field(scans'[s], "dport") = InWindow(scans', s, F, ScanWindow)
  BY <1>1, <1>3 DEF WindowInv, InWindow, Inbound
<1>7. CASE ~(IsTouch(p) /\ p.src = s)
  <2>1. F = E
    BY <1>1, <1>3, <1>7, ScanHitsGrow DEF Origin
  <2>2. /\ s \in DOMAIN scans <=> s \in DOMAIN scans'
        /\ s \in DOMAIN scans => scans'[s] = scans[s]
    BY <1>1, <1>7 DEF ScanNext, Counted, Put
  <2>3. /\ WindowInv(scans', s, E, B, OutPorts, ScanWindow)
        /\ Inbound(s) => WindowInv(scans', s, E, B, InPorts, ScanWindow)
    BY <1>4, <1>5, <2>2, WindowKeeps
  <2> QED
    BY <1>5, <2>1, <2>2, <2>3 DEF InWindow
<1>8. CASE IsTouch(p) /\ p.src = s
  <2>1. F = E \cup {<<clock, p.dport>>}
    BY <1>1, <1>3, <1>8, ScanHitsGrow DEF Origin
  <2>2. PICK n : n = scans' /\ n = Counted(scans, s, ScanWindow, p)
    BY <1>1, <1>8 DEF ScanNext
  <2>3. /\ OutPorts \in Nat \ {0} /\ InPorts \in Nat \ {0} /\ ScanWindow \in Nat
        /\ InPorts <= OutPorts /\ clock \in Nat
    BY SensorAssumption DEF Clocks
  <2>4. /\ IsCounted(scans, n, s, E, F, A, OutPorts, ScanWindow, p, p.dport)
        /\ Inbound(s) => IsCounted(scans, n, s, E, F, A, InPorts, ScanWindow, p, p.dport)
    BY <1>4, <1>5, <2>1, <2>2, <2>3 DEF IsCounted
  <2>5. IsSeq(n[s].log) /\ Field(n[s], "dport") = InWindow(n, s, F, ScanWindow)
    <3>1. \/ /\ s \in DOMAIN scans /\ n[s].log = Append(scans[s].log, p)
             /\ InWindow(n, s, F, ScanWindow) = InWindow(scans, s, E, ScanWindow) \cup {p.dport}
          \/ /\ n[s].log = Append(<<>>, p)
             /\ InWindow(n, s, F, ScanWindow) = {p.dport}
      BY <2>4, CountedLog
    <3>2. CASE /\ s \in DOMAIN scans /\ n[s].log = Append(scans[s].log, p)
               /\ InWindow(n, s, F, ScanWindow) = InWindow(scans, s, E, ScanWindow) \cup {p.dport}
      <4>1. /\ Field(n[s], "dport") = Field(scans[s], "dport") \cup {p.dport}
            /\ IsSeq(n[s].log)
        <5>1. PICK w, log : w = n[s] /\ log = scans[s].log
          OBVIOUS
        <5>2. IsSeq(log) /\ w.log = Append(log, p)
          BY <1>5, <3>2, <5>1
        <5>3. /\ Field(w, "dport") = DPorts(log) \cup {p.dport}
              /\ IsSeq(w.log)
          BY <5>2, FieldAppended
        <5>4. Field(scans[s], "dport") = DPorts(log)
          BY <5>1 DEF Field, DPorts
        <5> QED
          BY <5>1, <5>3, <5>4
      <4> QED
        BY <1>5, <3>2, <4>1
    <3>3. CASE /\ n[s].log = Append(<<>>, p)
               /\ InWindow(n, s, F, ScanWindow) = {p.dport}
      <4>1. IsSeq(<<>>) /\ DOMAIN <<>> = {}
        BY DEF IsSeq
      <4>2. Field(n[s], "dport") = {p.dport} /\ IsSeq(n[s].log)
        <5>1. PICK w, log : w = n[s] /\ log = <<>>
          OBVIOUS
        <5>2. IsSeq(log) /\ w.log = Append(log, p)
          BY <3>3, <4>1, <5>1
        <5>3. /\ Field(w, "dport") = DPorts(log) \cup {p.dport}
              /\ IsSeq(w.log)
          BY <5>2, FieldAppended
        <5>4. DPorts(log) = {}
          BY <4>1, <5>1 DEF DPorts
        <5> QED
          BY <5>1, <5>3, <5>4
      <4> QED
        BY <3>3, <4>2
    <3> QED
      BY <3>1, <3>2, <3>3
  <2>6. PICK c \in Nat : c = Cardinality(Field(n[s], "dport"))
    <3>1. IsFiniteSet(F)
      BY <1>4, <2>1, FS_AddElement
    <3> QED
      BY <2>5, <3>1, ItemsFinite DEF InWindow
  <2>7. /\ c >= OutPorts => clock \in B
        /\ Inbound(s) /\ c >= InPorts => clock \in B
    <3>1. Inbound(s) => p.dst \in Local
      BY <1>1, <1>8 DEF Inbound, Traced
    <3>2. /\ c >= OutPorts => c >= IF p.dst \in Local THEN InPorts ELSE OutPorts
          /\ Inbound(s) /\ c >= InPorts => c >= IF p.dst \in Local THEN InPorts ELSE OutPorts
      BY <2>3, <3>1
    <3> QED
      BY <1>1, <1>3, <1>8, <2>2, <2>6, <3>2, ScanRaised
  <2>8. WindowInv(n, s, F, B, OutPorts, ScanWindow)
    BY <1>4, <2>4, <2>5, <2>6, <2>7, CountedOn
  <2>9. Inbound(s) => WindowInv(n, s, F, B, InPorts, ScanWindow)
    BY <1>4, <2>4, <2>5, <2>6, <2>7, CountedOn
  <2> QED
    BY <2>2, <2>5, <2>8, <2>9
<1> QED
  BY <1>7, <1>8

-----------------------------------------------------------------------------
(***************************************************************************)
(* The SYN flood detector.  Its hits are numbered, so that a window counts *)
(* as many as it has.                                                      *)
(***************************************************************************)
LEMMA CountExact ==
  ASSUME NEW m, NEW n, NEW k, NEW E, NEW F, NEW A, NEW T, NEW len, NEW p, NEW v,
         IsCounted(m, n, k, E, F, A, T, len, p, v),
         \A e \in E : e[2] # v,
         k \in DOMAIN m => /\ IsSeq(m[k].log)
                          /\ Len(m[k].log) = Cardinality(InWindow(m, k, E, len))
  PROVE  /\ IsSeq(n[k].log) /\ Len(n[k].log) \in Nat
         /\ Len(n[k].log) = Cardinality(InWindow(n, k, F, len))
<1>1. \/ /\ k \in DOMAIN m /\ n[k].log = Append(m[k].log, p)
         /\ InWindow(n, k, F, len) = InWindow(m, k, E, len) \cup {v}
      \/ /\ n[k].log = Append(<<>>, p)
         /\ InWindow(n, k, F, len) = {v}
  BY CountedLog
<1>2. CASE /\ k \in DOMAIN m /\ n[k].log = Append(m[k].log, p)
           /\ InWindow(n, k, F, len) = InWindow(m, k, E, len) \cup {v}
  <2>1. PICK S, log : S = InWindow(m, k, E, len) /\ log = m[k].log
    OBVIOUS
  <2>2. v \notin S
    <3>1. \A x \in S : \E e \in E : x = e[2]
      BY <2>1 DEF InWindow, Items
    <3> QED
      BY <3>1
  <2>3. IsFiniteSet(S)
    BY <2>1, ItemsFinite DEF InWindow, IsCounted
  <2>4. Cardinality(S \cup {v}) = Cardinality(S) + 1
    BY <2>2, <2>3, FS_AddElement
  <2>5. IsSeq(Append(log, p)) /\ Len(Append(log, p)) = Len(log) + 1 /\ Len(log) \in Nat
    BY <1>2, <2>1, SeqGrows
  <2>6. Len(log) = Cardinality(S)
    BY <1>2, <2>1
  <2> QED
    BY <1>2, <2>1, <2>4, <2>5, <2>6
<1>3. CASE /\ n[k].log = Append(<<>>, p)
           /\ InWindow(n, k, F, len) = {v}
  <2>1. IsSeq(<<>>) /\ Len(<<>>) = 0
    BY DEF IsSeq
  <2>2. PICK log : log = Append(<<>>, p) /\ IsSeq(log) /\ Len(log) = 1
    <3>1. PICK empty : empty = <<>>
      OBVIOUS
    <3>2. IsSeq(Append(empty, p)) /\ Len(Append(empty, p)) = Len(empty) + 1
      BY <2>1, <3>1, SeqGrows
    <3> QED
      BY <2>1, <3>1, <3>2
  <2>3. Cardinality({v}) = 1
    BY FS_Singleton
  <2> QED
    BY <1>3, <2>2, <2>3
<1> QED
  BY <1>1, <1>2, <1>3

LEMMA FloodRaised ==
  ASSUME NEW p, SynOnly(p), NEW n \in Nat, floods' = FloodNext(p),
         n = Len(floods'[FloodKey(p)].log), n >= FloodSyns,
         alerts' = alerts \cup NewAlerts(p)
  PROVE  clock \in FloodTimes(FloodKey(p))'
<1>1. PICK a \in FloodAlerts(p, FloodNext(p)) :
         a.det = "synflood" /\ a.dst = p.dst /\ a.at = clock
  BY DEF FloodAlerts, Alert
<1> QED
  BY <1>1 DEF FloodTimes, NewAlerts, FloodKey

LEMMA FloodStep ==
  ASSUME Origin, Clocks, FloodInv, Analyze
  PROVE  FloodInv'
<1>1. PICK p :
         /\ seen' = Append(seen, [pkt |-> p, at |-> clock])
         /\ alerts' = alerts \cup NewAlerts(p)
         /\ floods' = FloodNext(p) /\ UNCHANGED clock
  BY Analyzed
<1>2. SUFFICES ASSUME NEW k
      PROVE  /\ WindowInv(floods, k, FloodHits(k), FloodTimes(k), FloodSyns, FloodWindow)'
             /\ k \in DOMAIN floods' =>
                  /\ IsSeq(floods'[k].log)
                  /\ Len(floods'[k].log)
                       = Cardinality(InWindow(floods, k, FloodHits(k), FloodWindow)')
  BY DEF FloodInv
<1>3. PICK E, F, A, B : /\ E = FloodHits(k) /\ F = FloodHits(k)'
                        /\ A = FloodTimes(k) /\ B = FloodTimes(k)'
  OBVIOUS
<1>4. /\ IsFiniteSet(E)
      /\ \A e \in E : e[1] \in Nat /\ e[1] <= clock /\ e[2] \in 1..Len(seen)
      /\ A \subseteq B /\ B \subseteq Int
  BY <1>1, <1>3, FloodHitsFinite, TimesGrow DEF Origin
<1>5. /\ WindowInv(floods, k, E, A, FloodSyns, FloodWindow)
      /\ k \in DOMAIN floods =>
           /\ IsSeq(floods[k].log)
           /\ Len(floods[k].log) = Cardinality(InWindow(floods, k, E, FloodWindow))
  BY <1>3 DEF FloodInv
<1>6. SUFFICES /\ WindowInv(floods', k, F, B, FloodSyns, FloodWindow)
               /\ k \in DOMAIN floods' =>
                    /\ IsSeq(floods'[k].log)
                    /\ Len(floods'[k].log) = Cardinality(InWindow(floods', k, F, FloodWindow))
  BY <1>1, <1>3 DEF WindowInv, InWindow
<1>7. CASE ~(SynOnly(p) /\ FloodKey(p) = k)
  <2>1. F = E
    BY <1>1, <1>3, <1>7, FloodHitsGrow DEF Origin
  <2>2. /\ k \in DOMAIN floods <=> k \in DOMAIN floods'
        /\ k \in DOMAIN floods => floods'[k] = floods[k]
    BY <1>1, <1>7 DEF FloodNext, Counted, Put
  <2>3. WindowInv(floods', k, E, B, FloodSyns, FloodWindow)
    BY <1>4, <1>5, <2>2, WindowKeeps
  <2> QED
    BY <1>5, <2>1, <2>2, <2>3 DEF InWindow
<1>8. CASE SynOnly(p) /\ FloodKey(p) = k
  <2>1. PICK v : v = Len(seen) + 1
    OBVIOUS
  <2>2. F = E \cup {<<clock, v>>}
    BY <1>1, <1>3, <1>8, <2>1, FloodHitsGrow DEF Origin
  <2>3. PICK n : n = floods' /\ n = Counted(floods, k, FloodWindow, p)
    BY <1>1, <1>8 DEF FloodNext
  <2>4. FloodSyns \in Nat \ {0} /\ FloodWindow \in Nat /\ clock \in Nat
    BY SensorAssumption DEF Clocks
  <2>5. IsCounted(floods, n, k, E, F, A, FloodSyns, FloodWindow, p, v)
    BY <1>4, <1>5, <2>2, <2>3, <2>4 DEF IsCounted
  <2>6. \A e \in E : e[2] # v
    <3>1. Len(seen) \in Nat
      BY Appended DEF Origin
    <3> QED
      BY <1>4, <2>1, <3>1
  <2>7. /\ IsSeq(n[k].log) /\ Len(n[k].log) \in Nat
        /\ Len(n[k].log) = Cardinality(InWindow(n, k, F, FloodWindow))
    BY <1>5, <2>5, <2>6, CountExact
  <2>8. Cardinality(InWindow(n, k, F, FloodWindow)) >= FloodSyns => clock \in B
    BY <1>1, <1>3, <1>8, <2>3, <2>7, FloodRaised
  <2>9. WindowInv(n, k, F, B, FloodSyns, FloodWindow)
    BY <1>4, <2>5, <2>8, CountedOn
  <2> QED
    BY <2>3, <2>7, <2>9
<1> QED
  BY <1>7, <1>8

-----------------------------------------------------------------------------
(***************************************************************************)
(* The DNS detector, which also counts the long labels among its hits.     *)
(***************************************************************************)
LEMMA LabelsAppended ==
  ASSUME NEW log, IsSeq(log), NEW p
  PROVE  /\ IsFiniteSet(Labels(log)) /\ Cardinality(Labels(log)) \in Nat
         /\ p.body # "label" => Cardinality(Labels(Append(log, p))) = Cardinality(Labels(log))
         /\ p.body = "label" => Cardinality(Labels(Append(log, p))) = Cardinality(Labels(log)) + 1
<1>1. /\ DOMAIN log = 1..Len(log) /\ Len(log) \in Nat
      /\ DOMAIN Append(log, p) = DOMAIN log \cup {Len(log) + 1}
      /\ Len(log) + 1 \notin DOMAIN log
      /\ \A i \in DOMAIN log : Append(log, p)[i] = log[i]
      /\ Append(log, p)[Len(log) + 1] = p
  BY Appended
<1>2. IsFiniteSet(DOMAIN log)
  BY <1>1, FS_Interval
<1>3. IsFiniteSet(Labels(log))
  BY <1>2, FS_Subset DEF Labels
<1>4. Labels(Append(log, p)) = IF p.body = "label" THEN Labels(log) \cup {Len(log) + 1}
                                                   ELSE Labels(log)
  BY <1>1 DEF Labels
<1>5. Len(log) + 1 \notin Labels(log)
  BY <1>1 DEF Labels
<1>6. PICK n, S : n = Len(log) + 1 /\ S = Labels(log)
  OBVIOUS
<1>7. Cardinality(S \cup {n}) = Cardinality(S) + 1
  BY <1>3, <1>5, <1>6, FS_AddElement
<1> QED
  BY <1>3, <1>4, <1>6, <1>7, FS_CardinalityType

AreLabels(m, k, E, L, M, len, p, v) ==
  /\ L \subseteq E /\ \A e \in E : e[2] # v
  /\ M = IF p.body = "label" THEN L \cup {<<clock, v>>} ELSE L
  /\ k \in DOMAIN m =>
       /\ IsSeq(m[k].log)
       /\ Cardinality(Labels(m[k].log)) = Cardinality(InWindow(m, k, L, len))

LEMMA LabelExact ==
  ASSUME NEW m, NEW n, NEW k, NEW E, NEW F, NEW A, NEW T, NEW len, NEW p, NEW v,
         IsCounted(m, n, k, E, F, A, T, len, p, v),
         NEW L, NEW M, AreLabels(m, k, E, L, M, len, p, v)
  PROVE  Cardinality(Labels(n[k].log)) = Cardinality(InWindow(n, k, M, len))
<1> USE DEF AreLabels
<1>1. /\ len \in Nat /\ clock \in Nat /\ IsFiniteSet(L)
      /\ \A e \in L : e[1] \in Nat /\ e[1] <= clock /\ e[2] # v
  BY FS_Subset DEF IsCounted
<1>2. /\ n[k].started \in Nat /\ n[k].started <= clock /\ clock <= n[k].started + len
      /\ \/ /\ k \in DOMAIN m /\ n[k].log = Append(m[k].log, p)
            /\ n[k].started = m[k].started
         \/ /\ n[k].log = Append(<<>>, p)
            /\ n[k].started = clock
            /\ \A e \in E : e[1] < clock
  BY CountedLog
<1>3. PICK c \in Nat, s \in Nat : c = clock /\ s = n[k].started
  BY <1>1, <1>2
<1>4. CASE /\ k \in DOMAIN m /\ n[k].log = Append(m[k].log, p)
           /\ n[k].started = m[k].started
  <2>1. \A e \in L : e[1] <= s + len
    BY <1>3, <1>4 DEF IsCounted, WindowInv, Tumbling
  <2>2. PICK log, I : log = m[k].log /\ I = InWindow(m, k, L, len)
    OBVIOUS
  <2>3. IsSeq(log) /\ Cardinality(Labels(log)) = Cardinality(I) /\ I = Items(L, s, s + len)
    BY <1>3, <1>4, <2>2 DEF InWindow
  <2>4. CASE p.body = "label"
    <3>1. Grown(L, M, s, c, v, len)
      BY <1>1, <1>3, <2>1, <2>4 DEF Grown
    <3>2. s <= c /\ c - s <= len
      BY <1>1, <1>2, <1>3
    <3>3. Items(M, s, s + len) = Items(L, s, s + len) \cup {v}
      BY <3>1, <3>2, WindowOn
    <3>4. v \notin I /\ IsFiniteSet(I)
      <4>1. \A x \in I : \E e \in L : x = e[2]
        BY <2>3 DEF Items
      <4> QED
        BY <1>1, <2>3, <4>1, ItemsFinite
    <3>5. Cardinality(I \cup {v}) = Cardinality(I) + 1
      BY <3>4, FS_AddElement
    <3>6. Cardinality(Labels(Append(log, p))) = Cardinality(Labels(log)) + 1
      BY <2>3, <2>4, LabelsAppended
    <3>7. InWindow(n, k, M, len) = I \cup {v}
      BY <1>3, <2>3, <3>3 DEF InWindow
    <3> QED
      BY <1>4, <2>2, <2>3, <3>5, <3>6, <3>7
  <2>5. CASE p.body # "label"
    <3>1. Cardinality(Labels(Append(log, p))) = Cardinality(Labels(log))
      BY <2>3, <2>5, LabelsAppended
    <3>2. InWindow(n, k, M, len) = I
      BY <1>3, <2>3, <2>5 DEF InWindow
    <3> QED
      BY <1>4, <2>2, <2>3, <3>1, <3>2
  <2> QED
    BY <2>4, <2>5
<1>5. CASE /\ n[k].log = Append(<<>>, p) /\ n[k].started = clock
           /\ \A e \in E : e[1] < clock
  <2>1. PICK log : log = <<>> /\ IsSeq(log) /\ DOMAIN log = {}
    <3>1. IsSeq(<<>>) /\ DOMAIN <<>> = {}
      BY DEF IsSeq
    <3> QED
      BY <3>1
  <2>2. Labels(log) = {} /\ Cardinality(Labels(log)) = 0
    BY <2>1, FS_EmptySet DEF Labels
  <2>3. \A e \in L : e[1] < c
    <3>1. TAKE e \in L
    <3>2. e \in E
      OBVIOUS
    <3> QED
      BY <1>3, <1>5, <3>2
  <2>4. CASE p.body = "label"
    <3>1. PICK r \in Int : r = c - len - 1
      BY <1>1
    <3>2. \A e \in L : e[1] \in Int /\ e[1] <= c /\ e[1] <= r + len
      <4>1. TAKE e \in L
      <4>2. PICK z \in Nat : z = e[1]
        BY <1>1
      <4>3. z < c
        BY <2>3, <4>2
      <4> QED
        BY <1>1, <3>1, <4>2, <4>3
    <3>3. Grown(L, M, r, c, v, len)
      <4>1. M = L \cup {<<c, v>>}
        BY <1>3, <2>4
      <4> QED
        BY <1>1, <3>2, <4>1 DEF Grown
    <3>4. c - r > len
      BY <1>1, <3>1
    <3>5. Items(M, c, c + len) = {v}
      BY <3>3, <3>4, WindowOn
    <3>6. InWindow(n, k, M, len) = {v} /\ Cardinality({v}) = 1
      BY <1>3, <1>5, <3>5, FS_Singleton DEF InWindow
    <3>7. Cardinality(Labels(Append(log, p))) = Cardinality(Labels(log)) + 1
      BY <2>1, <2>4, LabelsAppended
    <3>8. Cardinality(Labels(Append(log, p))) = 1
      BY <2>2, <3>7
    <3> QED
      BY <1>5, <2>1, <3>6, <3>8
  <2>5. CASE p.body # "label"
    <3>1. Cardinality(Labels(Append(log, p))) = Cardinality(Labels(log))
      BY <2>1, <2>5, LabelsAppended
    <3>2. \A e \in L : ~(c <= e[1])
      BY <1>1, <2>3
    <3>3. InWindow(n, k, M, len) = {}
      BY <1>3, <1>5, <2>5, <3>2 DEF InWindow, Items
    <3> QED
      BY <1>5, <2>1, <2>2, <3>1, <3>3, FS_EmptySet
  <2> QED
    BY <2>4, <2>5
<1> QED
  BY <1>2, <1>4, <1>5

LEMMA DnsRaised ==
  ASSUME NEW p, IsDns(p), NEW n \in Nat, dns' = DnsNext(p),
         n = Len(dns'[p.src].log), n >= DnsQueries,
         alerts' = alerts \cup NewAlerts(p)
  PROVE  clock \in DnsTimes(p.src)'
<1>1. PICK a \in DnsAlerts(p, DnsNext(p)) :
         a.det \in {"dns_rate", "dns_tunnel"} /\ a.src = p.src /\ a.at = clock
  BY DEF DnsAlerts, Alert
<1> QED
  BY <1>1 DEF DnsTimes, NewAlerts

LEMMA DnsStep ==
  ASSUME Origin, Clocks, DnsInv, Analyze
  PROVE  DnsInv'
<1>1. PICK p :
         /\ seen' = Append(seen, [pkt |-> p, at |-> clock])
         /\ alerts' = alerts \cup NewAlerts(p)
         /\ dns' = DnsNext(p) /\ UNCHANGED clock
  BY Analyzed
<1>2. SUFFICES ASSUME NEW s
      PROVE  /\ WindowInv(dns, s, DnsHits(s), DnsTimes(s), DnsQueries, DnsWindow)'
             /\ s \in DOMAIN dns' =>
                  /\ IsSeq(dns'[s].log)
                  /\ Len(dns'[s].log) = Cardinality(InWindow(dns, s, DnsHits(s), DnsWindow)')
                  /\ Cardinality(Labels(dns'[s].log))
                       = Cardinality(InWindow(dns, s, LabelHits(s), DnsWindow)')
  BY DEF DnsInv
<1>3. PICK E, F, A, B : /\ E = DnsHits(s) /\ F = DnsHits(s)'
                        /\ A = DnsTimes(s) /\ B = DnsTimes(s)'
  OBVIOUS
<1>4. PICK L, M : L = LabelHits(s) /\ M = LabelHits(s)'
  OBVIOUS
<1>5. /\ IsFiniteSet(E)
      /\ \A e \in E : e[1] \in Nat /\ e[1] <= clock /\ e[2] \in 1..Len(seen)
      /\ A \subseteq B /\ B \subseteq Int
  BY <1>1, <1>3, DnsHitsFinite, TimesGrow DEF Origin
<1>6. /\ WindowInv(dns, s, E, A, DnsQueries, DnsWindow)
      /\ s \in DOMAIN dns =>
           /\ IsSeq(dns[s].log)
           /\ Len(dns[s].log) = Cardinality(InWindow(dns, s, E, DnsWindow))
           /\ Cardinality(Labels(dns[s].log)) = Cardinality(InWindow(dns, s, L, DnsWindow))
  BY <1>3, <1>4 DEF DnsInv
<1>7. SUFFICES /\ WindowInv(dns', s, F, B, DnsQueries, DnsWindow)
               /\ s \in DOMAIN dns' =>
                    /\ IsSeq(dns'[s].log)
                    /\ Len(dns'[s].log) = Cardinality(InWindow(dns', s, F, DnsWindow))
                    /\ Cardinality(Labels(dns'[s].log))
                         = Cardinality(InWindow(dns', s, M, DnsWindow))
  BY <1>1, <1>3, <1>4 DEF WindowInv, InWindow
<1>8. CASE ~(IsDns(p) /\ p.src = s)
  <2>1. F = E /\ M = L
    BY <1>1, <1>3, <1>4, <1>8, DnsHitsGrow, LabelHitsGrow DEF Origin
  <2>2. /\ s \in DOMAIN dns <=> s \in DOMAIN dns'
        /\ s \in DOMAIN dns => dns'[s] = dns[s]
    BY <1>1, <1>8 DEF DnsNext, Counted, Put
  <2>3. WindowInv(dns', s, E, B, DnsQueries, DnsWindow)
    BY <1>5, <1>6, <2>2, WindowKeeps
  <2> QED
    BY <1>6, <2>1, <2>2, <2>3 DEF InWindow
<1>9. CASE IsDns(p) /\ p.src = s
  <2>1. PICK v : v = Len(seen) + 1
    OBVIOUS
  <2>2. /\ F = E \cup {<<clock, v>>}
        /\ M = IF p.body = "label" THEN L \cup {<<clock, v>>} ELSE L
    BY <1>1, <1>3, <1>4, <1>9, <2>1, DnsHitsGrow, LabelHitsGrow DEF Origin
  <2>3. PICK n : n = dns' /\ n = Counted(dns, s, DnsWindow, p)
    BY <1>1, <1>9 DEF DnsNext
  <2>4. DnsQueries \in Nat \ {0} /\ DnsWindow \in Nat /\ clock \in Nat
    BY SensorAssumption DEF Clocks
  <2>5. IsCounted(dns, n, s, E, F, A, DnsQueries, DnsWindow, p, v)
    BY <1>5, <1>6, <2>2, <2>3, <2>4 DEF IsCounted
  <2>6. \A e \in E : e[2] # v
    <3>1. Len(seen) \in Nat
      BY Appended DEF Origin
    <3> QED
      BY <1>5, <2>1, <3>1
  <2>7. /\ IsSeq(n[s].log) /\ Len(n[s].log) \in Nat
        /\ Len(n[s].log) = Cardinality(InWindow(n, s, F, DnsWindow))
    BY <1>6, <2>5, <2>6, CountExact
  <2>8. L \subseteq E
    BY <1>3, <1>4 DEF DnsHits, LabelHits
  <2>9. Cardinality(Labels(n[s].log)) = Cardinality(InWindow(n, s, M, DnsWindow))
    <3>1. AreLabels(dns, s, E, L, M, DnsWindow, p, v)
      BY <1>6, <2>2, <2>6, <2>8 DEF AreLabels
    <3> QED
      BY <2>5, <3>1, LabelExact
  <2>10. Cardinality(InWindow(n, s, F, DnsWindow)) >= DnsQueries => clock \in B
    BY <1>1, <1>3, <1>9, <2>3, <2>7, DnsRaised
  <2>11. WindowInv(n, s, F, B, DnsQueries, DnsWindow)
    BY <1>5, <2>5, <2>10, CountedOn
  <2> QED
    BY <2>3, <2>7, <2>9, <2>11
<1> QED
  BY <1>8, <1>9

-----------------------------------------------------------------------------
(***************************************************************************)
(* What the properties count, in terms of hits.                            *)
(***************************************************************************)
FloodCount(k, t) == Matching(t, FloodWindow, LAMBDA p : SynOnly(p) /\ FloodKey(p) = k)

DnsCount(s, t) == Matching(t, DnsWindow, LAMBDA p : IsDns(p) /\ p.src = s)

LabelCount(s, t) ==
  Matching(t, DnsWindow, LAMBDA p : IsDns(p) /\ p.src = s /\ p.body = "label")

LEMMA HitIsItem ==
  ASSUME NEW E, NEW y, NEW x, <<y, x>> \in E, NEW t, NEW u, t <= y, y <= u
  PROVE  x \in Items(E, t, u)
<1>1. PICK e \in E : e = <<y, x>>
  OBVIOUS
<1>2. e[1] = y /\ e[2] = x
  BY <1>1
<1> QED
  BY <1>2 DEF Items

LEMMA PortsAreItems ==
  ASSUME Clocks, NEW s, NEW t \in Int, ScanWindow \in Nat
  PROVE  PortsTouched(s, t) = Items(ScanHits(s), t, t + ScanWindow)
<1>1. ASSUME NEW x \in PortsTouched(s, t)
      PROVE  x \in Items(ScanHits(s), t, t + ScanWindow)
  <2>1. PICK i \in DOMAIN seen : /\ x = seen[i].pkt.dport
                                 /\ seen[i].at >= t /\ seen[i].at <= t + ScanWindow
                                 /\ IsTouch(seen[i].pkt) /\ seen[i].pkt.src = s
    BY DEF PortsTouched, Within
  <2>2. <<seen[i].at, seen[i].pkt.dport>> \in ScanHits(s)
    BY <2>1 DEF ScanHits
  <2>3. t <= seen[i].at /\ seen[i].at <= t + ScanWindow
    BY <2>1 DEF Clocks
  <2>4. PICK y : y = seen[i].at
    OBVIOUS
  <2>5. <<y, x>> \in ScanHits(s) /\ t <= y /\ y <= t + ScanWindow
    BY <2>1, <2>2, <2>3, <2>4
  <2> HIDE DEF ScanHits
  <2> QED
    BY <2>5, HitIsItem
<1>2. ASSUME NEW x \in Items(ScanHits(s), t, t + ScanWindow)
      PROVE  x \in PortsTouched(s, t)
  <2>1. PICK e \in ScanHits(s) : x = e[2] /\ t <= e[1] /\ e[1] <= t + ScanWindow
    BY DEF Items
  <2>2. PICK i \in DOMAIN seen : /\ IsTouch(seen[i].pkt) /\ seen[i].pkt.src = s
                                 /\ e = <<seen[i].at, seen[i].pkt.dport>>
    BY <2>1 DEF ScanHits
  <2>3. seen[i].at = e[1] /\ seen[i].pkt.dport = x
    BY <2>1, <2>2
  <2>4. i \in Within(t, ScanWindow)
    BY <2>1, <2>3 DEF Within, Clocks
  <2> QED
    BY <2>2, <2>3, <2>4 DEF PortsTouched
<1> QED
  BY <1>1, <1>2

LEMMA NumberedItems ==
  ASSUME Clocks, NEW D \in SUBSET DOMAIN seen, NEW t \in Int, NEW len \in Nat,
         NEW H, H = {<<seen[i].at, i>> : i \in D}
  PROVE  Items(H, t, t + len) = {i \in Within(t, len) : i \in D}
<1>1. ASSUME NEW x \in Items(H, t, t + len)
      PROVE  x \in {i \in Within(t, len) : i \in D}
  <2>1. PICK e \in H : x = e[2] /\ t <= e[1] /\ e[1] <= t + len
    BY DEF Items
  <2>2. PICK i \in D : e = <<seen[i].at, i>>
    BY <2>1
  <2>3. seen[i].at = e[1] /\ i = x
    BY <2>1, <2>2
  <2> QED
    BY <2>1, <2>3 DEF Within, Clocks
<1>2. ASSUME NEW x \in Within(t, len), x \in D
      PROVE  x \in Items(H, t, t + len)
  <2>1. PICK y : y = seen[x].at
    OBVIOUS
  <2>2. <<y, x>> \in H
    BY <1>2, <2>1
  <2>3. t <= y /\ y <= t + len
    BY <1>2, <2>1 DEF Within, Clocks
  <2> QED
    BY <2>2, <2>3, HitIsItem
<1> QED
  BY <1>1, <1>2

LEMMA CountsAreItems ==
  ASSUME Clocks, NEW s, NEW t \in Int, FloodWindow \in Nat, DnsWindow \in Nat
  PROVE  /\ FloodCount(s, t) = Cardinality(Items(FloodHits(s), t, t + FloodWindow))
         /\ DnsCount(s, t) = Cardinality(Items(DnsHits(s), t, t + DnsWindow))
         /\ LabelCount(s, t) = Cardinality(Items(LabelHits(s), t, t + DnsWindow))
<1>1. FloodCount(s, t) = Cardinality(Items(FloodHits(s), t, t + FloodWindow))
  <2> DEFINE D == {j \in DOMAIN seen : SynOnly(seen[j].pkt) /\ FloodKey(seen[j].pkt) = s}
  <2>1. {i \in Within(t, FloodWindow) : SynOnly(seen[i].pkt) /\ FloodKey(seen[i].pkt) = s}
          = {i \in Within(t, FloodWindow) : i \in D}
    BY DEF Within
  <2>2. FloodHits(s) = {<<seen[i].at, i>> : i \in D} /\ D \in SUBSET DOMAIN seen
    BY DEF FloodHits
  <2> HIDE DEF D
  <2>3. Items(FloodHits(s), t, t + FloodWindow) = {i \in Within(t, FloodWindow) : i \in D}
    BY <2>2, NumberedItems
  <2> QED
    BY <2>1, <2>3 DEF FloodCount, Matching
<1>2. DnsCount(s, t) = Cardinality(Items(DnsHits(s), t, t + DnsWindow))
  <2> DEFINE D == {j \in DOMAIN seen : IsDns(seen[j].pkt) /\ seen[j].pkt.src = s}
  <2>1. {i \in Within(t, DnsWindow) : IsDns(seen[i].pkt) /\ seen[i].pkt.src = s}
          = {i \in Within(t, DnsWindow) : i \in D}
    BY DEF Within
  <2>2. DnsHits(s) = {<<seen[i].at, i>> : i \in D} /\ D \in SUBSET DOMAIN seen
    BY DEF DnsHits
  <2> HIDE DEF D
  <2>3. Items(DnsHits(s), t, t + DnsWindow) = {i \in Within(t, DnsWindow) : i \in D}
    BY <2>2, NumberedItems
  <2> QED
    BY <2>1, <2>3 DEF DnsCount, Matching
<1>3. LabelCount(s, t) = Cardinality(Items(LabelHits(s), t, t + DnsWindow))
  <2> DEFINE D == {j \in DOMAIN seen : /\ IsDns(seen[j].pkt) /\ seen[j].pkt.src = s
                                       /\ seen[j].pkt.body = "label"}
  <2>1. {i \in Within(t, DnsWindow) : IsDns(seen[i].pkt) /\ seen[i].pkt.src = s
                                      /\ seen[i].pkt.body = "label"}
          = {i \in Within(t, DnsWindow) : i \in D}
    BY DEF Within
  <2>2. LabelHits(s) = {<<seen[i].at, i>> : i \in D} /\ D \in SUBSET DOMAIN seen
    BY DEF LabelHits
  <2> HIDE DEF D
  <2>3. Items(LabelHits(s), t, t + DnsWindow) = {i \in Within(t, DnsWindow) : i \in D}
    BY <2>2, NumberedItems
  <2> QED
    BY <2>1, <2>3 DEF LabelCount, Matching
<1> QED
  BY <1>1, <1>2, <1>3

-----------------------------------------------------------------------------
(***************************************************************************)
(* An alert is raised when its window is full, and the window is recent:   *)
(* it backs the alert.  What backs it stays, for hits only grow.           *)
(***************************************************************************)
LEMMA EnoughGrows ==
  ASSUME NEW E, NEW F, E \subseteq F, IsFiniteSet(F), NEW t, NEW u, NEW n \in Nat,
         Enough(E, t, u, n)
  PROVE  Enough(F, t, u, n)
<1>1. Items(E, t, u) \subseteq Items(F, t, u)
  BY DEF Items
<1>2. Cardinality(Items(E, t, u)) <= Cardinality(Items(F, t, u))
  BY <1>1, ItemsMono
<1>3. IsFiniteSet(E)
  BY FS_Subset
<1>4. PICK x \in Nat, y \in Nat : /\ x = Cardinality(Items(E, t, u))
                                  /\ y = Cardinality(Items(F, t, u))
  BY <1>3, ItemsFinite
<1>5. x <= y /\ x >= n
  BY <1>2, <1>4 DEF Enough
<1>6. y >= n
  BY <1>5
<1> QED
  BY <1>4, <1>6 DEF Enough

LEMMA Recent ==
  ASSUME NEW m, NEW k, NEW F, IsFiniteSet(F), NEW len \in Nat, NEW n \in Nat, clock \in Nat,
         \A e \in F : e[1] \in Nat /\ e[1] <= clock,
         m[k].started \in Nat, clock <= m[k].started + len,
         Cardinality(InWindow(m, k, F, len)) >= n
  PROVE  Enough(F, clock - len, clock, n)
<1>1. PICK r \in Nat : r = m[k].started
  OBVIOUS
<1>2. Items(F, r, r + len) \subseteq Items(F, clock - len, clock)
  <2>1. clock - len <= r
    BY <1>1
  <2>2. \A e \in F : r <= e[1] /\ e[1] <= r + len => clock - len <= e[1] /\ e[1] <= clock
    <3>1. TAKE e \in F
    <3>2. e[1] \in Nat /\ e[1] <= clock
      OBVIOUS
    <3> QED
      BY <2>1, <3>2
  <2> QED
    BY <2>2 DEF Items
<1>3. PICK x \in Nat, y \in Nat : /\ x = Cardinality(Items(F, r, r + len))
                                  /\ y = Cardinality(Items(F, clock - len, clock))
  BY ItemsFinite
<1>4. x <= y
  BY <1>2, <1>3, ItemsMono
<1>5. x >= n
  BY <1>1, <1>3 DEF InWindow
<1>6. y >= n
  BY <1>4, <1>5
<1> QED
  BY <1>3, <1>6 DEF Enough

LEMMA WindowNow ==
  ASSUME NEW m, NEW n, NEW k, NEW len \in Nat, NEW p, n = Counted(m, k, len, p),
         clock \in Nat,
         k \in DOMAIN m => m[k].started \in Nat /\ m[k].started <= clock
  PROVE  /\ k \in DOMAIN n
         /\ n[k].started \in Nat /\ n[k].started <= clock
         /\ clock <= n[k].started + len
<1>1. k \in DOMAIN n /\ n[k].started = Window(m, k, len).started
  BY DEF Counted, Put
<1>2. PICK r : r = Window(m, k, len).started
  OBVIOUS
<1>3. CASE k \in DOMAIN m /\ clock - m[k].started <= len
  <2>1. r = m[k].started
    BY <1>2, <1>3 DEF Window
  <2>2. r \in Nat /\ r <= clock /\ clock - r <= len
    BY <1>3, <2>1
  <2> QED
    BY <1>1, <1>2, <2>2
<1>4. CASE ~(k \in DOMAIN m /\ clock - m[k].started <= len)
  <2>1. r = clock
    BY <1>2, <1>4 DEF Window, NewWindow
  <2> QED
    BY <1>1, <1>2, <2>1
<1> QED
  BY <1>3, <1>4

LEMMA HitsBounded ==
  ASSUME NEW E, IsFiniteSet(E), \A e \in E : e[1] \in Nat /\ e[1] <= clock, clock \in Nat,
         NEW v, NEW F, F = E \/ F = E \cup {<<clock, v>>}
  PROVE  IsFiniteSet(F) /\ E \subseteq F /\ \A e \in F : e[1] \in Nat /\ e[1] <= clock
<1>1. IsFiniteSet(E \cup {<<clock, v>>})
  BY FS_AddElement
<1>2. \A e \in F : e \in E \/ e = <<clock, v>>
  OBVIOUS
<1>3. PICK c \in Nat : c = clock
  OBVIOUS
<1>4. \A e \in F : e[1] \in Nat /\ e[1] <= clock
  <2>1. TAKE e \in F
  <2>2. e \in E \/ e[1] = c
    BY <1>2, <1>3
  <2> QED
    BY <1>3, <2>2
<1>5. IsFiniteSet(F) /\ E \subseteq F
  BY <1>1
<1> QED
  BY <1>4, <1>5

(***************************************************************************)
(* The hits after a packet: no fewer, and still in time.                   *)
(***************************************************************************)
LEMMA HitsAfter ==
  ASSUME Origin, Clocks, NEW p, seen' = Append(seen, [pkt |-> p, at |-> clock]), NEW k
  PROVE  /\ /\ IsFiniteSet(ScanHits(k)') /\ ScanHits(k) \subseteq ScanHits(k)'
            /\ \A e \in ScanHits(k)' : e[1] \in Nat /\ e[1] <= clock
         /\ /\ IsFiniteSet(FloodHits(k)') /\ FloodHits(k) \subseteq FloodHits(k)'
            /\ \A e \in FloodHits(k)' : e[1] \in Nat /\ e[1] <= clock
         /\ /\ IsFiniteSet(LabelHits(k)') /\ LabelHits(k) \subseteq LabelHits(k)'
            /\ \A e \in LabelHits(k)' : e[1] \in Nat /\ e[1] <= clock
<1>1. IsSeq(seen) /\ clock \in Nat
  BY DEF Origin, Clocks
<1>2. /\ IsFiniteSet(ScanHits(k)') /\ ScanHits(k) \subseteq ScanHits(k)'
      /\ \A e \in ScanHits(k)' : e[1] \in Nat /\ e[1] <= clock
  <2>1. PICK E, F : E = ScanHits(k) /\ F = ScanHits(k)'
    OBVIOUS
  <2>2. F = E \/ F = E \cup {<<clock, p.dport>>}
    BY <1>1, <2>1, ScanHitsGrow
  <2>3. IsFiniteSet(E) /\ \A e \in E : e[1] \in Nat /\ e[1] <= clock
    BY <1>1, <2>1, ScanHitsFinite
  <2> QED
    BY <1>1, <2>1, <2>2, <2>3, HitsBounded
<1>3. /\ IsFiniteSet(FloodHits(k)') /\ FloodHits(k) \subseteq FloodHits(k)'
      /\ \A e \in FloodHits(k)' : e[1] \in Nat /\ e[1] <= clock
  <2>1. PICK E, F, v : E = FloodHits(k) /\ F = FloodHits(k)' /\ v = Len(seen) + 1
    OBVIOUS
  <2>2. F = E \/ F = E \cup {<<clock, v>>}
    BY <1>1, <2>1, FloodHitsGrow
  <2>3. IsFiniteSet(E) /\ \A e \in E : e[1] \in Nat /\ e[1] <= clock
    BY <1>1, <2>1, FloodHitsFinite
  <2> QED
    BY <1>1, <2>1, <2>2, <2>3, HitsBounded
<1>4. /\ IsFiniteSet(LabelHits(k)') /\ LabelHits(k) \subseteq LabelHits(k)'
      /\ \A e \in LabelHits(k)' : e[1] \in Nat /\ e[1] <= clock
  <2>1. PICK E, F, v : E = LabelHits(k) /\ F = LabelHits(k)' /\ v = Len(seen) + 1
    OBVIOUS
  <2>2. F = E \/ F = E \cup {<<clock, v>>}
    BY <1>1, <2>1, LabelHitsGrow
  <2>3. IsFiniteSet(E) /\ \A e \in E : e[1] \in Nat /\ e[1] <= clock
    BY <1>1, <2>1, LabelHitsFinite
  <2> QED
    BY <1>1, <2>1, <2>2, <2>3, HitsBounded
<1> QED
  BY <1>2, <1>3, <1>4

LEMMA ScanFull ==
  ASSUME Origin, Clocks, ScanInv, ScanInv', NEW p, IsTouch(p),
         seen' = Append(seen, [pkt |-> p, at |-> clock]), scans' = ScanNext(p),
         UNCHANGED clock,
         NEW n \in Nat, Cardinality(Field(scans'[p.src], "dport")) >= n
  PROVE  /\ Enough(ScanHits(p.src)', clock - ScanWindow, clock, n)
         /\ \E t \in 0..clock : Enough(ScanHits(p.src)', t, t + ScanWindow, n)
<1>1. PICK s, F, m : s = p.src /\ F = ScanHits(s)' /\ m = scans'
  OBVIOUS
<1>2. ScanWindow \in Nat /\ clock \in Nat
  BY SensorAssumption DEF Clocks
<1>3. m = Counted(scans, s, ScanWindow, p)
  BY <1>1 DEF ScanNext
<1>4. s \in DOMAIN scans => scans[s].started \in Nat /\ scans[s].started <= clock
  BY DEF ScanInv, WindowInv
<1>5. /\ s \in DOMAIN m /\ m[s].started \in Nat /\ m[s].started <= clock
      /\ clock <= m[s].started + ScanWindow
  BY <1>2, <1>3, <1>4, WindowNow
<1>6. Field(m[s], "dport") = InWindow(m, s, F, ScanWindow)
  BY <1>1, <1>5 DEF ScanInv, InWindow
<1>7. IsFiniteSet(F) /\ \A e \in F : e[1] \in Nat /\ e[1] <= clock
  BY <1>1, HitsAfter
<1>8. Cardinality(InWindow(m, s, F, ScanWindow)) >= n
  BY <1>1, <1>6
<1>9. Enough(F, clock - ScanWindow, clock, n)
  BY <1>2, <1>5, <1>7, <1>8, Recent
<1>10. PICK t \in Nat : t = m[s].started /\ t <= clock
  BY <1>5
<1>11. t \in 0..clock /\ Enough(F, t, t + ScanWindow, n)
  BY <1>2, <1>8, <1>10 DEF Enough, InWindow
<1> QED
  BY <1>1, <1>9, <1>11

LEMMA FloodFull ==
  ASSUME Origin, Clocks, FloodInv, FloodInv', NEW p, SynOnly(p),
         seen' = Append(seen, [pkt |-> p, at |-> clock]), floods' = FloodNext(p),
         UNCHANGED clock,
         NEW n \in Nat, Len(floods'[FloodKey(p)].log) >= n
  PROVE  Enough(FloodHits(FloodKey(p))', clock - FloodWindow, clock, n)
<1>1. PICK k, F, m : k = FloodKey(p) /\ F = FloodHits(k)' /\ m = floods'
  OBVIOUS
<1>2. FloodWindow \in Nat /\ clock \in Nat
  BY SensorAssumption DEF Clocks
<1>3. m = Counted(floods, k, FloodWindow, p)
  BY <1>1 DEF FloodNext
<1>4. k \in DOMAIN floods => floods[k].started \in Nat /\ floods[k].started <= clock
  BY DEF FloodInv, WindowInv
<1>5. /\ k \in DOMAIN m /\ m[k].started \in Nat /\ m[k].started <= clock
      /\ clock <= m[k].started + FloodWindow
  BY <1>2, <1>3, <1>4, WindowNow
<1>6. Len(m[k].log) = Cardinality(InWindow(m, k, F, FloodWindow))
  BY <1>1, <1>5 DEF FloodInv, InWindow
<1>7. IsFiniteSet(F) /\ \A e \in F : e[1] \in Nat /\ e[1] <= clock
  BY <1>1, HitsAfter
<1>8. Cardinality(InWindow(m, k, F, FloodWindow)) >= n
  BY <1>1, <1>6
<1>9. Enough(F, clock - FloodWindow, clock, n)
  BY <1>2, <1>5, <1>7, <1>8, Recent
<1> QED
  BY <1>1, <1>9

LEMMA LabelFull ==
  ASSUME Origin, Clocks, DnsInv, DnsInv', NEW p, IsDns(p),
         seen' = Append(seen, [pkt |-> p, at |-> clock]), dns' = DnsNext(p),
         UNCHANGED clock,
         NEW n \in Nat, Cardinality(Labels(dns'[p.src].log)) >= n
  PROVE  Enough(LabelHits(p.src)', clock - DnsWindow, clock, n)
<1>1. PICK s, M, m : s = p.src /\ M = LabelHits(s)' /\ m = dns'
  OBVIOUS
<1>2. DnsWindow \in Nat /\ clock \in Nat
  BY SensorAssumption DEF Clocks
<1>3. m = Counted(dns, s, DnsWindow, p)
  BY <1>1 DEF DnsNext
<1>4. s \in DOMAIN dns => dns[s].started \in Nat /\ dns[s].started <= clock
  BY DEF DnsInv, WindowInv
<1>5. /\ s \in DOMAIN m /\ m[s].started \in Nat /\ m[s].started <= clock
      /\ clock <= m[s].started + DnsWindow
  BY <1>2, <1>3, <1>4, WindowNow
<1>6. Cardinality(Labels(m[s].log)) = Cardinality(InWindow(m, s, M, DnsWindow))
  BY <1>1, <1>5 DEF DnsInv, InWindow
<1>7. IsFiniteSet(M) /\ \A e \in M : e[1] \in Nat /\ e[1] <= clock
  BY <1>1, HitsAfter
<1>8. Cardinality(InWindow(m, s, M, DnsWindow)) >= n
  BY <1>1, <1>6
<1>9. Enough(M, clock - DnsWindow, clock, n)
  BY <1>2, <1>5, <1>7, <1>8, Recent
<1> QED
  BY <1>1, <1>9

LEMMA PortCount ==
  ASSUME Origin, Clocks, ScanInv', NEW p, IsTouch(p),
         seen' = Append(seen, [pkt |-> p, at |-> clock]), scans' = ScanNext(p)
  PROVE  Cardinality(Field(scans'[p.src], "dport")) \in Nat
<1>1. PICK s, F, m : s = p.src /\ F = ScanHits(s)' /\ m = scans'
  OBVIOUS
<1>2. s \in DOMAIN m
  BY <1>1 DEF ScanNext, Counted, Put
<1>3. Field(m[s], "dport") = InWindow(m, s, F, ScanWindow)
  BY <1>1, <1>2 DEF ScanInv, InWindow
<1>4. IsFiniteSet(F)
  BY <1>1, HitsAfter
<1>5. Cardinality(InWindow(m, s, F, ScanWindow)) \in Nat
  BY <1>4, ItemsFinite DEF InWindow
<1> QED
  BY <1>1, <1>3, <1>5

(***************************************************************************)
(* Which detector an alert of the three windowed kinds comes from.         *)
(***************************************************************************)
LEMMA PortScanRaised ==
  ASSUME NEW p, NEW a \in NewAlerts(p), a.det = "portscan"
  PROVE  /\ IsTouch(p) /\ a.src = p.src
         /\ LET ports == Cardinality(Field(ScanNext(p)[p.src], "dport"))
                portT == IF p.dst \in Local THEN InPorts ELSE OutPorts
            IN  ports >= portT /\ a.sev = ScanSeverity(ports, portT)
<1>1. a \in ScanAlerts(p, ScanNext(p))
  BY DEF NewAlerts, FloodAlerts, DnsAlerts, BeaconAlerts, SignatureAlerts, Alert
<1> QED
  BY <1>1 DEF ScanAlerts, Alert

LEMMA SynFloodRaised ==
  ASSUME NEW p, NEW a \in NewAlerts(p), a.det = "synflood"
  PROVE  /\ SynOnly(p) /\ a.dst = p.dst
         /\ Len(FloodNext(p)[FloodKey(p)].log) >= FloodSyns
<1>1. a \in FloodAlerts(p, FloodNext(p))
  BY DEF NewAlerts, ScanAlerts, DnsAlerts, BeaconAlerts, SignatureAlerts, Alert
<1> QED
  BY <1>1 DEF FloodAlerts, Alert

LEMMA TunnelRaised ==
  ASSUME NEW p, NEW a \in NewAlerts(p), a.det = "dns_tunnel"
  PROVE  /\ IsDns(p) /\ a.src = p.src
         /\ Cardinality(Labels(DnsNext(p)[p.src].log)) >= DnsSuspicious
<1>1. a \in DnsAlerts(p, DnsNext(p))
  BY DEF NewAlerts, ScanAlerts, FloodAlerts, BeaconAlerts, SignatureAlerts, Alert
<1> QED
  BY <1>1 DEF DnsAlerts, Alert, Labels

LEMMA BackedStep ==
  ASSUME Origin, Clocks, ScanInv, FloodInv, DnsInv, \A a \in alerts : Backed(a), Analyze
  PROVE  \A a \in alerts' : Backed(a)'
<1>1. PICK p :
         /\ Traced(p)
         /\ seen' = Append(seen, [pkt |-> p, at |-> clock])
         /\ alerts' = alerts \cup NewAlerts(p)
         /\ scans' = ScanNext(p) /\ floods' = FloodNext(p) /\ dns' = DnsNext(p)
         /\ UNCHANGED <<mode, clock>>
  BY Analyzed
<1>2. ScanInv' /\ FloodInv' /\ DnsInv'
  BY ScanStep, FloodStep, DnsStep
<1>3. InPorts \in Nat /\ OutPorts \in Nat /\ FloodSyns \in Nat /\ DnsSuspicious \in Nat
  BY SensorAssumption
<1>4. Targets' = Targets
  BY <1>1 DEF Targets
<1>5. ASSUME NEW a \in alerts
      PROVE  Backed(a)'
  <2>1. a.det = "portscan" => Enough(ScanHits(a.src)', a.at - ScanWindow, a.at, InPorts)
    BY <1>1, <1>3, HitsAfter, EnoughGrows DEF Backed
  <2>2. a.det = "synflood" =>
          \E k \in Targets : /\ k[1] = a.dst
                             /\ Enough(FloodHits(k)', a.at - FloodWindow, a.at, FloodSyns)
    BY <1>1, <1>3, HitsAfter, EnoughGrows DEF Backed
  <2>3. a.det = "dns_tunnel" =>
          Enough(LabelHits(a.src)', a.at - DnsWindow, a.at, DnsSuspicious)
    BY <1>1, <1>3, HitsAfter, EnoughGrows DEF Backed
  <2> QED
    BY <1>4, <2>1, <2>2, <2>3 DEF Backed, Enough
<1>6. ASSUME NEW a \in NewAlerts(p)
      PROVE  Backed(a)'
  <2>1. a.at = clock
    BY NewAlertsNow
  <2>2. ASSUME a.det = "portscan"
        PROVE  Enough(ScanHits(a.src)', a.at - ScanWindow, a.at, InPorts)
    <3>1. PICK n \in Nat : n = Cardinality(Field(scans'[p.src], "dport"))
      BY <1>1, <1>2, <2>2, PortScanRaised, PortCount
    <3>2. IsTouch(p) /\ a.src = p.src /\ (n >= InPorts \/ n >= OutPorts)
      BY <1>1, <2>2, <3>1, PortScanRaised
    <3>3. n >= InPorts
      BY <1>3, <3>2, SensorAssumption
    <3> QED
      BY <1>1, <1>2, <1>3, <2>1, <3>1, <3>2, <3>3, ScanFull
  <2>3. ASSUME a.det = "synflood"
        PROVE  \E k \in Targets : /\ k[1] = a.dst
                                  /\ Enough(FloodHits(k)', a.at - FloodWindow, a.at, FloodSyns)
    <3>1. SynOnly(p) /\ a.dst = p.dst /\ Len(floods'[FloodKey(p)].log) >= FloodSyns
      BY <1>1, <2>3, SynFloodRaised
    <3>2. Enough(FloodHits(FloodKey(p))', clock - FloodWindow, clock, FloodSyns)
      BY <1>1, <1>2, <1>3, <3>1, FloodFull
    <3>3. FloodKey(p) \in Targets
      BY <1>1, <3>1 DEF Traced, Targets
    <3>4. FloodKey(p)[1] = a.dst
      BY <3>1 DEF FloodKey
    <3> QED
      BY <2>1, <3>2, <3>3, <3>4
  <2>4. ASSUME a.det = "dns_tunnel"
        PROVE  Enough(LabelHits(a.src)', a.at - DnsWindow, a.at, DnsSuspicious)
    <3>1. IsDns(p) /\ a.src = p.src /\ Cardinality(Labels(dns'[p.src].log)) >= DnsSuspicious
      BY <1>1, <2>4, TunnelRaised
    <3> QED
      BY <1>1, <1>2, <1>3, <2>1, <3>1, LabelFull
  <2> QED
    BY <1>4, <2>2, <2>3, <2>4 DEF Backed, Enough
<1> QED
  BY <1>1, <1>5, <1>6

(***************************************************************************)
(* In xdp mode only a port scan of this host is Critical with a source, so *)
(* only such a scan blocks.                                                *)
(***************************************************************************)
LEMMA CriticalIsScan ==
  ASSUME NEW p, NEW a \in NewAlerts(p), a.sev = "Critical", a.src # "none",
         p.body = "none"
  PROVE  a.det = "portscan"
<1>1. CASE a \in ScanAlerts(p, ScanNext(p))
  BY <1>1 DEF ScanAlerts, Alert
<1>2. CASE a \in FloodAlerts(p, FloodNext(p))
  BY <1>2 DEF FloodAlerts, Alert
<1>3. CASE a \in DnsAlerts(p, DnsNext(p))
  BY <1>3 DEF DnsAlerts, Alert
<1>4. CASE a \in BeaconAlerts(p, BeaconNext(p))
  BY <1>4 DEF BeaconAlerts, Alert
<1>5. CASE a \in SignatureAlerts(p)
  BY <1>5 DEF SignatureAlerts, Rules
<1> QED
  BY <1>1, <1>2, <1>3, <1>4, <1>5 DEF NewAlerts

LEMMA EarnedStep ==
  ASSUME Origin, Clocks, ScanInv, \A s \in blocked : Earned(s), Analyze
  PROVE  \A s \in blocked' : Earned(s)'
<1>1. PICK p :
         /\ Traced(p) /\ p = Head(chan).pkt
         /\ seen' = Append(seen, [pkt |-> p, at |-> clock])
         /\ alerts' = alerts \cup NewAlerts(p)
         /\ scans' = ScanNext(p)
         /\ UNCHANGED <<mode, clock>>
  BY Analyzed
<1>2. ScanInv'
  BY ScanStep
<1>3. PICK N \in Nat : N = InPorts * Escalation
  BY SensorAssumption
<1>4. ASSUME NEW s \in blocked
      PROVE  Earned(s)'
  <2>1. PICK t \in 0..clock : Enough(ScanHits(s), t, t + ScanWindow, N)
    BY <1>3 DEF Earned
  <2>2. Enough(ScanHits(s)', t, t + ScanWindow, N)
    BY <1>1, <2>1, HitsAfter, EnoughGrows
  <2> QED
    BY <1>1, <1>3, <2>2 DEF Earned, Enough
<1>5. ASSUME NEW s \in BlockCandidates(NewAlerts(p)) \ Local, mode = "xdp"
      PROVE  Earned(s)'
  <2>1. PICK a \in NewAlerts(p) : a.sev = "Critical" /\ a.src # "none" /\ s = a.src
    BY <1>5 DEF BlockCandidates
  <2>2. a.det = "portscan"
    BY <1>1, <1>5, <2>1, CriticalIsScan DEF Traced
  <2>3. IsTouch(p) /\ a.src = p.src
    BY <2>2, PortScanRaised
  <2>4. p.dst \in Local
    BY <1>5, <2>1, <2>3 DEF IsTouch
  <2>5. PICK n \in Nat : n = Cardinality(Field(scans'[p.src], "dport"))
    BY <1>1, <1>2, <2>3, PortCount
  <2>6. a.sev = ScanSeverity(n, InPorts)
    BY <1>1, <2>2, <2>4, <2>5, PortScanRaised
  <2>7. n >= N
    BY <1>3, <2>1, <2>6 DEF ScanSeverity
  <2>8. \E t \in 0..clock : Enough(ScanHits(p.src)', t, t + ScanWindow, N)
    BY <1>1, <1>2, <2>3, <2>5, <2>7, ScanFull
  <2> QED
    BY <1>1, <1>3, <2>1, <2>3, <2>8 DEF Earned, Enough
<1>6. \A s \in blocked' : s \in blocked \/ (mode = "xdp" /\ s \in BlockCandidates(NewAlerts(p)) \ Local)
  BY <1>1 DEF Analyze
<1> QED
  BY <1>4, <1>5, <1>6

-----------------------------------------------------------------------------
(***************************************************************************)
(* The invariant.                                                          *)
(***************************************************************************)
LEMMA SensorInvInit ==
  ASSUME Init
  PROVE  SensorInv
<1>1. seen = <<>> /\ DOMAIN seen = {} /\ DOMAIN EmptyMap = {}
  BY DEF Init, EmptyMap
<1>2. IsSeq(<<>>) /\ DOMAIN <<>> = {}
  BY DEF IsSeq
<1>3. Origin
  BY <1>1, <1>2 DEF Origin, Init
<1>4. Clocks
  BY <1>1 DEF Clocks, Init
<1>5. \A k : ScanHits(k) = {} /\ FloodHits(k) = {} /\ DnsHits(k) = {}
  BY <1>1 DEF ScanHits, FloodHits, DnsHits
<1>6. scans = EmptyMap /\ floods = EmptyMap /\ dns = EmptyMap
  BY DEF Init
<1>7. ScanInv
  BY <1>1, <1>5, <1>6 DEF ScanInv, WindowInv
<1>8. FloodInv
  BY <1>1, <1>5, <1>6 DEF FloodInv, WindowInv
<1>9. DnsInv
  BY <1>1, <1>5, <1>6 DEF DnsInv, WindowInv
<1>10. alerts = {} /\ blocked = {}
  BY DEF Init
<1> QED
  BY <1>3, <1>4, <1>7, <1>8, <1>9, <1>10 DEF SensorInv

(* A step that analyses nothing.                                           *)
LEMMA QuietStep ==
  ASSUME SensorInv, UNCHANGED <<mode, seen, alerts, scans, floods, dns>>,
         clock' \in Nat, clock <= clock', blocked' \subseteq blocked
  PROVE  /\ ScanInv' /\ FloodInv' /\ DnsInv'
         /\ (\A a \in alerts' : Backed(a)') /\ (\A s \in blocked' : Earned(s)')
<1>1. clock \in Nat
  BY DEF SensorInv, Clocks
<1>2. \A k : /\ ScanHits(k)' = ScanHits(k) /\ FloodHits(k)' = FloodHits(k)
             /\ DnsHits(k)' = DnsHits(k) /\ LabelHits(k)' = LabelHits(k)
             /\ ScanTimes(k)' = ScanTimes(k) /\ FloodTimes(k)' = FloodTimes(k)
             /\ DnsTimes(k)' = DnsTimes(k) /\ (Inbound(k)' <=> Inbound(k))
  BY DEF ScanHits, FloodHits, DnsHits, LabelHits, ScanTimes, FloodTimes, DnsTimes, Inbound
<1>3. \A m, k, E, A, T, len :
        WindowInv(m, k, E, A, T, len) =>
          IF k \in DOMAIN m
          THEN /\ m[k].started \in Nat /\ m[k].started <= clock'
               /\ Tumbling(E, A, m[k].started, T, len)
          ELSE E = {}
  <2>1. TAKE m, k, E, A, T, len
  <2>2. HAVE WindowInv(m, k, E, A, T, len)
  <2>3. CASE k \in DOMAIN m
    <3>1. PICK r \in Nat : r = m[k].started /\ r <= clock
      BY <2>2, <2>3 DEF WindowInv
    <3>2. r <= clock'
      BY <1>1, <3>1
    <3> QED
      BY <2>2, <2>3, <3>1, <3>2 DEF WindowInv
  <2> QED
    BY <2>2, <2>3 DEF WindowInv
<1>4. ScanInv'
  <2>1. SUFFICES ASSUME NEW s
        PROVE  /\ WindowInv(scans, s, ScanHits(s), ScanTimes(s), OutPorts, ScanWindow)'
               /\ Inbound(s)' => WindowInv(scans, s, ScanHits(s), ScanTimes(s), InPorts, ScanWindow)'
               /\ s \in DOMAIN scans' =>
                    /\ IsSeq(scans'[s].log)
                    /\ Field(scans'[s], "dport") = InWindow(scans, s, ScanHits(s), ScanWindow)'
    BY DEF ScanInv
  <2>2. WindowInv(scans, s, ScanHits(s), ScanTimes(s), OutPorts, ScanWindow)'
    BY <1>2, <1>3 DEF SensorInv, ScanInv, WindowInv
  <2>3. Inbound(s)' => WindowInv(scans, s, ScanHits(s), ScanTimes(s), InPorts, ScanWindow)'
    BY <1>2, <1>3 DEF SensorInv, ScanInv, WindowInv
  <2>4. s \in DOMAIN scans' =>
          /\ IsSeq(scans'[s].log)
          /\ Field(scans'[s], "dport") = InWindow(scans, s, ScanHits(s), ScanWindow)'
    BY <1>2 DEF SensorInv, ScanInv, InWindow
  <2> QED
    BY <2>2, <2>3, <2>4
<1>5. FloodInv'
  <2>1. SUFFICES ASSUME NEW k
        PROVE  /\ WindowInv(floods, k, FloodHits(k), FloodTimes(k), FloodSyns, FloodWindow)'
               /\ k \in DOMAIN floods' =>
                    /\ IsSeq(floods'[k].log)
                    /\ Len(floods'[k].log)
                         = Cardinality(InWindow(floods, k, FloodHits(k), FloodWindow)')
    BY DEF FloodInv
  <2>2. WindowInv(floods, k, FloodHits(k), FloodTimes(k), FloodSyns, FloodWindow)'
    BY <1>2, <1>3 DEF SensorInv, FloodInv, WindowInv
  <2>3. k \in DOMAIN floods' =>
          /\ IsSeq(floods'[k].log)
          /\ Len(floods'[k].log)
               = Cardinality(InWindow(floods, k, FloodHits(k), FloodWindow)')
    BY <1>2 DEF SensorInv, FloodInv, InWindow
  <2> QED
    BY <2>2, <2>3
<1>6. DnsInv'
  <2>1. SUFFICES ASSUME NEW s
        PROVE  /\ WindowInv(dns, s, DnsHits(s), DnsTimes(s), DnsQueries, DnsWindow)'
               /\ s \in DOMAIN dns' =>
                    /\ IsSeq(dns'[s].log)
                    /\ Len(dns'[s].log) = Cardinality(InWindow(dns, s, DnsHits(s), DnsWindow)')
                    /\ Cardinality(Labels(dns'[s].log))
                         = Cardinality(InWindow(dns, s, LabelHits(s), DnsWindow)')
    BY DEF DnsInv
  <2>2. WindowInv(dns, s, DnsHits(s), DnsTimes(s), DnsQueries, DnsWindow)'
    BY <1>2, <1>3 DEF SensorInv, DnsInv, WindowInv
  <2>3. s \in DOMAIN dns' =>
          /\ IsSeq(dns'[s].log)
          /\ Len(dns'[s].log) = Cardinality(InWindow(dns, s, DnsHits(s), DnsWindow)')
          /\ Cardinality(Labels(dns'[s].log))
               = Cardinality(InWindow(dns, s, LabelHits(s), DnsWindow)')
    BY <1>2 DEF SensorInv, DnsInv, InWindow
  <2> QED
    BY <2>2, <2>3
<1>7. \A a \in alerts' : Backed(a)'
  <2>1. Targets' = Targets
    BY DEF Targets
  <2>2. TAKE a \in alerts'
  <2>3. Backed(a)
    BY DEF SensorInv
  <2> QED
    BY <1>2, <2>1, <2>3 DEF Backed, Enough
<1>8. \A s \in blocked' : Earned(s)'
  <2>1. TAKE s \in blocked'
  <2>2. PICK t \in 0..clock : Enough(ScanHits(s), t, t + ScanWindow, InPorts * Escalation)
    BY DEF SensorInv, Earned
  <2>3. t \in 0..clock'
    BY <1>1
  <2> QED
    BY <1>2, <2>2, <2>3 DEF Earned, Enough
<1> QED
  BY <1>4, <1>5, <1>6, <1>7, <1>8

LEMMA SensorInvStep ==
  ASSUME SensorInv, Next
  PROVE  SensorInv'
<1>1. Origin' /\ Clocks'
  BY OriginStep, ClocksStep DEF SensorInv
<1>2. CASE Analyze
  <2>1. ScanInv' /\ FloodInv' /\ DnsInv'
    BY <1>2, ScanStep, FloodStep, DnsStep DEF SensorInv
  <2>2. \A a \in alerts' : Backed(a)'
    BY <1>2, BackedStep DEF SensorInv
  <2>3. \A s \in blocked' : Earned(s)'
    BY <1>2, EarnedStep DEF SensorInv
  <2> QED
    BY <1>1, <2>1, <2>2, <2>3 DEF SensorInv
<1>3. CASE Pass \/ Arrive \/ ReadEvent \/ Send \/ HangUp \/ Finish \/ Reap \/ Lapse
  <2>1. clock \in Nat
    BY DEF SensorInv, Clocks
  <2>2. UNCHANGED <<mode, seen, alerts, scans, floods, dns>>
    BY <1>3 DEF Pass, Arrive, ReadEvent, Send, HangUp, Finish, Reap, Lapse, detectors
  <2>3. clock' = clock \/ clock' = clock + 1
    BY <1>3 DEF Pass, Arrive, ReadEvent, Send, HangUp, Finish, Reap, Lapse
  <2>4. blocked' = blocked \/ blocked' = {}
    BY <1>3 DEF Pass, Arrive, ReadEvent, Send, HangUp, Finish, Reap, Lapse
  <2>5. clock' \in Nat /\ clock <= clock' /\ blocked' \subseteq blocked
    BY <2>1, <2>3, <2>4
  <2>6. /\ ScanInv' /\ FloodInv' /\ DnsInv'
        /\ (\A a \in alerts' : Backed(a)') /\ (\A s \in blocked' : Earned(s)')
    BY <2>2, <2>5, QuietStep
  <2> QED
    BY <1>1, <2>6 DEF SensorInv
<1> QED
  BY <1>2, <1>3 DEF Next

-----------------------------------------------------------------------------
(***************************************************************************)
(* What the invariant says of the properties.                              *)
(***************************************************************************)
LEMMA TimesAreReports ==
  ASSUME NEW s, NEW t, NEW len
  PROVE  /\ Alarm(ScanTimes(s), t, t + len)
            => \E a \in Reported("portscan", t, len) : a.src = s
         /\ Alarm(FloodTimes(s), t, t + len)
            => \E a \in Reported("synflood", t, len) : a.dst = s[1]
         /\ Alarm(DnsTimes(s), t, t + len)
            => \E a \in Reported("dns_rate", t, len)
                        \cup Reported("dns_tunnel", t, len) : a.src = s
<1>1. Alarm(ScanTimes(s), t, t + len)
      => \E a \in Reported("portscan", t, len) : a.src = s
  BY DEF Alarm, ScanTimes, Reported
<1>2. Alarm(FloodTimes(s), t, t + len)
      => \E a \in Reported("synflood", t, len) : a.dst = s[1]
  BY DEF Alarm, FloodTimes, Reported
<1>3. Alarm(DnsTimes(s), t, t + len)
      => \E a \in Reported("dns_rate", t, len)
                  \cup Reported("dns_tunnel", t, len) : a.src = s
  BY DEF Alarm, DnsTimes, Reported
<1> QED
  BY <1>1, <1>2, <1>3

LEMMA BurstAlarms ==
  ASSUME NEW m, NEW k, NEW E, NEW A, NEW T \in Nat \ {0}, NEW len, NEW t \in Int,
         WindowInv(m, k, E, A, T, len),
         Cardinality(Items(E, t, t + len)) >= 2 * T - 1
  PROVE  Alarm(A, t, t + len)
<1>1. CASE k \in DOMAIN m
  BY <1>1 DEF WindowInv, Tumbling
<1>2. CASE k \notin DOMAIN m
  <2>1. Items(E, t, t + len) = {}
    BY <1>2 DEF WindowInv, Items
  <2>2. Cardinality(Items(E, t, t + len)) = 0
    BY <2>1, FS_EmptySet
  <2> QED
    BY <2>2, TooFew
<1> QED
  BY <1>1, <1>2

LEMMA Bursts ==
  ASSUME SensorInv
  PROVE  BurstIsSeen
<1>1. /\ Clocks /\ ScanInv /\ FloodInv /\ DnsInv
      /\ {ScanWindow, FloodWindow, DnsWindow} \subseteq Nat
      /\ {InPorts, OutPorts, FloodSyns, DnsQueries} \subseteq Nat \ {0}
  BY SensorAssumption DEF SensorInv
<1>2. SUFFICES ASSUME NEW t \in 0..clock
      PROVE  /\ \A s \in Sources :
                  /\ Cardinality(PortsTouched(s, t)) >= 2 * OutPorts - 1
                     => \E a \in Reported("portscan", t, ScanWindow) : a.src = s
                  /\ Inbound(s) /\ Cardinality(PortsTouched(s, t)) >= 2 * InPorts - 1
                     => \E a \in Reported("portscan", t, ScanWindow) : a.src = s
                  /\ DnsCount(s, t) >= 2 * DnsQueries - 1
                     => \E a \in Reported("dns_rate", t, DnsWindow)
                                 \cup Reported("dns_tunnel", t, DnsWindow) : a.src = s
             /\ \A k \in Targets :
                  FloodCount(k, t) >= 2 * FloodSyns - 1
                  => \E a \in Reported("synflood", t, FloodWindow) : a.dst = k[1]
  BY DEF BurstIsSeen, Inbound, DnsCount, FloodCount
<1>3. t \in Int
  BY <1>1 DEF Clocks
<1>4. ASSUME NEW s
      PROVE  /\ Cardinality(PortsTouched(s, t)) >= 2 * OutPorts - 1
                => \E a \in Reported("portscan", t, ScanWindow) : a.src = s
             /\ Inbound(s) /\ Cardinality(PortsTouched(s, t)) >= 2 * InPorts - 1
                => \E a \in Reported("portscan", t, ScanWindow) : a.src = s
  <2>1. PortsTouched(s, t) = Items(ScanHits(s), t, t + ScanWindow)
    BY <1>1, <1>3, PortsAreItems
  <2>2. /\ WindowInv(scans, s, ScanHits(s), ScanTimes(s), OutPorts, ScanWindow)
        /\ Inbound(s) => WindowInv(scans, s, ScanHits(s), ScanTimes(s), InPorts, ScanWindow)
    BY <1>1 DEF ScanInv
  <2>3. OutPorts \in Nat \ {0} /\ InPorts \in Nat \ {0}
    BY <1>1
  <2>4. Cardinality(PortsTouched(s, t)) >= 2 * OutPorts - 1
        => Alarm(ScanTimes(s), t, t + ScanWindow)
    BY <1>3, <2>1, <2>2, <2>3, BurstAlarms
  <2>5. Inbound(s) /\ Cardinality(PortsTouched(s, t)) >= 2 * InPorts - 1
        => Alarm(ScanTimes(s), t, t + ScanWindow)
    BY <1>3, <2>1, <2>2, <2>3, BurstAlarms
  <2> QED
    BY <2>4, <2>5, TimesAreReports
<1>5. ASSUME NEW s, DnsCount(s, t) >= 2 * DnsQueries - 1
      PROVE  \E a \in Reported("dns_rate", t, DnsWindow)
                      \cup Reported("dns_tunnel", t, DnsWindow) : a.src = s
  <2>1. DnsCount(s, t) = Cardinality(Items(DnsHits(s), t, t + DnsWindow))
    BY <1>1, <1>3, CountsAreItems
  <2>2. WindowInv(dns, s, DnsHits(s), DnsTimes(s), DnsQueries, DnsWindow)
    BY <1>1 DEF DnsInv
  <2>3. DnsQueries \in Nat \ {0}
    BY <1>1
  <2>4. Alarm(DnsTimes(s), t, t + DnsWindow)
    BY <1>3, <1>5, <2>1, <2>2, <2>3, BurstAlarms
  <2> QED
    BY <2>4, TimesAreReports
<1>6. ASSUME NEW k, FloodCount(k, t) >= 2 * FloodSyns - 1
      PROVE  \E a \in Reported("synflood", t, FloodWindow) : a.dst = k[1]
  <2>1. FloodCount(k, t) = Cardinality(Items(FloodHits(k), t, t + FloodWindow))
    BY <1>1, <1>3, CountsAreItems
  <2>2. WindowInv(floods, k, FloodHits(k), FloodTimes(k), FloodSyns, FloodWindow)
    BY <1>1 DEF FloodInv
  <2>3. FloodSyns \in Nat \ {0}
    BY <1>1
  <2>4. Alarm(FloodTimes(k), t, t + FloodWindow)
    BY <1>3, <1>6, <2>1, <2>2, <2>3, BurstAlarms
  <2> QED
    BY <2>4, TimesAreReports
<1> QED
  BY <1>4, <1>5, <1>6

LEMMA Justified ==
  ASSUME SensorInv
  PROVE  AlertsBacked /\ BlocksEarned
<1>1. /\ Clocks /\ ScanWindow \in Nat /\ FloodWindow \in Nat /\ DnsWindow \in Nat
      /\ clock \in Nat /\ \A a \in alerts : a.at \in Nat
  BY SensorAssumption DEF SensorInv, Clocks
<1>2. AlertsBacked
  <2>1. SUFFICES ASSUME NEW a \in alerts
        PROVE  /\ a.det = "portscan"
                  => Cardinality(PortsTouched(a.src, a.at - ScanWindow)) >= InPorts
               /\ a.det = "synflood"
                  => \E k \in Targets : /\ k[1] = a.dst
                                        /\ FloodCount(k, a.at - FloodWindow) >= FloodSyns
               /\ a.det = "dns_tunnel"
                  => LabelCount(a.src, a.at - DnsWindow) >= DnsSuspicious
    BY DEF AlertsBacked, FloodCount, LabelCount
  <2>2. Backed(a)
    BY DEF SensorInv
  <2>3. PICK u \in Nat : u = a.at
    BY <1>1
  <2>4. ASSUME a.det = "portscan"
        PROVE  Cardinality(PortsTouched(a.src, a.at - ScanWindow)) >= InPorts
    <3>1. PICK t \in Int : t = u - ScanWindow /\ t + ScanWindow = u
      BY <1>1
    <3>2. Enough(ScanHits(a.src), t, u, InPorts)
      BY <2>2, <2>3, <2>4, <3>1 DEF Backed
    <3>3. PortsTouched(a.src, t) = Items(ScanHits(a.src), t, u)
      BY <1>1, <3>1, PortsAreItems
    <3> QED
      BY <2>3, <3>1, <3>2, <3>3 DEF Enough
  <2>5. ASSUME a.det = "synflood"
        PROVE  \E k \in Targets : /\ k[1] = a.dst
                                  /\ FloodCount(k, a.at - FloodWindow) >= FloodSyns
    <3>1. PICK t \in Int : t = u - FloodWindow /\ t + FloodWindow = u
      BY <1>1
    <3>2. PICK k \in Targets : k[1] = a.dst /\ Enough(FloodHits(k), t, u, FloodSyns)
      BY <2>2, <2>3, <2>5, <3>1 DEF Backed
    <3>3. FloodCount(k, t) = Cardinality(Items(FloodHits(k), t, u))
      BY <1>1, <3>1, CountsAreItems
    <3> QED
      BY <2>3, <3>1, <3>2, <3>3 DEF Enough
  <2>6. ASSUME a.det = "dns_tunnel"
        PROVE  LabelCount(a.src, a.at - DnsWindow) >= DnsSuspicious
    <3>1. PICK t \in Int : t = u - DnsWindow /\ t + DnsWindow = u
      BY <1>1
    <3>2. Enough(LabelHits(a.src), t, u, DnsSuspicious)
      BY <2>2, <2>3, <2>6, <3>1 DEF Backed
    <3>3. LabelCount(a.src, t) = Cardinality(Items(LabelHits(a.src), t, u))
      BY <1>1, <3>1, CountsAreItems
    <3> QED
      BY <2>3, <3>1, <3>2, <3>3 DEF Enough
  <2> QED
    BY <2>4, <2>5, <2>6
<1>3. BlocksEarned
  <2>1. SUFFICES ASSUME NEW s \in blocked
        PROVE  \E t \in 0..clock : Cardinality(PortsTouched(s, t)) >= InPorts * Escalation
    BY DEF BlocksEarned
  <2>2. PICK t \in 0..clock : Enough(ScanHits(s), t, t + ScanWindow, InPorts * Escalation)
    BY DEF SensorInv, Earned
  <2>3. PortsTouched(s, t) = Items(ScanHits(s), t, t + ScanWindow)
    BY <1>1, PortsAreItems
  <2> QED
    BY <2>2, <2>3 DEF Enough
<1> QED
  BY <1>2, <1>3

LEMMA SensorInvAlways == MCSpec => []SensorInv
<1>1. MCInit => SensorInv
  BY SensorInvInit DEF MCInit
<1>2. SensorInv /\ [MCNext]_<<part, vars, watch>> => SensorInv'
  <2>1. SUFFICES ASSUME SensorInv, [MCNext]_<<part, vars, watch>>
        PROVE  SensorInv'
    OBVIOUS
  <2>2. CASE Next
    BY <2>1, <2>2, SensorInvStep
  <2>3. CASE UNCHANGED vars
    <3>1. UNCHANGED <<mode, clock, ring, hand, chan, scans, floods, dns, blocked, alerts, seen>>
      BY <2>3 DEF vars
    <3>2. Origin' /\ Clocks'
      <4>1. Origin'
        BY <2>1, <3>1 DEF SensorInv, Origin, Traced
      <4>2. Clocks'
        BY <2>1, <3>1 DEF SensorInv, Clocks
      <4> QED
        BY <4>1, <4>2
    <3>3. clock' \in Nat /\ clock <= clock' /\ blocked' \subseteq blocked
      BY <2>1, <3>1 DEF SensorInv, Clocks
    <3>4. /\ ScanInv' /\ FloodInv' /\ DnsInv'
          /\ (\A a \in alerts' : Backed(a)') /\ (\A s \in blocked' : Earned(s)')
      BY <2>1, <3>1, <3>3, QuietStep
    <3> QED
      BY <3>2, <3>4 DEF SensorInv
  <2> QED
    BY <2>1, <2>2, <2>3 DEF MCNext
<1> QED
  BY <1>1, <1>2, PTL DEF MCSpec

(***************************************************************************)
(* A burst of 2T - 1 hits within the length of a window is reported before *)
(* it is over, wherever the windows of the detectors happen to begin, and  *)
(* no alert rests on stale counts (PortScanDetector, SynFloodDetector and  *)
(* DnsTunnelDetector::observe), for every traffic, threshold and window.   *)
(***************************************************************************)
THEOREM BurstsAreReported == MCSpec => []BurstsReported
<1>1. SensorInv => BurstsReported
  BY Bursts, Justified DEF BurstsReported
<1> QED
  BY <1>1, SensorInvAlways, PTL

(***************************************************************************)
(* The event loop blocks only a source that touched Escalation times the   *)
(* alerting number of ports within one window (main.rs, block_ipv4).       *)
(***************************************************************************)
THEOREM BlocksAreEarned == MCSpec => []BlocksEarned
<1>1. SensorInv => BlocksEarned
  BY Justified
<1> QED
  BY <1>1, SensorInvAlways, PTL
=============================================================================
