---------------------------- MODULE RclamDaemon ----------------------------
(***************************************************************************)
(* rclamd: connections are accepted, admitted under the limits of their    *)
(* peer and of the whole daemon, answered with one response and closed.    *)
(* A connection is a task; tasks interleave at every lock and await of     *)
(* PeerLimits::admit and spawn_conn.  A client may stay silent for ever:   *)
(* handle_conn waits for its line without a timeout.                       *)
(***************************************************************************)
EXTENDS Integers, FiniteSets

CONSTANTS
    Peers, NoPeer,    \* uids or addresses
    Tasks,            \* bound: connections at one time
    MaxAccepts,       \* bound: connections in all
    MaxClock,         \* bound: ticks
    MaxConnections,   \* --max-connections, the global semaphore
    MaxConcurrent,    \* --peer-max-concurrent
    Burst,            \* --peer-burst
    RatePerTick,      \* --peer-rate-per-sec
    IdleEvictAfter,   \* IDLE_EVICT_AFTER, in ticks
    AllowRoots,       \* --allow-root: the directories clients may have scanned
    Paths, Resolved   \* what clients ask for, and where it leads (canonicalize)

DaemonAssumption ==
    /\ MaxConcurrent \in Nat /\ MaxConnections \in Nat /\ Burst \in Nat
    /\ RatePerTick \in Nat /\ IdleEvictAfter \in Nat
    /\ IsFiniteSet(Tasks)

VARIABLES
    up,       \* the process runs
    clock,
    peers,    \* PeerLimits.state: the peers in the map
    gen,      \* how often a peer's entry was made: names its semaphore
    task,     \* each connection: [pc, peer, gen]
    stats,    \* Metrics
    served,   \* connections that got past admission and ended
    evicted,  \* peers whose entry was dropped while they had connections open
    lonely    \* a connection was turned away as busy with one peer inside

vars == <<up, clock, peers, gen, task, stats, served, evicted, lonely>>

NoTask == [pc |-> "free", peer |-> NoPeer, gen |-> 0]
Counters == {"total", "busy", "rate", "concurrency", "path", "scans", "files", "infected", "errors"}

Init ==
    /\ up = TRUE /\ clock = 0
    /\ peers = [p \in {} |-> 0]
    /\ gen = [p \in Peers |-> 0]
    /\ task = [t \in Tasks |-> NoTask]
    /\ stats = [c \in Counters |-> 0]
    /\ served = 0 /\ evicted = {} /\ lonely = FALSE

Min2(a, b) == IF a < b THEN a ELSE b
At(t, l) == up /\ task[t].pc = l
Go(t, l) == task' = [task EXCEPT ![t].pc = l]
Close(t) == task' = [task EXCEPT ![t] = NoTask]
Count(C) == stats' = [c \in Counters |-> IF c \in C THEN stats[c] + 1 ELSE stats[c]]

(* Permits are held from their acquisition to the end of the connection. *)
HoldsPeer(t)   == task[t].pc \in {"spend", "global", "read", "reply"}
Attached(t)    == HoldsPeer(t) \/ task[t].pc = "acquire"
HoldsGlobal(t) == task[t].pc \in {"read", "reply"}
PeerPermits(p, g) == Cardinality({t \in Tasks : HoldsPeer(t) /\ task[t].peer = p /\ task[t].gen = g})
Inside == {t \in Tasks : HoldsGlobal(t)}

-----------------------------------------------------------------------------
Tick ==
    /\ up /\ clock < MaxClock
    /\ clock' = clock + 1
    /\ UNCHANGED <<up, peers, gen, task, stats, served, evicted, lonely>>

(* The accept loop and the head of spawn_conn. *)
Accept(t, p) ==
    /\ At(t, "free") /\ stats["total"] < MaxAccepts
    /\ Count({"total"})
    /\ task' = [task EXCEPT ![t] = [pc |-> "admit", peer |-> p, gen |-> 0]]
    /\ UNCHANGED <<up, clock, peers, gen, served, evicted, lonely>>

(* PeerLimits::admit under its first lock: evict, insert, refill, check. *)
Stale(p) == p \in DOMAIN peers /\ clock - peers[p].seen >= IdleEvictAfter
Kept == {p \in DOMAIN peers : ~Stale(p)}

Refilled(b) == Min2(b.tokens + (clock - b.refill) * RatePerTick, Burst)

Seen(p) == IF p \in Kept
           THEN [peers[p] EXCEPT !.tokens = Refilled(peers[p]), !.refill = clock, !.seen = clock]
           ELSE [tokens |-> Burst, refill |-> clock, seen |-> clock]

Admit(t) ==
    /\ At(t, "admit")
    /\ LET p == task[t].peer
           g == IF p \in Kept THEN gen[p] ELSE gen[p] + 1
       IN  /\ peers' = [q \in Kept \cup {p} |-> IF q = p THEN Seen(p) ELSE peers[q]]
           /\ gen' = [gen EXCEPT ![p] = g]
           /\ evicted' = evicted \cup {q \in DOMAIN peers \ Kept : \E u \in Tasks : Attached(u) /\ task[u].peer = q}
           /\ IF Seen(p).tokens < 1
              THEN Count({"rate"}) /\ Close(t)
              ELSE task' = [task EXCEPT ![t].pc = "acquire", ![t].gen = g] /\ UNCHANGED stats
    /\ UNCHANGED <<up, clock, served, lonely>>

\* Mutant: the permit is taken whatever the number of those held.
AcquireAlways(t) == TRUE

AcquireOk(t) == PeerPermits(task[t].peer, task[t].gen) < MaxConcurrent

(* try_acquire_owned on the semaphore the entry had, outside the lock. *)
Acquire(t) ==
    /\ At(t, "acquire")
    /\ IF AcquireOk(t) THEN Go(t, "spend") /\ UNCHANGED stats
       ELSE Count({"concurrency"}) /\ Close(t)
    /\ UNCHANGED <<up, clock, peers, gen, served, evicted, lonely>>

\* Mutant: the token is taken twice.
SpentTwice(b) == [b EXCEPT !.tokens = @ - 2]

(* The token is spent under a second lock, if the peer is still there. *)
Spent(b) == [b EXCEPT !.tokens = @ - 1]

SpendToken(t) ==
    /\ At(t, "spend")
    /\ peers' = [p \in DOMAIN peers |-> IF p = task[t].peer THEN Spent(peers[p]) ELSE peers[p]]
    /\ Go(t, "global")
    /\ UNCHANGED <<up, clock, gen, stats, served, evicted, lonely>>

AcquireGlobal(t) ==
    /\ At(t, "global")
    /\ IF Cardinality(Inside) < MaxConnections
       THEN Go(t, "read") /\ UNCHANGED <<stats, lonely>>
       ELSE /\ Count({"busy"}) /\ Close(t)
            /\ lonely' = (lonely \/ (evicted = {} /\ Cardinality({task[u].peer : u \in Inside}) = 1))
    /\ UNCHANGED <<up, clock, peers, gen, served, evicted>>

End(t) == Close(t) /\ served' = served + 1

(* handle_conn: the client leaves, or sends a line that is too long, not a *)
(* command, or one of PING, VERSION and STATS; all change nothing here.    *)
Converse(t) ==
    /\ At(t, "read")
    /\ End(t)
    /\ UNCHANGED <<up, clock, peers, gen, stats, evicted, lonely>>

(* PathAllowlist::check: the path is resolved before it is compared. *)
Allowed(path) == path \in DOMAIN Resolved /\ Resolved[path] \in AllowRoots

(* run_scan up to the scan: refused, or the scan itself fails. *)
RefuseScan(t) ==
    /\ At(t, "read")
    /\ \E path \in Paths : ~Allowed(path)
    /\ Count({"scans", "path"})
    /\ End(t)
    /\ UNCHANGED <<up, clock, peers, gen, evicted, lonely>>

ScanFails(t) ==
    /\ At(t, "read")
    /\ \E path \in Paths : Allowed(path)
    /\ Count({"scans", "errors"})
    /\ End(t)
    /\ UNCHANGED <<up, clock, peers, gen, evicted, lonely>>

(* One report: only an infected one counts as such, and only those decide  *)
(* the summary; a limit or a skip is told in a line of its own.            *)
ScanReports(t) ==
    /\ At(t, "read")
    /\ \E path \in Paths : Allowed(path)
    /\ \E found \in BOOLEAN : Count({"scans", "files"} \cup (IF found THEN {"infected"} ELSE {}))
    /\ Go(t, "reply")
    /\ UNCHANGED <<up, clock, peers, gen, served, evicted, lonely>>

Reply(t) ==
    /\ At(t, "reply")
    /\ End(t)
    /\ UNCHANGED <<up, clock, peers, gen, stats, evicted, lonely>>

(* SHUTDOWN exits the process and a signal ends the accept loop and main:  *)
(* either way the tasks that are left end where they are.                  *)
Shutdown ==
    /\ up
    /\ up' = FALSE
    /\ UNCHANGED <<clock, peers, gen, task, stats, served, evicted, lonely>>

Next ==
    \/ Tick \/ Shutdown
    \/ \E t \in Tasks :
          \/ \E p \in Peers : Accept(t, p)
          \/ Admit(t) \/ Acquire(t) \/ SpendToken(t) \/ AcquireGlobal(t)
          \/ Converse(t) \/ RefuseScan(t) \/ ScanFails(t) \/ ScanReports(t) \/ Reply(t)

Spec == Init /\ [][Next]_vars

-----------------------------------------------------------------------------
(* One peer alone cannot use up the daemon: a connection is turned away as *)
(* busy only when two peers are inside, as the per-peer cap is below the   *)
(* global one.  Only a peer whose entry was evicted with connections open, *)
(* and that got a second semaphore so, can do it.                          *)
BusyMeansShared == ~lonely

(* The check and the spending of a token are two critical sections: tasks  *)
(* that were checked together overdraw a bucket, by less than their number.*)
OverdraftBounded ==
    \A p \in DOMAIN peers : peers[p].tokens > -Cardinality(Tasks)

(* Every connection is accounted for in the metrics: turned away for one   *)
(* reason, ended, or still here.                                           *)
MetricsAddUp ==
    stats["total"] = stats["rate"] + stats["concurrency"] + stats["busy"] + served
                       + Cardinality({t \in Tasks : task[t].pc # "free"})

(* One peer alone cannot use up the daemon, evicted or not. *)
PeerCap == \A p \in Peers : Cardinality({t \in Tasks : HoldsPeer(t) /\ task[t].peer = p}) <= MaxConcurrent
=============================================================================
