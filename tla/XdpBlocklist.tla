---------------------------- MODULE XdpBlocklist ----------------------------
(***************************************************************************)
(* The XDP blocklist of nsm: the kernel's longest-prefix-match map, the    *)
(* userspace tasks that block and unblock (the event loop's auto-block and *)
(* the control socket's connections), the sweep, the file that carries the *)
(* blocklist over a restart, and the packet program's lookup.              *)
(*                                                                         *)
(* The map has a lock that each access takes on its own, so an operation   *)
(* is several steps.  A prefix is the set of hosts it covers: a trie holds *)
(* one entry per prefix whatever address it was written with.  Times are   *)
(* in ticks; userspace stamps expiries with the wall clock, the packet     *)
(* program reads the time since boot.                                      *)
(***************************************************************************)
EXTENDS Integers, Sequences, FiniteSets, TempFile

CONSTANTS
    Hosts,          \* IPv4 addresses
    WideOf,         \* per host, the hosts of its prefix at a shorter length
    Prefixes,       \* the lengths callers name: "32", "wide" or "default"
    DefaultPrefix,  \* AutoBlockConfig::prefix_len: "32" or "wide"
    Allowlist,      \* AutoBlockConfig::allowlist
    Enforce,        \* AutoBlockConfig::enforce
    RateLimit,      \* AutoBlockConfig::rate_limit
    RateWindow,     \* AutoBlockConfig::rate_window
    Ttls,           \* the time-to-live of a block
    MaxEntries,     \* BLOCKLIST_MAX_ENTRIES
    SweepInterval,  \* the sweep's ticker
    BootTime,       \* the wall clock when the machine booted
    Tasks,          \* tasks that block and unblock
    Inodes,
    MaxTime,        \* bound of the model: the clock stops here
    MaxOps          \* bound of the model: operations and restarts

ASSUME XdpBlocklistAssumption ==
    /\ IsFiniteSet(Hosts)
    /\ WideOf \in [Hosts -> SUBSET Hosts]
    /\ \A h \in Hosts : h \in WideOf[h]
    /\ \A h \in Hosts : \A g \in WideOf[h] : WideOf[g] = WideOf[h]
    /\ Prefixes \subseteq {"32", "wide", "default"}
    /\ DefaultPrefix \in {"32", "wide"}
    /\ Allowlist \subseteq Hosts
    /\ Enforce \in BOOLEAN
    /\ RateLimit \in Nat /\ RateWindow \in Nat
    /\ Ttls \subseteq Nat
    /\ MaxEntries \in Nat
    /\ SweepInterval \in Nat \ {0}
    /\ BootTime \in Nat
    /\ IsFiniteSet(Tasks) /\ IsFiniteSet(Inodes)
    /\ MaxTime \in Nat /\ MaxOps \in Nat

VARIABLES
    now,        \* the wall clock
    map,        \* BLOCKLIST_V4: prefix -> expiry
    limiter,    \* RateLimiter::events
    task,       \* per task: its position in an operation, and what it carries
    sweep,      \* the keys the sweep has collected and not yet removed
    nextSweep,  \* when the sweep's ticker is next due
    fs,         \* the persistence file and its temporary sibling
    ops,        \* number of operations started
    intent,     \* history: what the operations that took effect ask for
    released,   \* history: hosts that an UNBLOCK named, and no BLOCK of them alone since
    overtaken,  \* history: keys last blocked between the two halves of a sweep for them
    approvals   \* history: when the limiter let a block through, in this process

vars == <<now, map, limiter, task, sweep, nextSweep, fs, ops, intent, released,
          overtaken, approvals>>

---------------------------------------------------------------------------
(* Prefixes, the trie and the packet program's lookup                      *)

Key(h, prefix) == IF prefix = "32" THEN {h} ELSE WideOf[h]

Keys == {Key(h, p) : h \in Hosts, p \in {"32", "wide"}}

Blocklist == UNION {[S -> Nat] : S \in SUBSET Keys}

EmptyMap == [k \in {} |-> 0]

Insert(m, k, expiry) ==
    [j \in DOMAIN m \union {k} |-> IF j = k THEN expiry ELSE m[j]]

Without(m, gone) == [k \in DOMAIN m \ gone |-> m[k]]

\* The most specific entry that covers the host.
LongestMatch(m, h) ==
    {k \in DOMAIN m : h \in k /\ \A j \in DOMAIN m : h \in j => k \subseteq j}

\* bpf_ktime_get_ns
KernelTime == now - BootTime

\* try_nsm_xdp: a packet from the host is dropped.
Drops(h) == \E k \in LongestMatch(map, h) : KernelTime < map[k]

---------------------------------------------------------------------------
(* The rate limiter                                                        *)

\* Mutant: an event is forgotten as soon as it is a full window old.
StaleEarly(t) == now - t >= RateWindow

Stale(t) == now - t > RateWindow

\* allow pops events from the front while the first one is stale: this many.
Popped ==
    CHOOSE n \in 0..Len(limiter) :
        /\ \A i \in 1..n : Stale(limiter[i])
        /\ n < Len(limiter) => ~Stale(limiter[n + 1])

Pruned == SubSeq(limiter, Popped + 1, Len(limiter))

RateOK == Len(Pruned) < RateLimit

---------------------------------------------------------------------------
(* Block and unblock                                                       *)

Idle == [pc |-> "idle", key |-> {}, ttl |-> 0, snapshot |-> EmptyMap, fd |-> {}]

\* prefix_len.unwrap_or(self.config.prefix_len)
BlockKey(h, prefix) == Key(h, IF prefix = "default" THEN DefaultPrefix ELSE prefix)

\* The allowlist holds for the operator's BLOCK too.
Protected(h, manual) == h \in Allowlist

\* block_ipv4_inner up to the limiter.  A block of an allowlisted address, or by
\* the automatic path in observe mode, changes nothing and is not a step here.
Block(t, h, prefix, ttl, manual) ==
    /\ task[t].pc = "idle"
    /\ ops < MaxOps                                          \* bound
    /\ ~Protected(h, manual)
    /\ Enforce \/ manual
    /\ ops' = ops + 1
    /\ \/ /\ RateOK
          /\ limiter' = Append(Pruned, now)
          /\ approvals' = Append(approvals, now)
          /\ task' = [task EXCEPT ![t] =
                        [Idle EXCEPT !.pc = "approved", !.key = BlockKey(h, prefix),
                                     !.ttl = ttl]]
       \/ /\ ~RateOK
          /\ limiter' = Pruned
          /\ UNCHANGED <<task, approvals>>
    /\ UNCHANGED <<now, map, sweep, nextSweep, fs, intent, released, overtaken>>

\* main.rs blocks the source of a Critical alert for xdp_block_secs.
AutoBlock(t, h, ttl) == Block(t, h, "default", ttl, FALSE)

\* The control socket's BLOCK.
ManualBlock(t, h, prefix, ttl) == Block(t, h, prefix, ttl, TRUE)

\* block_ipv4_inner's insert; a full map refuses a new key and the call fails.
BlockInsert(t) ==
    /\ task[t].pc = "approved"
    /\ LET k == task[t].key
           expiry == now + task[t].ttl
       IN  \/ /\ k \in DOMAIN map \/ Cardinality(DOMAIN map) < MaxEntries
              /\ map' = Insert(map, k, expiry)
              /\ intent' = Insert(intent, k, expiry)
              /\ released' = {h \in released : {h} # k}
              /\ overtaken' = IF k \in sweep THEN overtaken \union {k}
                              ELSE overtaken \ {k}
              /\ task' = [task EXCEPT ![t] = [Idle EXCEPT !.pc = "changed"]]
           \/ /\ k \notin DOMAIN map /\ Cardinality(DOMAIN map) >= MaxEntries
              /\ task' = [task EXCEPT ![t] = Idle]
              /\ UNCHANGED <<map, intent, released, overtaken>>
    /\ UNCHANGED <<now, limiter, sweep, nextSweep, fs, ops, approvals>>

\* prefix_len.unwrap_or(32)
UnblockKey(h, prefix) == Key(h, IF prefix = "default" THEN "32" ELSE prefix)

\* unblock_ipv4's remove; a key that is not there is no error.
Unblock(t, h, prefix) ==
    /\ task[t].pc = "idle"
    /\ ops < MaxOps                                          \* bound
    /\ ops' = ops + 1
    /\ map' = Without(map, {UnblockKey(h, prefix)})
    /\ intent' = Without(intent, {UnblockKey(h, prefix)})
    /\ released' = released \union {g \in Hosts : {g} = UnblockKey(h, prefix)}
    /\ task' = [task EXCEPT ![t] = [Idle EXCEPT !.pc = "changed"]]
    /\ UNCHANGED <<now, limiter, sweep, nextSweep, fs, overtaken, approvals>>

---------------------------------------------------------------------------
(* persist_blocklist, at the end of both                                   *)

Unused == Inodes \ (fs.path \union fs.tmp \union UNION {task[t].fd : t \in Tasks})

\* list_blocked_raw
Snapshot(t) ==
    /\ task[t].pc = "changed"
    /\ task' = [task EXCEPT ![t].pc = "listed", ![t].snapshot = map]
    /\ UNCHANGED <<now, map, limiter, sweep, nextSweep, fs, ops, intent, released,
                   overtaken, approvals>>

\* File::create on the temporary name.
CreateTmp(t) ==
    /\ task[t].pc = "listed"
    /\ \E i \in TmpInodes(fs, Unused) :
         /\ fs' = OpenTmp(fs, i, EmptyMap)
         /\ task' = [task EXCEPT ![t].pc = "created", ![t].fd = {i}]
    /\ UNCHANGED <<now, map, limiter, sweep, nextSweep, ops, intent, released,
                   overtaken, approvals>>

\* What the file's lines say when text is written over an older and longer one:
\* the older one's last lines stay, and come later.  A line cut in two is skipped
\* when the file is read (load_persisted_blocklist), so it is left out here.
Overlaid(text, older) ==
    {[k \in DOMAIN text \union tail |-> IF k \in tail THEN older[k] ELSE text[k]] :
        tail \in SUBSET DOMAIN older}

\* write_all and sync_all.
WriteTmp(t) ==
    /\ task[t].pc = "created"
    /\ \E i \in task[t].fd :
         \E text \in Overlaid(task[t].snapshot, fs.content[i]) :
            fs' = WriteInode(fs, i, text)
    /\ task' = [task EXCEPT ![t] = [Idle EXCEPT !.pc = "written"]]
    /\ UNCHANGED <<now, map, limiter, sweep, nextSweep, ops, intent, released,
                   overtaken, approvals>>

\* rename; a failure is logged and not propagated.
Rename(t) ==
    /\ task[t].pc = "written"
    /\ fs' = IF CanRename(fs) THEN RenameTmp(fs) ELSE fs
    /\ task' = [task EXCEPT ![t] = Idle]
    /\ UNCHANGED <<now, map, limiter, sweep, nextSweep, ops, intent, released,
                   overtaken, approvals>>

---------------------------------------------------------------------------
(* The sweep                                                               *)

\* Mutant: the sweep reads the clock the packet program reads.
SweptByKernelTime(expiry) == expiry <= KernelTime

\* Mutant: the sweep takes along what would expire before the next one.
SweptEarly(expiry) == expiry <= now + SweepInterval

Swept(expiry) == expiry <= now

\* The first half collects the expired keys under the lock and releases it.
SweepCollect ==
    /\ now >= nextSweep
    /\ sweep = {}
    /\ sweep' = {k \in DOMAIN map : Swept(map[k])}
    /\ nextSweep' = nextSweep + SweepInterval
    /\ UNCHANGED <<now, map, limiter, task, fs, ops, intent, released, overtaken,
                   approvals>>

\* The second half takes it again and removes what it collected.
SweepRemove ==
    /\ sweep # {}
    /\ map' = Without(map, sweep)
    /\ sweep' = {}
    /\ UNCHANGED <<now, limiter, task, nextSweep, fs, ops, intent, released,
                   overtaken, approvals>>

---------------------------------------------------------------------------
(* Restart                                                                 *)

\* What the persistence file holds; no file is an empty list.
Persisted(files) ==
    IF files.path = {} THEN EmptyMap
    ELSE files.content[CHOOSE i \in files.path : TRUE]

\* start skips the entries that have expired and inserts the others in the order
\* of the file; one that finds the map full is logged and left out.
Restored(files) ==
    LET file == Persisted(files)
        live == {k \in DOMAIN file : file[k] > now}
        kept == {K \in SUBSET live : /\ Cardinality(K) <= MaxEntries
                                     /\ K = live \/ Cardinality(K) = MaxEntries}
    IN  {[k \in K |-> file[k]] : K \in kept}

\* A write that was under way leaves some of its lines.
Interrupted ==
    {fs} \union UNION {{WriteInode(fs, i, Without(task[t].snapshot, lost)) :
                            i \in task[t].fd, lost \in SUBSET DOMAIN task[t].snapshot} :
                        t \in Tasks}

\* The process is killed and started again; the map goes with the process.
Restart ==
    /\ ops < MaxOps                                          \* bound
    /\ ops' = ops + 1
    /\ fs' \in Interrupted
    /\ map' \in Restored(fs')
    /\ intent' = map'
    /\ task' = [t \in Tasks |-> Idle]
    /\ sweep' = {}
    /\ nextSweep' = now
    /\ limiter' = <<>>
    /\ approvals' = <<>>
    /\ released' = {}
    /\ overtaken' = {}
    /\ UNCHANGED now

\* Time passes only when no sweep is due or under way: the runtime polls a ready
\* timer before a tick of this clock, a minute's fraction, is over.
Tick ==
    /\ now < MaxTime
    /\ now < nextSweep /\ sweep = {}
    /\ now' = now + 1
    /\ UNCHANGED <<map, limiter, task, sweep, nextSweep, fs, ops, intent, released,
                   overtaken, approvals>>

---------------------------------------------------------------------------
Init ==
    /\ now = BootTime
    /\ map = EmptyMap
    /\ limiter = <<>>
    /\ task = [t \in Tasks |-> Idle]
    /\ sweep = {}
    /\ nextSweep = BootTime
    /\ fs = NoFiles(Inodes, EmptyMap)
    /\ ops = 0
    /\ intent = EmptyMap
    /\ released = {}
    /\ overtaken = {}
    /\ approvals = <<>>

Next ==
    \/ \E t \in Tasks :
         \/ \E h \in Hosts, ttl \in Ttls :
              \/ AutoBlock(t, h, ttl)
              \/ \E prefix \in Prefixes : ManualBlock(t, h, prefix, ttl)
         \/ \E h \in Hosts, prefix \in Prefixes : Unblock(t, h, prefix)
         \/ BlockInsert(t)
         \/ Snapshot(t)
         \/ CreateTmp(t)
         \/ WriteTmp(t)
         \/ Rename(t)
    \/ SweepCollect
    \/ SweepRemove
    \/ Restart
    \/ Tick

Spec == Init /\ [][Next]_vars

---------------------------------------------------------------------------
(* Properties                                                              *)

Busy == {t \in Tasks : task[t].pc # "idle"}

Live(m) == {k \in DOMAIN m : m[k] > now}

\* Every variable has its type, and the limiter's events are in order.
TypeOK ==
    /\ now \in Nat /\ nextSweep \in Nat /\ ops \in 0..MaxOps
    /\ DOMAIN map \subseteq Keys /\ Cardinality(DOMAIN map) <= MaxEntries
    /\ \A k \in DOMAIN map : map[k] \in Nat
    /\ limiter \in Seq(Nat) /\ Len(limiter) <= RateLimit
    /\ \A i \in 1..(Len(limiter) - 1) : limiter[i] <= limiter[i + 1]
    /\ sweep \subseteq Keys /\ overtaken \subseteq Keys
    /\ Cardinality(fs.path) <= 1 /\ Cardinality(fs.tmp) <= 1

\* RateLimiter: within no stretch of rate_window does it let more than rate_limit
\* blocks through, automatic and manual together.
RateBound ==
    \A i \in DOMAIN approvals :
        i + RateLimit \in DOMAIN approvals
            => approvals[i + RateLimit] - approvals[i] > RateWindow

\* An allowlisted address is never dropped, whatever was blocked
\* (AutoBlockConfig::allowlist: "must NEVER be blocked, regardless of what any
\* detector says").  TLC refutes it: the allowlist is asked for the address that a block
\* names, and a wider prefix covers its neighbours too.
AllowlistedPass == \A h \in Allowlist : ~Drops(h)

\* What is left of it: the entry that drops an allowlisted address also covers one off the
\* allowlist, in the map as in whatever a restart reads back (block_ipv4_inner).
AllowlistedOnlyBeside ==
    \A h \in Allowlist :
        Drops(h) => \A k \in LongestMatch(map, h) : ~(k \subseteq Allowlist)

\* An address that an operator released is let through: BLOCK and UNBLOCK of the
\* same address without a prefix undo each other (run_control_socket gives both
\* the "default prefix 32").  TLC refutes it: BLOCK takes the configured length.
ReleasedPass == \A h \in released : ~Drops(h)

\* What is left of it: only an entry for a wider prefix drops a released address; neither
\* a sweep nor an operation of another task brings its own back (unblock_ipv4).
ReleasedOnlyByWider ==
    \A h \in released : Drops(h) => {h} \notin LongestMatch(map, h)

\* A drop is never more than one sweep interval late to end
\* (sweep_expired_blocklist): the sweep is what ends it, the packet program
\* compares the expiry with another clock.
DropsEndInTime ==
    \A h \in Hosts :
        Drops(h) => \E k \in DOMAIN map : h \in k /\ now <= map[k] + SweepInterval

\* The entries a restart at this point would lose or bring back.
Behind ==
    LET file == Persisted(fs)
    IN  {k \in Live(map) : k \notin DOMAIN file \/ file[k] # map[k]}
            \union (Live(file) \ DOMAIN intent)

\* persist_blocklist: "the file is never more than one mutation stale -- if the
\* process dies between a block and the next one, at worst that single most-recent
\* block is lost"; tasks in the middle of an operation count one each.
FileAtMostOneBehind ==
    Cardinality(Behind) <= IF Cardinality(Busy) > 1 THEN Cardinality(Busy) ELSE 1

\* An expired entry stops matching (sweep_expired_blocklist: "an expired entry
\* just stops matching, it doesn't disappear").
ExpiredStopsMatching ==
    \A h \in Hosts : Drops(h) => \E k \in Live(map) : h \in k

\* A packet is dropped only for a block that is in time; an address on the allowlist, or
\* one that an operator released, only by a prefix that covers others with it
\* (block_ipv4_inner, the control socket, the sweep and the packet program together).
DropsJustified ==
    TypeOK /\ DropsEndInTime /\ AllowlistedOnlyBeside /\ ReleasedOnlyByWider

\* A block that took effect is in the map with its expiry until it expires, is undone or
\* the process is restarted, whichever tasks and sweeps come in between.  The exception is
\* the sweep's own: a key that is blocked anew after a sweep has collected it and before
\* it removes it may be lost (sweep_expired_blocklist takes the lock twice).
BlocksLast ==
    \A k \in Live(intent) :
        \/ k \in DOMAIN map /\ map[k] = intent[k]
        \/ k \in overtaken

\* The same without the exception.  TLC refutes it.
BlocksAlwaysLast == \A k \in Live(intent) : k \in DOMAIN map

=============================================================================
