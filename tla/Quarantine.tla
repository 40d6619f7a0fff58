----------------------------- MODULE Quarantine -----------------------------
(***************************************************************************)
(* rustwall's quarantine and its copy in the host's firewall.  Packet      *)
(* workers ban sources, the admin endpoint unbans them, the maintenance    *)
(* thread sweeps; each changes the table first and then tries to enqueue a *)
(* job for the sync worker, which applies the jobs one at a time.  The     *)
(* queue is the channel of Chan, here as its users see it.                 *)
(***************************************************************************)
EXTENDS Integers, Sequences, FiniteSets

CONSTANTS
    Ips,
    Durations,       \* of bans
    MaxEntries,      \* max_entries
    QueueCapacity,   \* SYNC_QUEUE_CAPACITY
    Threads,         \* packet workers and the thread of the admin endpoint
    Fails,           \* may a job of the sync worker fail?
    MaxOps, MaxTime  \* bounds of the model: calls, the clock

ASSUME QuarantineAssumption ==
    /\ IsFiniteSet(Ips)
    /\ IsFiniteSet(Threads) /\ Threads # {}
    /\ Durations \subseteq Nat \ {0}
    /\ MaxEntries \in Nat \ {0}
    /\ QueueCapacity \in Nat \ {0}
    /\ Fails \in BOOLEAN
    /\ MaxOps \in Nat /\ MaxTime \in Nat

VARIABLES
    now,
    table,      \* per ip the expiry, 0 for none
    pc,         \* per thread: "idle", "insert" after the check, "send" before try_send
    req,        \* per thread: the job and the expiry of its call
    sweep,      \* the maintenance sweep: its clock, the ips to visit and the removed
    queue,      \* jobs of the sync worker
    worker,     \* the job it works on
    os,         \* the host's firewall: per ip when its block ends, 0 for none
    promised,   \* history: per ip the latest expiry that ban returned true for
    raced,      \* history: ips changed while another change was still to be enqueued
    lost,       \* history: ips a job of which was dropped or failed
    ops

vars == <<now, table, pc, req, sweep, queue, worker, os, promised, raced, lost, ops>>

Jobs == [kind: {"ban", "unban"}, ip: Ips, secs: Durations \union {0}]

BanJob(ip, secs) == [kind |-> "ban", ip |-> ip, secs |-> secs]
UnbanJob(ip) == [kind |-> "unban", ip |-> ip, secs |-> 0]

Tracked == {ip \in Ips : table[ip] # 0}

---------------------------------------------------------------------------
(* Quarantine                                                              *)

\* Ips with a change of the table that is not enqueued yet.
Unsent == {ip \in Ips : \/ \E t \in Threads : pc[t] = "send" /\ req[t].job.ip = ip
                        \/ ip \in sweep.removed}

\* The history of a change of the table at ip.
Changed(ip) == raced' = IF ip \in Unsent THEN raced \union {ip} ELSE raced

\* Mutant: off by one.
AdmittedLate(ip) == table[ip] # 0 \/ Cardinality(Tracked) <= MaxEntries

\* A known ip needs no room.
Admitted(ip) == table[ip] # 0 \/ Cardinality(Tracked) < MaxEntries

\* ban, up to its check of the capacity; a call that fails it returns false.
BanCheck(t, ip, secs) ==
    /\ pc[t] = "idle"
    /\ ops < MaxOps                                          \* bound
    /\ ops' = ops + 1
    /\ \/ /\ Admitted(ip)
          /\ pc' = [pc EXCEPT ![t] = "insert"]
          /\ req' = [req EXCEPT ![t] = [job |-> BanJob(ip, secs), expiry |-> now + secs]]
       \/ /\ ~Admitted(ip)
          /\ UNCHANGED <<pc, req>>
    /\ UNCHANGED <<now, table, sweep, queue, worker, os, promised, raced, lost>>

\* Mutant: the new ban replaces the old one.
ExtendedReplaces(old, new) == new

\* and_modify, or_insert: a ban is only ever extended.
Extended(old, new) == IF new > old THEN new ELSE old

\* The entry of the table is locked for this step.
BanInsert(t) ==
    LET ip == req[t].job.ip
    IN  /\ pc[t] = "insert"
        /\ table' = [table EXCEPT ![ip] = Extended(@, req[t].expiry)]
        /\ promised' = [promised EXCEPT ![ip] = IF req[t].expiry > @ THEN req[t].expiry ELSE @]
        /\ pc' = [pc EXCEPT ![t] = "send"]
        /\ Changed(ip)
        /\ UNCHANGED <<now, req, sweep, queue, worker, os, lost, ops>>

\* manual_unban of an ip that is there; otherwise it does nothing.
ManualUnban(t, ip) ==
    /\ pc[t] = "idle"
    /\ ops < MaxOps                                          \* bound
    /\ ops' = ops + 1
    /\ table[ip] # 0
    /\ table' = [table EXCEPT ![ip] = 0]
    /\ promised' = [promised EXCEPT ![ip] = 0]
    /\ pc' = [pc EXCEPT ![t] = "send"]
    /\ req' = [req EXCEPT ![t] = [job |-> UnbanJob(ip), expiry |-> 0]]
    /\ Changed(ip)
    /\ UNCHANGED <<now, sweep, queue, worker, os, lost>>

QueueRoom == Len(queue) < QueueCapacity

\* enqueue_sync: a full queue drops the job.
EnqueueSync(job) ==
    IF QueueRoom
    THEN queue' = Append(queue, job) /\ UNCHANGED lost
    ELSE lost' = lost \union {job.ip} /\ UNCHANGED queue

Send(t) ==
    /\ pc[t] = "send"
    /\ EnqueueSync(req[t].job)
    /\ pc' = [pc EXCEPT ![t] = "idle"]
    /\ UNCHANGED <<now, table, req, sweep, worker, os, promised, raced, ops>>

\* sweep_expired reads the clock,
SweepStart ==
    /\ sweep.visit = {} /\ sweep.removed = {}
    /\ Tracked # {}
    /\ sweep' = [cutoff |-> now, visit |-> Ips, removed |-> {}]
    /\ UNCHANGED <<now, table, pc, req, queue, worker, os, promised, raced, lost, ops>>

Over(expiry) == expiry <= sweep.cutoff

\* visits the entries, a shard at a time,
SweepRetain(ip) ==
    /\ ip \in sweep.visit
    /\ \/ /\ table[ip] # 0 /\ Over(table[ip])
          /\ table' = [table EXCEPT ![ip] = 0]
          /\ sweep' = [sweep EXCEPT !.visit = @ \ {ip}, !.removed = @ \union {ip}]
          /\ Changed(ip)
       \/ /\ table[ip] = 0 \/ ~Over(table[ip])
          /\ sweep' = [sweep EXCEPT !.visit = @ \ {ip}]
          /\ UNCHANGED <<table, raced>>
    /\ UNCHANGED <<now, pc, req, queue, worker, os, promised, lost, ops>>

\* Mutant: the host's firewall is left to itself.
SweepSendNothing(ip) ==
    /\ sweep.visit = {} /\ ip \in sweep.removed
    /\ sweep' = [sweep EXCEPT !.removed = @ \ {ip}]
    /\ UNCHANGED <<now, table, pc, req, queue, worker, os, promised, raced, lost, ops>>

\* and then enqueues the unbans.
SweepSend(ip) ==
    /\ sweep.visit = {} /\ ip \in sweep.removed
    /\ EnqueueSync(UnbanJob(ip))
    /\ sweep' = [sweep EXCEPT !.removed = @ \ {ip}]
    /\ UNCHANGED <<now, table, pc, req, worker, os, promised, raced, ops>>

---------------------------------------------------------------------------
(* The sync worker and the host's firewall, which is nft                   *)

Take ==
    /\ worker = <<>>
    /\ queue # <<>>
    /\ worker' = <<Head(queue)>>
    /\ queue' = Tail(queue)
    /\ UNCHANGED <<now, table, pc, req, sweep, os, promised, raced, lost, ops>>

\* When the block of ip may end after a sync_ban: nft keeps an element's timeout or
\* replaces it, depending on the kernel.
BlockEnds(ip, secs) == {now + secs} \union {end \in {os[ip]} : end > now}

\* sync_ban or sync_unban
Apply ==
    /\ worker # <<>>
    /\ worker' = <<>>
    /\ LET job == worker[1]
       IN  \E ends \in IF job.kind = "ban" THEN BlockEnds(job.ip, job.secs) ELSE {0} :
             os' = [os EXCEPT ![job.ip] = ends]
    /\ UNCHANGED <<now, table, pc, req, sweep, queue, promised, raced, lost, ops>>

\* The command fails: a warning, and on to the next job.
Fail ==
    /\ Fails
    /\ worker # <<>>
    /\ worker' = <<>>
    /\ lost' = lost \union {worker[1].ip}
    /\ UNCHANGED <<now, table, pc, req, sweep, queue, os, promised, raced, ops>>

Tick ==
    /\ now < MaxTime                                         \* bound
    /\ now' = now + 1
    /\ UNCHANGED <<table, pc, req, sweep, queue, worker, os, promised, raced, lost, ops>>

---------------------------------------------------------------------------
Init ==
    /\ now = 0
    /\ table = [ip \in Ips |-> 0]
    /\ pc = [t \in Threads |-> "idle"]
    /\ \E ip \in Ips : req = [t \in Threads |-> [job |-> UnbanJob(ip), expiry |-> 0]]
    /\ sweep = [cutoff |-> 0, visit |-> {}, removed |-> {}]
    /\ queue = <<>> /\ worker = <<>>
    /\ os = [ip \in Ips |-> 0]
    /\ promised = [ip \in Ips |-> 0]
    /\ raced = {} /\ lost = {}
    /\ ops = 0

Next ==
    \/ \E t \in Threads :
         \/ \E ip \in Ips, secs \in Durations : BanCheck(t, ip, secs)
         \/ BanInsert(t)
         \/ \E ip \in Ips : ManualUnban(t, ip)
         \/ Send(t)
    \/ SweepStart
    \/ \E ip \in Ips : SweepRetain(ip) \/ SweepSend(ip)
    \/ Take
    \/ Apply
    \/ Fail
    \/ Tick

Spec == Init /\ [][Next]_vars

---------------------------------------------------------------------------
(* Properties                                                              *)

\* Every variable has its type, and no more jobs wait than the queue has room for.
TypeOK ==
    /\ now \in Nat
    /\ table \in [Ips -> Nat]
    /\ pc \in [Threads -> {"idle", "insert", "send"}]
    /\ req \in [Threads -> [job: Jobs, expiry: Nat]]
    /\ sweep \in [cutoff: Nat, visit: SUBSET Ips, removed: SUBSET Ips]
    /\ sweep.cutoff <= now
    /\ queue \in Seq(Jobs) /\ Len(queue) <= QueueCapacity
    /\ worker \in {<<>>} \union {<<job>> : job \in Jobs}
    /\ os \in [Ips -> Nat]
    /\ promised \in [Ips -> Nat]
    /\ raced \subseteq Ips /\ lost \subseteq Ips
    /\ ops \in Nat

\* Ips that a thread has admitted and not yet inserted.
Inserting == {ip \in Ips : \E t \in Threads : pc[t] = "insert" /\ req[t].job.ip = ip}

\* The check and the insert are two steps, and an entry found by the check may be
\* swept before the insert; even so the table never outgrows its limit by more than
\* the number of threads less one (Quarantine::ban).
TableBound ==
    Cardinality(Tracked \union Inserting) <= MaxEntries + Cardinality(Threads) - 1

\* A ban that was recorded holds to its end: neither a shorter ban nor a sweep that
\* reads the clock, waits and then removes entries ends it early; only an admin
\* does (Quarantine::ban, sweep_expired).
BanHolds == \A ip \in Ips : now < promised[ip] => table[ip] >= promised[ip]

\* Nothing about ip is under way.
Quiet(ip) ==
    /\ ip \notin Unsent
    /\ \A t \in Threads : ~(pc[t] = "insert" /\ req[t].job.ip = ip)
    /\ \A i \in DOMAIN queue : queue[i].ip # ip
    /\ worker = <<>> \/ worker[1].ip # ip

Blocked(ip) == os[ip] > now

\* When no two changes of an entry overlapped, no job was lost and nothing is under
\* way, the host's firewall blocks no address that is not in the table
\* (enqueue_sync, sync_worker::spawn).
HostFollowsTable ==
    \A ip \in Ips \ (raced \union lost) : Quiet(ip) /\ Blocked(ip) => ip \in Tracked
=============================================================================
