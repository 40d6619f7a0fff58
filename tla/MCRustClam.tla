----------------------------- MODULE MCRustClam -----------------------------
(***************************************************************************)
(* Small instances for TLC of the four parts of rust-clam that meet only   *)
(* through files: one scan (Scan), on-access protection and the quarantine *)
(* (FileGuard), signature updates (SigUpdate) and the daemon's connections *)
(* (RclamDaemon).  A behaviour is one of one of them, as `part' says from  *)
(* the start; the others rest in an initial state.                         *)
(*                                                                         *)
(* Scan: files of up to four nodes, among them nested, self-containing and *)
(* damaged archives of every format, and plain files against patterns with *)
(* gaps.  FileGuard: two writes, two ids, one kill or power failure.       *)
(* SigUpdate: two updaters, two files, one release, one fault.             *)
(* RclamDaemon: two peers and three connections; one path that stays under *)
(* the root, a link that leaves it, and one that is not there.             *)
(***************************************************************************)
EXTENDS Scan, TLC

CONSTANTS MaxWrites, MaxClock, Debounce, MaxEvents, Ids, NoId, MaxFaults,
          Updaters, Files, MaxRelease, MaxRuns,
          Peers, NoPeer, Tasks, MaxAccepts, MaxTicks, MaxConnections,
          MaxConcurrent, Burst, RatePerTick, IdleEvictAfter, AllowRoots, Paths

VARIABLES part,
          disk, written, wroteAt, clock, infected, events, lastSeen, proc,
          payload, meta, synced, deleting, gfaults, scanned, trigger, removed,
          erased, deleted, lost, blind,
          mirror, live, parked, updater, reader, runs, ufaults, crashed, clash,
          up, ticks, peers, gen, task, stats, served, evicted, lonely

MCResolved == [inside |-> "root", link |-> "etc"]

G == INSTANCE FileGuard WITH faults <- gfaults
U == INSTANCE SigUpdate WITH up <- updater, faults <- ufaults
D == INSTANCE RclamDaemon WITH clock <- ticks, MaxClock <- MaxTicks, Resolved <- MCResolved

ASSUME PartsAssumption ==
    G!FileGuardAssumption /\ U!SigUpdateAssumption /\ D!DaemonAssumption

guard == <<disk, written, wroteAt, clock, infected, events, lastSeen, proc, payload, meta,
           synced, deleting, gfaults, scanned, trigger, removed, erased, deleted, lost, blind>>
update == <<mirror, live, parked, updater, reader, runs, ufaults, crashed, clash>>
daemon == <<up, ticks, peers, gen, task, stats, served, evicted, lonely>>

-----------------------------------------------------------------------------
a == Byte(1)
b == Byte(2)
Evil == <<a, b>>

MCLimits == {[max_depth |-> 2, max_entries |-> 9, max_total_uncompressed |-> 4, max_file_size |-> 4],
             [max_depth |-> 1, max_entries |-> 4, max_total_uncompressed |-> 9, max_file_size |-> 4]}

Node(f, d, m, w, x) == [format |-> f, data |-> d, members |-> m, flaw |-> w, broken |-> x]
Plain(B, W) == {Node("plain", x, <<>>, w, FALSE) : x \in B, w \in W}
Arch(F, M, W, X) == {Node(f, <<0>>, m, w, x) : f \in F, m \in M, w \in W, x \in X}
Flaws == {"none", "bad", "cut", "bomb", "irregular"}

TreeDocs ==
    {[kind |-> "regular", nodes |-> <<n1, n2, n3, n4>>] :
        n1 \in Arch(Containers, {<<2, 3>>}, {"none"}, {FALSE}),
        n2 \in Plain({<<3, 3>>}, Flaws)
                 \cup Arch({"zip", "tar", "7z"}, {<<4>>, <<2>>}, {"none", "bad"}, BOOLEAN),
        n3 \in Plain({<<1, 2>>}, {"none", "bomb"})
                 \cup Arch({"gzip", "cab"}, {<<4>>, <<3>>}, {"none", "cut"}, {FALSE}),
        n4 \in Plain({<<1, 2>>}, {"none", "cut"})}

FileDocs ==
    {[kind |-> k, nodes |-> <<n>>] :
        k \in {"regular", "other", "unreadable"},
        n \in Plain({<<>>, <<3, 1, 2, 3>>, <<3, 3, 1, 2, 3>>}, {"none"})}

ByteDocs ==
    {[kind |-> "regular", nodes |-> <<n>>] :
        n \in Plain(UNION {[1..k -> {1, 2}] : k \in 0..6}, {"none"})}

MCDocs == TreeDocs \cup FileDocs

NoHash == <<>>
EvilDb == [patterns |-> {Evil}, hashes |-> NoHash]

Gaps == {Unbounded, Bounded(1, 2), Bounded(2, 1), Bounded(0, 1)}
Patterns == {<<a, b, Wildcard, a>>, <<Wildcard, b, b>>, <<a, BadItem>>, <<a, Wildcard, b>>}
              \cup {<<a, b, g, b>> : g \in Gaps}
              \cup {<<a, g, b, b>> : g \in Gaps}
              \cup {<<g, a, a>> : g \in Gaps}
              \cup {<<a, g, a, b, h, b>> : g \in Gaps, h \in Gaps}
              \cup {<<a, a, g, b, h, a>> : g \in {Unbounded}, h \in {Bounded(1, 2)}}

ByteDbs == {[patterns |-> {p}, hashes |-> NoHash] : p \in Patterns}
             \cup {[patterns |-> {}, hashes |-> <<<<<<1, 2, 1>>, AnySize>>, <<<<2, 2>>, 3>>>>]}

MCAllDocs == MCDocs \cup ByteDocs
MCDatabases == ByteDbs \cup {EvilDb}

-----------------------------------------------------------------------------
ScanInit == \/ doc \in MCDocs /\ database = EvilDb /\ Init
            \/ doc \in ByteDocs /\ entry = "memory" /\ Init

AtRest == /\ doc = [kind |-> "other", nodes |-> <<Node("plain", <<>>, <<>>, "none", FALSE)>>]
          /\ entry = "memory" /\ database = EvilDb
          /\ Init /\ limits.max_depth = 1

MCInit == /\ part \in {"scan", "guard", "update", "daemon"}
          /\ IF part = "scan" THEN ScanInit ELSE AtRest
          /\ G!Init /\ (part # "guard" => infected = {})
          /\ U!Init /\ D!Init

MCNext == \/ part = "scan" /\ Next /\ UNCHANGED <<part, guard, update, daemon>>
          \/ part = "guard" /\ G!Next /\ UNCHANGED <<part, vars, update, daemon>>
          \/ part = "update" /\ U!Next /\ UNCHANGED <<part, vars, guard, daemon>>
          \/ part = "daemon" /\ D!Next /\ UNCHANGED <<part, vars, guard, update>>

MCSpec == MCInit /\ [][MCNext]_<<part, vars, guard, update, daemon>>

\* Ids and peers are only ever compared.
Exchange == Permutations(Ids) \cup Permutations(Peers)

-----------------------------------------------------------------------------
\* FileGuard: what a program removed from the path can be restored from a listed
\* record, whatever kills happen between quarantine_bytes and remove_file.
RemovedIsHeld == G!RemovedIsHeld

\* FileGuard: with the monitor at rest, only contents that came within the
\* debounce of the event it last took up are unscanned (handle_event).
MissedOnlyInBurst == G!MissedOnlyInBurst

\* SigUpdate: the live directory is never a mix of releases or incomplete, with
\* overlapping updaters and crashes, and one failure never leaves the host without a
\* complete generation (apply_update and its roll back).
SwapIsAtomic == U!SwapIsWhole /\ U!GenerationLeft

\* RclamDaemon: tasks checked together overdraw a bucket by less than their
\* number (admit's two critical sections).
OverdraftBounded == D!OverdraftBounded

\* RclamDaemon: a connection is turned away as busy only with two peers inside, and
\* every connection ends in exactly one counter (PeerLimits::admit, the global
\* semaphore, Metrics).
AdmissionIsFair == D!BusyMeansShared /\ D!MetricsAddUp
=============================================================================
