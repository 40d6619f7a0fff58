----------------------------- MODULE SigUpdate -----------------------------
(***************************************************************************)
(* rclam-sigupdate and the programs that read what it installs.  Updaters  *)
(* fetch a manifest and its files from a mirror, verify and stage them,    *)
(* and swap the staged directory for the live one (sig-update's run and    *)
(* apply_update); a reader (rclamd, rclam, rclam-watch) loads the live     *)
(* directory file by file when it starts.  The mirror publishes a release  *)
(* file by file; an updater may die, or its last rename fail, at any step. *)
(***************************************************************************)
EXTENDS Integers, FiniteSets

CONSTANTS
    Updaters,      \* updates that may overlap
    Files,         \* the names in every manifest
    MaxRelease,    \* bound: releases the mirror publishes
    MaxRuns,       \* bound: runs of an updater
    MaxFaults      \* bound: crashes and failed renames

SigUpdateAssumption ==
    /\ Files # {} /\ MaxRelease \in Nat /\ MaxRuns \in Nat /\ MaxFaults \in Nat

VARIABLES
    mirror,   \* [manifest, file]: the release of the manifest and of each file
    live,     \* sig_dir
    parked,   \* sig_dir.previous
    up,       \* each updater's progress
    reader,   \* the reader's progress
    runs, faults,
    crashed,  \* an updater was killed
    clash     \* a roll back put a directory back that others had met

vars == <<mirror, live, parked, up, reader, runs, faults, crashed, clash>>

(* A directory maps names to the release its file is from; a name that is *)
(* not there is Gone, and a directory that is not there is NoDir.         *)
Gone == -1
Dir == [Files -> Gone..MaxRelease]
Empty == [f \in Files |-> Gone]
NoDir == [f \in {} |-> Gone]
Release(r) == [f \in Files |-> r]
Complete(d) == \E r \in 0..MaxRelease : d = Release(r)
Exists(d) == d # NoDir

(* rename(2) onto a directory succeeds only if that one is missing or empty. *)
MayReplace(d) == d \in {NoDir, Empty}

(* opened and todo: what the directory that remove_dir_all opened is called *)
(* now, and the names it has still to unlink.  met: another update was      *)
(* under way since this one parked the live directory.                      *)
IdleUp == [pc |-> "idle", release |-> 0, staged |-> Empty, existed |-> FALSE,
           opened |-> "none", todo |-> {}, met |-> FALSE]
IdleReader == [pc |-> "idle", got |-> Empty, engine |-> NoDir]

Init ==
    /\ mirror = [manifest |-> 0, file |-> Release(0)]
    /\ live = Release(0) /\ parked = NoDir
    /\ up = [u \in Updaters |-> IdleUp]
    /\ reader = IdleReader
    /\ runs = 0 /\ faults = 0 /\ crashed = FALSE /\ clash = FALSE

At(u, p) == up[u].pc = p
Applying(u) == up[u].pc \notin {"idle", "stage"}
Go(u, p) == up' = [up EXCEPT ![u].pc = p]
Stop(u) == up' = [up EXCEPT ![u] = IdleUp]

(* An open directory keeps its files when it is renamed; the empty one that *)
(* a rename replaces, or that is removed, has none.                         *)
Renamed(from, to) ==
    [v \in Updaters |->
        [up[v] EXCEPT !.opened = IF @ = from THEN to ELSE IF @ = to THEN "none" ELSE @]]

-----------------------------------------------------------------------------
(* The mirror puts its files in place one by one, the manifest last; the   *)
(* next release starts when the last one is out.                           *)
PublishFile(f) ==
    /\ mirror.file[f] = mirror.manifest /\ mirror.manifest < MaxRelease
    /\ mirror' = [mirror EXCEPT !.file[f] = @ + 1]
    /\ UNCHANGED <<live, parked, up, reader, runs, faults, crashed, clash>>

PublishManifest ==
    /\ \A f \in Files : mirror.file[f] = mirror.manifest + 1
    /\ mirror' = [mirror EXCEPT !.manifest = @ + 1]
    /\ UNCHANGED <<live, parked, up, reader, runs, faults, crashed, clash>>

-----------------------------------------------------------------------------
(* fetch, verify_manifest_signature, parse_manifest: a manifest that does  *)
(* not arrive, verify or parse ends the run with nothing done.             *)
FetchManifest(u) ==
    /\ At(u, "idle") /\ runs < MaxRuns
    /\ runs' = runs + 1
    /\ up' = [up EXCEPT ![u] = [IdleUp EXCEPT !.pc = "stage", !.release = mirror.manifest]]
    /\ UNCHANGED <<mirror, live, parked, reader, faults, crashed, clash>>

VerifySha256(u, f) == mirror.file[f] = up[u].release

(* A file that fails verification ends the run, the staging directory goes.*)
StageFile(u, f) ==
    /\ At(u, "stage") /\ up[u].staged[f] = Gone
    /\ IF VerifySha256(u, f)
       THEN up' = [up EXCEPT ![u].staged[f] = mirror.file[f]]
       ELSE Stop(u)
    /\ UNCHANGED <<mirror, live, parked, reader, runs, faults, crashed, clash>>

(* The version file is the last one staged; apply_update looks for an old  *)
(* .previous first.                                                        *)
StartApply(u) ==
    /\ At(u, "stage") /\ \A f \in Files : up[u].staged[f] # Gone
    /\ up' = [v \in Updaters |->
                 IF v = u THEN [up[u] EXCEPT !.pc = IF Exists(parked) THEN "remove" ELSE "look"]
                 ELSE [up[v] EXCEPT !.met = @ \/ Applying(v)]]
    /\ UNCHANGED <<mirror, live, parked, reader, runs, faults, crashed, clash>>

(* remove_dir_all opens the directory, lists it, unlinks what it listed    *)
(* and removes the directory by its path; it fails if there is nothing to  *)
(* open or, in the end, something in it.  What another update removed      *)
(* first counts as removed, in the standard library from 1.83 on.          *)
OpenStale(u) ==
    /\ At(u, "remove")
    /\ IF Exists(parked)
       THEN up' = [up EXCEPT ![u].pc = "clear", ![u].opened = "previous",
                             ![u].todo = {f \in Files : parked[f] # Gone}]
       ELSE Stop(u)
    /\ UNCHANGED <<mirror, live, parked, reader, runs, faults, crashed, clash>>

Unlinked(d, name, u, f) == IF up[u].opened = name THEN [d EXCEPT ![f] = Gone] ELSE d

RemoveStaleFile(u, f) ==
    /\ At(u, "clear") /\ f \in up[u].todo
    /\ parked' = Unlinked(parked, "previous", u, f)
    /\ live' = Unlinked(live, "live", u, f)
    /\ up' = [up EXCEPT ![u].todo = @ \ {f}]
    /\ UNCHANGED <<mirror, reader, runs, faults, crashed, clash>>

RemoveStaleDir(u) ==
    /\ At(u, "clear") /\ up[u].todo = {}
    /\ IF MayReplace(parked)
       THEN /\ parked' = NoDir
            /\ up' = [Renamed("previous", "none") EXCEPT ![u].pc = "look", ![u].opened = "none"]
       ELSE UNCHANGED parked /\ Stop(u)
    /\ UNCHANGED <<mirror, live, reader, runs, faults, crashed, clash>>

LookForLive(u) ==
    /\ At(u, "look")
    /\ up' = [up EXCEPT ![u].existed = Exists(live), ![u].pc = IF Exists(live) THEN "park" ELSE "install"]
    /\ UNCHANGED <<mirror, live, parked, reader, runs, faults, crashed, clash>>

Park(u) ==
    /\ At(u, "park")
    /\ IF Exists(live) /\ MayReplace(parked)
       THEN /\ parked' = live /\ live' = NoDir
            /\ up' = [Renamed("live", "previous") EXCEPT
                         ![u].pc = "install", ![u].met = \E v \in Updaters \ {u} : Applying(v)]
       ELSE UNCHANGED <<live, parked>> /\ Stop(u)
    /\ UNCHANGED <<mirror, reader, runs, faults, crashed, clash>>

Install(u) ==
    /\ At(u, "install")
    /\ IF MayReplace(live)
       THEN live' = up[u].staged /\ up' = [Renamed("staged", "live") EXCEPT ![u] = IdleUp]
       ELSE UNCHANGED live /\ (IF up[u].existed THEN Go(u, "restore") ELSE Stop(u))
    /\ UNCHANGED <<mirror, parked, reader, runs, faults, crashed, clash>>

\* Mutant: the generation that was moved away is not put back.
RestoreNothing(u) ==
    /\ At(u, "restore")
    /\ Stop(u)
    /\ UNCHANGED <<mirror, live, parked, reader, runs, faults, crashed, clash>>

(* The roll back of a failed install, its own failure ignored. *)
Restore(u) ==
    /\ At(u, "restore")
    /\ IF Exists(parked) /\ MayReplace(live)
       THEN /\ live' = parked /\ parked' = NoDir
            /\ up' = [Renamed("previous", "live") EXCEPT ![u] = IdleUp]
            /\ clash' = (clash \/ up[u].met)
       ELSE UNCHANGED <<live, parked, clash>> /\ Stop(u)
    /\ UNCHANGED <<mirror, reader, runs, faults, crashed>>

-----------------------------------------------------------------------------
(* The rename of the staged directory fails for a reason of its own. *)
InstallFails(u) ==
    /\ At(u, "install") /\ faults < MaxFaults
    /\ faults' = faults + 1
    /\ IF up[u].existed THEN Go(u, "restore") ELSE Stop(u)
    /\ UNCHANGED <<mirror, live, parked, reader, runs, crashed, clash>>

Crash(u) ==
    /\ ~At(u, "idle") /\ faults < MaxFaults
    /\ faults' = faults + 1 /\ crashed' = TRUE
    /\ Stop(u)
    /\ UNCHANGED <<mirror, live, parked, reader, runs, clash>>

-----------------------------------------------------------------------------
(* A reader opens each file by its path in the live directory; one that is *)
(* missing, or does not parse, ends the program with an error.             *)
StartReading ==
    /\ reader.pc = "idle"
    /\ reader' = [IdleReader EXCEPT !.pc = "load"]
    /\ UNCHANGED <<mirror, live, parked, up, runs, faults, crashed, clash>>

LoadFile(f) ==
    /\ reader.pc = "load" /\ reader.got[f] = Gone
    /\ reader' = IF Exists(live) /\ live[f] # Gone
                 THEN [reader EXCEPT !.got[f] = live[f]]
                 ELSE IdleReader
    /\ UNCHANGED <<mirror, live, parked, up, runs, faults, crashed, clash>>

Build ==
    /\ reader.pc = "load" /\ \A f \in Files : reader.got[f] # Gone
    /\ reader' = [IdleReader EXCEPT !.engine = reader.got]
    /\ UNCHANGED <<mirror, live, parked, up, runs, faults, crashed, clash>>

UpdaterStep(u) ==
    \/ FetchManifest(u) \/ StartApply(u) \/ OpenStale(u) \/ RemoveStaleDir(u)
    \/ LookForLive(u) \/ Park(u) \/ Install(u) \/ Restore(u)
    \/ \E f \in Files : StageFile(u, f) \/ RemoveStaleFile(u, f)

Next ==
    \/ \E f \in Files : PublishFile(f)
    \/ PublishManifest
    \/ \E u \in Updaters : UpdaterStep(u) \/ InstallFails(u) \/ Crash(u)
    \/ StartReading \/ Build
    \/ \E f \in Files : LoadFile(f)

Spec == Init /\ [][Next]_vars

-----------------------------------------------------------------------------
(* The live directory is never a mix, an incomplete or an unverified set   *)
(* of files, with updates that overlap, releases that appear while they    *)
(* are fetched, failed renames and crashes; only a roll back that is not   *)
(* alone can put back a directory that another update is emptying.         *)
SwapIsWhole == ~clash /\ Exists(live) => Complete(live)

(* A single failure never leaves the host without signatures: a complete   *)
(* generation is live, or parked beside it, or staged by an update that is *)
(* still on its way to install it; and when every update has returned,     *)
(* failed ones among them, a complete generation is live.                  *)
GenerationLeft ==
    faults <= 1 /\ ~clash =>
        /\ \/ Complete(live) \/ Complete(parked)
           \/ \E u \in Updaters : Applying(u) /\ Complete(up[u].staged)
        /\ ~crashed /\ (\A u \in Updaters : ~Applying(u)) => Complete(live)

(* "A daemon re-reading sig_dir at any point during the swap sees either   *)
(* the complete old generation or the complete new one -- never a partial  *)
(* mix" (apply.rs): the same, whoever overlaps.                            *)
NeverPartial == Exists(live) => Complete(live)

(* What a reader loads is one generation. *)
LoadsOneGeneration == Exists(reader.engine) => Complete(reader.engine)
=============================================================================
