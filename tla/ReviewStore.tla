---------------------------- MODULE ReviewStore ----------------------------
(***************************************************************************)
(* review-queue's state file and the programs that share it: every run of  *)
(* the command line tool loads the file, performs one operation on its own *)
(* copy and saves it; siem-server loads and saves the same file around its *)
(* own run.  There is no lock on the file.  save writes <path>.json.tmp    *)
(* and renames it, so files are modelled as names of inodes: two savers    *)
(* that have the temporary file open at once write into one inode.         *)
(***************************************************************************)
EXTENDS ReviewQueueOps, TempFile

CONSTANTS
    Procs,      \* programs that may run at the same time
    Inodes,     \* enough for the two names and what is still open
    MaxCommands \* bound of the model: commands started

ASSUME ReviewStoreAssumption ==
    /\ IsFiniteSet(Procs)
    /\ IsFiniteSet(Inodes) /\ Inodes # {}
    /\ MaxCommands \in Nat

VARIABLES
    fs,         \* the state file and its temporary sibling
    proc,       \* per program: where it is, its copy of the queue, its open inode,
                \* and (history) has another saved since it loaded
    started,    \* number of commands started
    acked,      \* history: decisions of commands that reported success
    clashes     \* history: "write" when a save began during another one, "update"
                \* when a save replaced one that its program had not loaded

storeVars == <<fs, proc, started, acked, clashes>>

Empty == [kind |-> "empty", queue |-> NewQueue]
Torn == [kind |-> "torn", queue |-> NewQueue]
Full(q) == [kind |-> "full", queue |-> q]

Exited == [pc |-> "exited", queue |-> NewQueue, fd |-> {}, stale |-> FALSE]

Unused == Inodes \ (fs.path \union fs.tmp \union UNION {proc[p].fd : p \in Procs})

\* load_or_new: a new queue when there is no file; text that does not parse, or a
\* snapshot that cannot be replayed, ends the command with an error.
Load(p) ==
    /\ proc[p].pc = "exited"
    /\ started < MaxCommands                                 \* bound
    /\ started' = started + 1
    /\ \/ /\ fs.path = {}
          /\ proc' = [proc EXCEPT ![p] = [@ EXCEPT !.pc = "loaded", !.queue = NewQueue]]
       \/ \E i \in fs.path :
            /\ fs.content[i].kind = "full" /\ Loads(fs.content[i].queue)
            /\ proc' = [proc EXCEPT ![p] =
                          [@ EXCEPT !.pc = "loaded", !.queue = Rehydrate(fs.content[i].queue)]]
       \/ \E i \in fs.path :
            /\ fs.content[i].kind # "full" \/ ~Loads(fs.content[i].queue)
            /\ UNCHANGED proc
    /\ UNCHANGED <<fs, acked, clashes>>

\* The command's operation on the program's own copy.
Operate(p, q) ==
    /\ proc[p].pc = "loaded"
    /\ proc' = [proc EXCEPT ![p] = [@ EXCEPT !.pc = "operated", !.queue = q]]
    /\ UNCHANGED <<fs, started, acked, clashes>>

CmdIngest(p, f, prediction) ==
    /\ f \notin DOMAIN proc[p].queue.items
    /\ Operate(p, IngestQueue(proc[p].queue, f, prediction, 0))

CmdClaim(p, f) ==
    /\ Claimable(proc[p].queue, f)
    /\ Operate(p, ClaimQueue(proc[p].queue, f))

CmdReview(p, f, verdict) ==
    /\ Open(proc[p].queue, f)
    /\ Operate(p, ResolveQueue(proc[p].queue, f, "Human", verdict))

\* A sweep saves whatever it finds.  Time is not modelled here: any open flows may
\* be past their deadline.
CmdSweep(p, due) ==
    /\ \A f \in due : Open(proc[p].queue, f)
    /\ \E swept \in SweptQueues(proc[p].queue, due) : Operate(p, swept)

\* siem-server's own flows: what the classifier or the correlation engine says of the
\* first is settled by the gate or by the analyst of the demonstration; the second is
\* left for the sweep.  Their names carry the time, so no file holds them yet.
ServerDecided(queue, f, prediction) ==
    LET asked == IngestQueue(queue, f, prediction, 0)
    IN  IF Open(asked, f) THEN ResolveQueue(asked, f, "Human", "ExecuteContainment")
        ELSE asked

\* Its sweep is called with an SLA of no seconds and takes every open item of the
\* queue, those that other programs left in the file included.
ServerSwept(queue, g, prediction) ==
    LET asked == IngestQueue(queue, g, prediction, 0)
    IN  SweptQueues(asked, ExpiredFlows(asked, 0))

\* siem-server between its load and its save.
ServerRun(p, f, g) ==
    /\ f # g /\ {f, g} \cap DOMAIN proc[p].queue.items = {}
    /\ \E prediction, doubtful \in Predictions :
         /\ Evaluate(doubtful) # "None"
         /\ \E swept \in ServerSwept(ServerDecided(proc[p].queue, f, prediction), g, doubtful) :
              Operate(p, swept)

\* list, check and stats only load; an operation that fails ends the command too.
CmdEnd(p) ==
    /\ proc[p].pc = "loaded"
    /\ proc' = [proc EXCEPT ![p] = Exited]
    /\ UNCHANGED <<fs, started, acked, clashes>>

---------------------------------------------------------------------------
(* save                                                                    *)

\* Mutant: the state file itself is opened and truncated.
SaveTargetInPlace == IF fs.path = {} THEN TmpInodes(fs, Unused) ELSE fs.path

\* fs::write opens the temporary name.
SaveTarget == TmpInodes(fs, Unused)

\* fs::write, first half: create the file, or truncate the one that is there.
SaveOpen(p) ==
    /\ proc[p].pc = "operated"
    /\ \E i \in SaveTarget :
         /\ fs' = OpenTmp(fs, i, Empty)
         /\ proc' = [proc EXCEPT ![p] = [@ EXCEPT !.pc = "opened", !.fd = {i}]]
    /\ clashes' = clashes \union
         {"write" : q \in {q \in Procs : proc[q].pc \in {"opened", "written"}}}
    /\ UNCHANGED <<started, acked>>

\* fs::write, second half.  Over what another program wrote into the inode since,
\* a longer text leaves its tail.
SaveWrite(p) ==
    /\ proc[p].pc = "opened"
    /\ \E i \in proc[p].fd :
         \/ fs' = WriteInode(fs, i, Full(proc[p].queue))
         \/ /\ fs.content[i].kind # "empty"
            /\ fs' = WriteInode(fs, i, Torn)
    /\ proc' = [proc EXCEPT ![p] = [@ EXCEPT !.pc = "written", !.fd = {}]]
    /\ UNCHANGED <<started, acked, clashes>>

\* rename; it fails when another program renamed the temporary file first.
SaveRename(p) ==
    /\ proc[p].pc = "written"
    /\ \/ /\ CanRename(fs)
          /\ fs' = RenameTmp(fs)
          /\ acked' = acked \union proc[p].queue.decisions
          /\ clashes' = IF proc[p].stale THEN clashes \union {"update"} ELSE clashes
          /\ proc' = [q \in Procs |-> IF q = p \/ proc[q].pc = "exited" THEN Exited
                                      ELSE [proc[q] EXCEPT !.stale = TRUE]]
       \/ /\ ~CanRename(fs)
          /\ proc' = [proc EXCEPT ![p] = Exited]
          /\ UNCHANGED <<fs, acked, clashes>>
    /\ UNCHANGED started

\* The program is killed; a write under way leaves any prefix of the text.
Crash(p) ==
    /\ proc[p].pc # "exited"
    /\ proc' = [proc EXCEPT ![p] = Exited]
    /\ fs' \in {fs} \union {WriteInode(fs, i, Torn) : i \in proc[p].fd}
    /\ UNCHANGED <<started, acked, clashes>>

---------------------------------------------------------------------------
StoreInit ==
    /\ fs = NoFiles(Inodes, Empty)
    /\ proc = [p \in Procs |-> Exited]
    /\ started = 0
    /\ acked = {}
    /\ clashes = {}

StoreNext ==
    \E p \in Procs :
        \/ Load(p)
        \/ \E f \in Flows :
             \/ \E prediction \in Predictions : CmdIngest(p, f, prediction)
             \/ CmdClaim(p, f)
             \/ \E v \in Verdicts : CmdReview(p, f, v)
             \/ \E g \in Flows : ServerRun(p, f, g)
        \/ \E due \in SUBSET Flows : CmdSweep(p, due)
        \/ CmdEnd(p)
        \/ SaveOpen(p)
        \/ SaveWrite(p)
        \/ SaveRename(p)
        \/ Crash(p)

StoreSpec == StoreInit /\ [][StoreNext]_storeVars

---------------------------------------------------------------------------
(* Properties                                                              *)

\* Whoever reads the state file, at any moment and after any crash, reads a whole
\* snapshot that rehydrates (store::save: "a crash mid-write (or a concurrent
\* reader) never observes a half-written state file").
StateFileWhole ==
    \A i \in fs.path : fs.content[i].kind = "full" /\ Loads(fs.content[i].queue)

\* However the programs overlap, the file they leave never holds two decisions on
\* one flow: each program resolves an item of the copy it loaded, copies replace
\* one another and are never merged, so ContainmentExecutor::check cannot come to
\* Conflicting (record_decision, sweep_expired, store::load_or_new and save).
FileDecidedOnce ==
    \A i \in fs.path : fs.content[i].kind = "full" => DecidedOnce(fs.content[i].queue)

\* As long as no save began during another one, a crash at any step and a reader at
\* any moment find the state file whole (store::save).
WholeWithoutClash == "write" \notin clashes => StateFileWhole

\* As long as besides no save replaced one that its program had not loaded, a
\* decision whose command reported success stays in the file, through any number of
\* later commands, failed ones and crashes (store::load_or_new, save and the commands
\* of main.rs).
AckedKeptWithoutClash ==
    clashes = {} => \A d \in acked : \E i \in fs.path : d \in fs.content[i].queue.decisions
=============================================================================
