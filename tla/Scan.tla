-------------------------------- MODULE Scan --------------------------------
(***************************************************************************)
(* One scan of rust-clam: scanner-core's scan_path, scan_directory and     *)
(* scan_in_memory, the recursive scan_bytes with its five archive formats, *)
(* and archive-guard's extraction under one GuardBudget.  The recursion is *)
(* an explicit stack of open archives; `call` is the buffer scan_bytes was *)
(* last entered with.  A buffer is a sequence with one element per         *)
(* read_chunk, so an entry of n elements is n calls of charge_entry.       *)
(***************************************************************************)
EXTENDS SigEngine

CONSTANTS
    Limits,    \* the GuardLimits a scanner may be given
    Docs,      \* the files that may be scanned
    Databases  \* the signatures an engine may be built from

Containers == {"zip", "gzip", "tar", "7z", "cab"}

GuardLimits == [max_depth : Nat, max_entries : Nat, max_total_uncompressed : Nat,
                max_file_size : Nat]

ASSUME LimitsAssumption == Limits \subseteq GuardLimits

(* Node 1 is the file; members are nodes, and only a container, which is    *)
(* not empty, has any.                                                      *)
ASSUME DocsAssumption ==
    \A d \in Docs :
        /\ d.nodes \in Seq(Range(d.nodes)) /\ d.nodes # <<>>
        /\ \A n \in DOMAIN d.nodes :
              /\ d.nodes[n].data \in Seq(Nat)
              /\ d.nodes[n].members \in Seq(DOMAIN d.nodes)
              /\ d.nodes[n].members # <<>> =>
                    d.nodes[n].format \in Containers /\ d.nodes[n].data # <<>>

ASSUME DatabasesAssumption ==
    \A d \in Databases : \A p \in d.patterns :
        /\ p \in Seq(Range(p))
        /\ \A i \in DOMAIN p : IsGap(p[i]) => p[i].min \in Nat /\ p[i].max \in Nat

VARIABLES
    doc,          \* the file that is scanned
    database,     \* the signatures its engine was built from
    limits,       \* the scanner's limits
    entry,        \* the function called: "path", "directory" or "memory"
    pc,           \* "start", "scan" or "done"
    call,         \* scan_bytes' argument, or NoCall
    stack,        \* the open archives, outermost first
    budget,       \* the GuardBudget
    handed,       \* bytes handed out by the extractors so far
    reports,      \* out: the FileReports so far
    error         \* scan_path returned Err

vars == <<doc, database, limits, entry, pc, call, stack, budget, handed, reports, error>>

(***************************************************************************)
(* A document is a graph: node 1 is the file, the members of a container   *)
(* are nodes in their order, and a container may contain itself.           *)
(*   format  "plain" or one of the containers, told by its magic bytes     *)
(*   data    its bytes, those of a container never matching a signature    *)
(*   flaw    "none"; "bad": the decoder refuses the entry; "cut": reading  *)
(*           fails half way; "bomb": the declared ratio is over max_ratio; *)
(*           "irregular": a directory or a link                            *)
(*   broken  the container itself does not parse                           *)
(* Of the file itself, kind is "regular", "other" or "unreadable".         *)
(***************************************************************************)
Verdicts == {"clean", "infected", "skipped", "limit"}
NoCall == [node |-> 0, kept |-> 0]
Report(n, v) == [node |-> n, verdict |-> v]

Members(n) == doc.nodes[n].members
Data(n) == doc.nodes[n].data
Whole(c) == c.kept = Len(Data(c.node))
Buffer(c) == SubSeq(Data(c.node), 1, c.kept)
IsContainer(c) == c.kept > 0 /\ doc.nodes[c.node].format \in Containers

-----------------------------------------------------------------------------
(* GuardBudget::new, enter_archive and leave_archive. *)
NewBudget == [depth |-> 0, entries |-> 0, total |-> 0]

EnterOk(b) == b.depth + 1 <= limits.max_depth

Entered(b) == [b EXCEPT !.depth = @ + 1]
Left(b)    == [b EXCEPT !.depth = IF @ > 0 THEN @ - 1 ELSE 0]

\* Mutant: no running total.
RoomPerRead(b) == limits.max_total_uncompressed

(* Reading n chunks, each through charge_entry: how many come out, and the *)
(* budget after them.  The failing call still counts its entry, and its    *)
(* bytes too when it is the total that it crosses.                         *)
Room(b) == LET e == limits.max_entries - b.entries
               t == limits.max_total_uncompressed - b.total
               r == IF e < t THEN e ELSE t
           IN  IF r > 0 THEN r ELSE 0

Charged(b, n) ==
    LET got    == IF n <= Room(b) THEN n ELSE Room(b)
        failed == got < n
    IN  [got |-> got, failed |-> failed,
         budget |-> [b EXCEPT !.entries = @ + got + (IF failed THEN 1 ELSE 0),
                              !.total = @ + got
                                  + (IF failed /\ b.entries + got + 1 <= limits.max_entries THEN 1 ELSE 0)]]

(* How the decoder of the container presents a member. *)
PassedOver(fmt, m) ==
    \/ doc.nodes[m].flaw = "bad" /\ fmt \in {"zip", "tar", "cab"}
    \/ doc.nodes[m].flaw = "irregular" /\ fmt \in {"tar", "7z"}
Refused(fmt, m)  == doc.nodes[m].flaw = "bomb" /\ fmt = "zip"
Derailed(fmt, m) == doc.nodes[m].flaw = "bad" /\ fmt = "7z"
Readable(c, fmt, m) ==
    IF doc.nodes[m].flaw = "bad" THEN 0
    ELSE IF doc.nodes[m].flaw = "cut" \/ ~Whole(c) THEN Len(Data(m)) \div 2
    ELSE Len(Data(m))

(* One step of an extraction loop: skip the member, stop at a limit, or    *)
(* read it; what came out before a limit is kept, cut short as it is.      *)
ExtractMember(c, fmt, x, m) ==
    IF x.hit \/ x.err \/ PassedOver(fmt, m) THEN x
    ELSE IF Refused(fmt, m) THEN [x EXCEPT !.hit = TRUE]
    ELSE IF Derailed(fmt, m) THEN [x EXCEPT !.err = TRUE]
    ELSE LET r == Charged(x.budget, Readable(c, fmt, m))
         IN  [x EXCEPT !.budget = r.budget, !.hit = r.failed,
                       !.out = Append(@, [node |-> m, kept |-> r.got])]

(* extract_zip, extract_gzip, extract_tar, extract_7z and extract_cab: a   *)
(* container that does not open, or a 7z stream that fails before a limit  *)
(* is hit, is an error and yields nothing, though what was read is charged.*)
Unopenable(c) ==
    \/ doc.nodes[c.node].broken
    \/ doc.nodes[c.node].format \in {"zip", "7z"} /\ ~Whole(c)

Extract(c, b) ==
    IF Unopenable(c) THEN [budget |-> b, out |-> <<>>, hit |-> FALSE, err |-> TRUE]
    ELSE LET members == Members(c.node)
             x[i \in 0..Len(members)] ==
                 IF i = 0 THEN [budget |-> b, out |-> <<>>, hit |-> FALSE, err |-> FALSE]
                 ELSE ExtractMember(c, doc.nodes[c.node].format, x[i-1], members[i])
             last == x[Len(members)]
         IN  IF last.err THEN [last EXCEPT !.out = <<>>] ELSE last

SumKept(out) ==
    LET sum[i \in 0..Len(out)] == IF i = 0 THEN 0 ELSE sum[i-1] + out[i].kept
    IN  sum[Len(out)]

-----------------------------------------------------------------------------
Init ==
    /\ doc \in Docs
    /\ database \in {d \in Databases : LoadsNdb(d.patterns)}
    /\ limits \in Limits
    /\ entry \in {"path", "directory", "memory"}
    /\ pc = "start"
    /\ call = NoCall /\ stack = <<>> /\ budget = NewBudget /\ handed = 0
    /\ reports = <<>> /\ error = FALSE

(* stat, open or mmap fails: scan_path returns the error, scan_directory   *)
(* turns it into a report; the caller of scan_in_memory has the bytes.     *)
PathError ==
    /\ pc = "start" /\ entry # "memory" /\ doc.kind = "unreadable"
    /\ pc' = "done"
    /\ error' = (entry = "path")
    /\ reports' = IF entry = "directory" THEN <<Report(1, "limit")>> ELSE <<>>
    /\ UNCHANGED <<doc, database, limits, entry, call, stack, budget, handed>>

(* The walk of scan_directory hands over regular files only. *)
SkipPath ==
    /\ pc = "start" /\ entry # "memory" /\ doc.kind # "unreadable"
    /\ doc.kind = "other" \/ Len(Data(1)) > limits.max_file_size
    /\ pc' = "done"
    /\ reports' = IF entry = "directory" /\ doc.kind = "other"
                  THEN <<>> ELSE <<Report(1, "skipped")>>
    /\ UNCHANGED <<doc, database, limits, entry, call, stack, budget, handed, error>>

Begin ==
    /\ pc = "start"
    /\ entry # "memory" => doc.kind = "regular" /\ Len(Data(1)) <= limits.max_file_size
    /\ pc' = "scan" /\ call' = [node |-> 1, kept |-> Len(Data(1))]
    /\ UNCHANGED <<doc, database, limits, entry, stack, budget, handed, reports, error>>

(* The first part of scan_bytes: the verdict on the buffer itself. *)
Detected(c) == ScanBuffer(Engine(database.patterns, database.hashes), Buffer(c))
OwnReport(c) == Report(c.node, IF Detected(c) THEN "infected" ELSE "clean")

ScanLeaf ==
    /\ call # NoCall /\ ~IsContainer(call)
    /\ reports' = Append(reports, OwnReport(call))
    /\ call' = NoCall
    /\ UNCHANGED <<doc, database, limits, entry, pc, stack, budget, handed, error>>

(* The depth limit: the early return does not go through leave_archive. *)
RefuseArchive ==
    /\ call # NoCall /\ IsContainer(call) /\ ~EnterOk(budget)
    /\ reports' = reports \o <<OwnReport(call), Report(call.node, "limit")>>
    /\ budget' = Entered(budget)
    /\ call' = NoCall
    /\ UNCHANGED <<doc, database, limits, entry, pc, stack, handed, error>>

OpenArchive ==
    /\ call # NoCall /\ IsContainer(call) /\ EnterOk(budget)
    /\ LET x == Extract(call, Entered(budget))
       IN  /\ budget' = x.budget
           /\ handed' = handed + SumKept(x.out)
           /\ stack' = Append(stack, [node |-> call.node, todo |-> x.out, hit |-> x.hit \/ x.err])
    /\ reports' = Append(reports, OwnReport(call))
    /\ call' = NoCall
    /\ UNCHANGED <<doc, database, limits, entry, pc, error>>

NextEntry ==
    /\ call = NoCall /\ stack # <<>> /\ Last(stack).todo # <<>>
    /\ call' = Head(Last(stack).todo)
    /\ stack' = [stack EXCEPT ![Len(stack)].todo = Tail(@)]
    /\ UNCHANGED <<doc, database, limits, entry, pc, budget, handed, reports, error>>

LeaveArchive ==
    /\ call = NoCall /\ stack # <<>> /\ Last(stack).todo = <<>>
    /\ reports' = IF Last(stack).hit THEN Append(reports, Report(Last(stack).node, "limit"))
                  ELSE reports
    /\ budget' = Left(budget)
    /\ stack' = Front(stack)
    /\ UNCHANGED <<doc, database, limits, entry, pc, call, handed, error>>

Finish ==
    /\ pc = "scan" /\ call = NoCall /\ stack = <<>>
    /\ pc' = "done"
    /\ UNCHANGED <<doc, database, limits, entry, call, stack, budget, handed, reports, error>>

Next == \/ PathError \/ SkipPath \/ Begin \/ ScanLeaf \/ RefuseArchive
        \/ OpenArchive \/ NextEntry \/ LeaveArchive \/ Finish

Spec == Init /\ [][Next]_vars

-----------------------------------------------------------------------------
(* What the command line makes of the reports: its exit code. *)
Of(v) == {i \in DOMAIN reports : reports[i].verdict = v}
ExitCode == IF error THEN 2 ELSE IF Of("infected") # {} THEN 1 ELSE IF Of("limit") # {} THEN 2 ELSE 0

(* The daemon's answer to SCAN, which looks at the infected reports only. *)
DaemonSaysOk == ~error /\ Of("infected") = {}

-----------------------------------------------------------------------------
Nodes == DOMAIN doc.nodes

(* The nodes under n, itself among them, along members that pass.          *)
Under(n, Passing) ==
    LET reach[k \in 0..Cardinality(Nodes)] ==
            IF k = 0 THEN {n}
            ELSE reach[k-1] \cup (Passing \cap UNION {Range(Members(x)) : x \in reach[k-1]})
    IN  reach[Cardinality(Nodes)]

(* The members that decoders can read in full, from the file down. *)
Unflawed == {n \in Nodes : doc.nodes[n].flaw = "none"}
Sound == Under(1, Unflawed)

(* Patterns that the walk from the anchor decides exactly: a greedy search *)
(* over one gap on either side of the anchor needs no second try.          *)
Decided(p) == LET sig == Parse(p)
              IN  sig.anchorSegment <= 2 /\ Len(sig.gaps) <= sig.anchorSegment

Carries(buf) == \/ \E p \in database.patterns : Decided(p) /\ Occurs(p, buf)
                \/ HashHit(LoadHdb(database.hashes), buf)

(* A scan that found nothing and flagged nothing left no member unlooked   *)
(* at: whatever the nesting, the limits and the order of the members, exit *)
(* code 0 means that no readable member holds what a signature describes.  *)
SafeIsClean ==
    pc = "done" /\ ExitCode = 0 /\ reports # <<>> /\ Of("skipped") = {} =>
        \A n \in Sound : ~Carries(Data(n))

(* No false alarm: a member is reported infected only if its bytes hold a  *)
(* whole pattern, or are those of a digest, under the reference meaning.   *)
InfectedIsReal ==
    \A i \in Of("infected") :
        LET n == reports[i].node
        IN  \/ \E p \in database.patterns : Occurs(p, Data(n))
            \/ \E k \in 0..Len(Data(n)) : HashHit(LoadHdb(database.hashes), SubSeq(Data(n), 1, k))

(* The extractors never hand out more than max_total_uncompressed bytes    *)
(* over the whole recursion, though each charges its own reads and the     *)
(* failing read is charged as well.                                        *)
HandedOutBounded == handed <= limits.max_total_uncompressed

(* max_depth bounds the archives that are open at one time, also when an   *)
(* archive contains itself.                                                *)
NestingBounded == Len(stack) <= limits.max_depth

(* A sound member that was never scanned lies under a flagged archive: the *)
(* limit report is what tells an operator where the scan stopped.          *)
UnscannedIsFlagged ==
    pc = "done" /\ Of("skipped") = {} /\ ~error /\ reports # <<>> =>
        \A n \in Sound :
            \/ \E i \in DOMAIN reports : reports[i].node = n
            \/ \E i \in Of("limit") : n \in Under(reports[i].node, Nodes)

-----------------------------------------------------------------------------
(* An archive is refused for its depth only when that many are open: the   *)
(* test of the guard asks as much of an archive beside a closed one.       *)
DepthIsNesting == call # NoCall => budget.depth = Len(stack)

(* Exact verdicts: exit code 0 means that nothing readable is infected,    *)
(* and what is reported infected is (scan_bytes, HexSignature::verify).    *)
VerdictIsExact == SafeIsClean /\ InfectedIsReal

(* The limits bound the work, and what they cut off is flagged, whatever   *)
(* the nesting (GuardBudget, Scanner::scan_bytes).                         *)
LimitsHold == HandedOutBounded /\ NestingBounded /\ UnscannedIsFlagged
=============================================================================
