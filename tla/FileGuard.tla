----------------------------- MODULE FileGuard -----------------------------
(***************************************************************************)
(* On-access protection of one watched path: rclam-watch's monitor, the    *)
(* command line's scan with --quarantine, the quarantine store they share, *)
(* an operator who restores and deletes, and a user who keeps rewriting    *)
(* the file.  Every write has contents of its own, and the signatures know *)
(* some of them.  Programs may be killed at any step and the power may     *)
(* fail, which loses what was never synced.                                *)
(***************************************************************************)
EXTENDS Integers, FiniteSets

CONSTANTS
    MaxWrites,      \* bound: writes of the user and restores
    MaxClock,       \* bound: ticks
    Debounce,       \* WatchConfig.debounce, in ticks
    MaxEvents,      \* bound: notifications waiting in the channel
    Ids, NoId,      \* the random ids the store draws
    MaxFaults       \* bound: kills and power failures

FileGuardAssumption ==
    /\ MaxWrites \in Nat /\ MaxClock \in Nat /\ Debounce \in Nat
    /\ MaxEvents \in Nat \ {0} /\ MaxFaults \in Nat

VARIABLES
    disk,       \* the contents at the path, NoFile if there is none
    written,    \* writes and restores so far: also the newest contents
    wroteAt,    \* when the file got the contents it has
    clock,
    infected,   \* the contents the signatures know
    events,     \* notifications in the channel
    lastSeen,   \* last_seen of the path, or Never
    proc,       \* "watch" and "cli": [pc, data, id]
    payload,    \* id.quar: the contents encrypted in it, or NoFile
    meta,       \* id.json: the contents its key opens, or NoFile
    synced,     \* the records that have reached the disk
    deleting,   \* the id the operator's delete is working on, or NoId
    faults,
    \* What happened so far, for the properties:
    scanned,    \* contents that were scanned
    trigger,    \* when the monitor last took an event up, or Never
    removed,    \* contents a program removed after storing them
    erased,     \* contents removed that were not the ones stored
    deleted,    \* contents whose record the operator deleted
    lost,       \* contents whose record a power failure took
    blind       \* the monitor was down at some time

disks == <<payload, meta, synced>>
history == <<scanned, trigger, removed, erased, deleted, lost, blind>>
vars == <<disk, written, wroteAt, clock, infected, events, lastSeen, proc, disks,
          deleting, faults, history>>

NoFile == 0
Never == -1
Programs == {"watch", "cli"}
Idle == [pc |-> "idle", data |-> NoFile, id |-> NoId]
Down == [Idle EXCEPT !.pc = "down"]

Init ==
    /\ disk = NoFile /\ written = 0 /\ wroteAt = 0 /\ clock = 0
    /\ infected \in SUBSET (1..MaxWrites)
    /\ events = 0 /\ lastSeen = Never
    /\ proc = [p \in Programs |-> Idle]
    /\ payload = [i \in Ids |-> NoFile] /\ meta = [i \in Ids |-> NoFile] /\ synced = {}
    /\ deleting = NoId /\ faults = 0
    /\ scanned = {} /\ trigger = Never /\ removed = {} /\ erased = {} /\ deleted = {} /\ lost = {}
    /\ blind = FALSE

At(p, l) == proc[p].pc = l
Go(p, l) == proc' = [proc EXCEPT ![p].pc = l]
Stop(p) == proc' = [proc EXCEPT ![p] = Idle]
Fresh == {i \in Ids : payload[i] = NoFile /\ meta[i] = NoFile}

(* A write notifies once or, created and then modified, more than once. *)
Notify(n) == events' = IF At("watch", "down") THEN 0
                       ELSE IF events + n > MaxEvents THEN MaxEvents ELSE events + n

-----------------------------------------------------------------------------
Tick ==
    /\ clock < MaxClock
    /\ clock' = clock + 1
    /\ UNCHANGED <<disk, written, wroteAt, infected, events, lastSeen, proc, disks, deleting, faults, history>>

UserWrites ==
    /\ written < MaxWrites
    /\ written' = written + 1 /\ disk' = written + 1 /\ wroteAt' = clock
    /\ \E n \in 1..2 : Notify(n)
    /\ UNCHANGED <<clock, infected, lastSeen, proc, disks, deleting, faults, history>>

-----------------------------------------------------------------------------
(* handle_event: an event of a path that is gone, or seen less than the    *)
(* debounce ago, is dropped; another is noted and the path scanned.        *)
Debounced == lastSeen # Never /\ clock - lastSeen < Debounce

\* Mutant: every event, a dropped one too, restarts the debounce.
HandleEventSliding ==
    /\ At("watch", "idle") /\ events > 0
    /\ events' = events - 1
    /\ lastSeen' = clock
    /\ IF disk = NoFile \/ Debounced
       THEN UNCHANGED <<proc, trigger>>
       ELSE trigger' = clock /\ Go("watch", "settle")
    /\ UNCHANGED <<disk, written, wroteAt, clock, infected, disks, deleting, faults,
                   scanned, removed, erased, deleted, lost, blind>>

HandleEvent ==
    /\ At("watch", "idle") /\ events > 0
    /\ events' = events - 1
    /\ IF disk = NoFile \/ Debounced
       THEN UNCHANGED <<lastSeen, proc, trigger>>
       ELSE lastSeen' = clock /\ trigger' = clock /\ Go("watch", "settle")
    /\ UNCHANGED <<disk, written, wroteAt, clock, infected, disks, deleting, faults,
                   scanned, removed, erased, deleted, lost, blind>>

(* scan_and_react after its pause: one read serves the scan and the store. *)
WatchScan ==
    /\ At("watch", "settle")
    /\ IF disk = NoFile THEN Stop("watch") /\ UNCHANGED scanned
       ELSE /\ scanned' = scanned \cup {disk}
            /\ IF disk \in infected
               THEN proc' = [proc EXCEPT !["watch"] = [pc |-> "store", data |-> disk, id |-> NoId]]
               ELSE Stop("watch")
    /\ UNCHANGED <<disk, written, wroteAt, clock, infected, events, lastSeen, disks, deleting, faults,
                   trigger, removed, erased, deleted, lost, blind>>

(* rclam: the scan maps the file, quarantine_file reads it again later. *)
CliScan ==
    /\ At("cli", "idle") /\ disk \in infected
    /\ scanned' = scanned \cup {disk}
    /\ Go("cli", "read")
    /\ UNCHANGED <<disk, written, wroteAt, clock, infected, events, lastSeen, disks, deleting, faults,
                   trigger, removed, erased, deleted, lost, blind>>

CliRead ==
    /\ At("cli", "read")
    /\ IF disk = NoFile THEN Stop("cli")
       ELSE proc' = [proc EXCEPT !["cli"] = [pc |-> "store", data |-> disk, id |-> NoId]]
    /\ UNCHANGED <<disk, written, wroteAt, clock, infected, events, lastSeen, disks, deleting, faults, history>>

(* quarantine_bytes: the ciphertext under a random id, synced; then the    *)
(* record with its key.  Either write may fail and end the attempt.        *)
StorePayload(p) ==
    /\ At(p, "store")
    /\ \E i \in Fresh :
          /\ payload' = [payload EXCEPT ![i] = proc[p].data]
          /\ proc' = [proc EXCEPT ![p] = [pc |-> "record", data |-> proc[p].data, id |-> i]]
    /\ UNCHANGED <<disk, written, wroteAt, clock, infected, events, lastSeen, meta, synced,
                   deleting, faults, history>>

StoreFails(p) ==
    /\ At(p, "store") \/ At(p, "record")
    /\ Stop(p)
    /\ UNCHANGED <<disk, written, wroteAt, clock, infected, events, lastSeen, disks, deleting, faults, history>>

\* Mutant: the original goes before its record is written.
WriteRecordAfterRemove(p) ==
    /\ At(p, "record")
    /\ disk' = NoFile
    /\ removed' = IF disk = NoFile THEN removed ELSE removed \cup {disk}
    /\ Go(p, "remove")
    /\ UNCHANGED <<written, wroteAt, clock, infected, events, lastSeen, disks,
                   deleting, faults, scanned, trigger, erased, deleted, lost, blind>>

WriteRecord(p) ==
    /\ At(p, "record")
    /\ meta' = [meta EXCEPT ![proc[p].id] = proc[p].data]
    /\ Go(p, "remove")
    /\ UNCHANGED <<disk, written, wroteAt, clock, infected, events, lastSeen, payload, synced,
                   deleting, faults, history>>

(* remove_file takes whatever is at the path by now. *)
RemoveOriginal(p) ==
    /\ At(p, "remove")
    /\ disk' = NoFile
    /\ removed' = IF disk = NoFile THEN removed ELSE removed \cup {disk}
    /\ erased' = IF disk \in {NoFile, proc[p].data} THEN erased ELSE erased \cup {disk}
    /\ Stop(p)
    /\ UNCHANGED <<written, wroteAt, clock, infected, events, lastSeen, disks, deleting, faults,
                   scanned, trigger, deleted, lost, blind>>

-----------------------------------------------------------------------------
(* The operator's commands. A record that does not parse is not listed. *)
Listed == {i \in Ids : meta[i] # NoFile}
Decrypts(i) == payload[i] = meta[i]

RestoreItem(i) ==
    /\ i \in Listed /\ deleting # i /\ Decrypts(i) /\ written < MaxWrites
    /\ disk' = meta[i] /\ wroteAt' = clock /\ written' = written + 1
    /\ Notify(1)
    /\ UNCHANGED <<clock, infected, lastSeen, proc, disks, deleting, faults, history>>

DeletePayload(i) ==
    /\ i \in Listed /\ deleting = NoId
    /\ deleting' = i
    /\ payload' = [payload EXCEPT ![i] = NoFile]
    /\ deleted' = deleted \cup {meta[i]}
    /\ UNCHANGED <<disk, written, wroteAt, clock, infected, events, lastSeen, proc, meta, synced,
                   faults, scanned, trigger, removed, erased, lost, blind>>

DeleteRecord ==
    /\ deleting # NoId
    /\ meta' = [meta EXCEPT ![deleting] = NoFile]
    /\ synced' = synced \ {deleting}
    /\ deleting' = NoId
    /\ UNCHANGED <<disk, written, wroteAt, clock, infected, events, lastSeen, proc, payload,
                   faults, history>>

-----------------------------------------------------------------------------
(* The page cache writes a record out in its own time. *)
Writeback(i) ==
    /\ i \in Listed \ synced
    /\ synced' = synced \cup {i}
    /\ UNCHANGED <<disk, written, wroteAt, clock, infected, events, lastSeen, proc, payload, meta,
                   deleting, faults, history>>

Kill(p) ==
    /\ faults < MaxFaults /\ ~At(p, "down") /\ ~(p = "cli" /\ At(p, "idle"))
    /\ faults' = faults + 1
    /\ proc' = [proc EXCEPT ![p] = IF p = "watch" THEN Down ELSE Idle]
    /\ IF p = "watch" THEN events' = 0 /\ blind' = TRUE ELSE UNCHANGED <<events, blind>>
    /\ UNCHANGED <<disk, written, wroteAt, clock, infected, lastSeen, disks, deleting,
                   scanned, trigger, removed, erased, deleted, lost>>

StartWatch ==
    /\ At("watch", "down")
    /\ Stop("watch")
    /\ lastSeen' = Never
    /\ UNCHANGED <<disk, written, wroteAt, clock, infected, events, disks, deleting, faults, history>>

PowerFails ==
    /\ faults < MaxFaults
    /\ faults' = faults + 1
    /\ meta' = [i \in Ids |-> IF i \in synced THEN meta[i] ELSE NoFile]
    /\ lost' = lost \cup {meta[i] : i \in Listed \ synced}
    /\ proc' = [p \in Programs |-> IF p = "watch" THEN Down ELSE Idle]
    /\ events' = 0 /\ deleting' = NoId /\ blind' = TRUE
    /\ UNCHANGED <<disk, written, wroteAt, clock, infected, lastSeen, payload, synced,
                   scanned, trigger, removed, erased, deleted>>

Next ==
    \/ Tick \/ UserWrites \/ HandleEvent \/ WatchScan \/ CliScan \/ CliRead
    \/ \E p \in Programs : StorePayload(p) \/ StoreFails(p) \/ WriteRecord(p) \/ RemoveOriginal(p) \/ Kill(p)
    \/ \E i \in Ids : RestoreItem(i) \/ DeletePayload(i) \/ Writeback(i)
    \/ DeleteRecord \/ StartWatch \/ PowerFails

Spec == Init /\ [][Next]_vars

-----------------------------------------------------------------------------
Held(c) == \E i \in Listed : meta[i] = c /\ Decrypts(i)

(* A program that is killed never loses a file: what it removed can be     *)
(* restored from a listed record until an operator deletes it, whatever    *)
(* other programs and the user did meanwhile.  Two things are left out and *)
(* named: contents written between the read and the removal, and records   *)
(* the power failure took.                                                 *)
RemovedIsHeld == \A c \in removed : c \in erased \cup deleted \cup lost \/ Held(c)

(* With the monitor up and at rest, only contents that came within the     *)
(* debounce of the event it last took up can be unscanned.                 *)
MissedOnlyInBurst ==
    ~blind /\ At("watch", "idle") /\ events = 0 /\ disk # NoFile /\ disk \notin scanned =>
        trigger # Never /\ wroteAt - trigger < Debounce

(* "A crash or power loss mid-quarantine can never lose the file entirely":*)
(* the same with power failures.                                           *)
NeverLost == \A c \in removed \ (erased \cup deleted) : Held(c)
=============================================================================
