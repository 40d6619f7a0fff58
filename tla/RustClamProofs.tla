--------------------------- MODULE RustClamProofs ---------------------------
(***************************************************************************)
(* Proofs for rust-clam.  Three of its parts share state between programs: *)
(* on-access protection and the quarantine (FileGuard), updates of the     *)
(* signatures (SigUpdate), and the connections of the daemon               *)
(* (RclamDaemon).  Each has its inductive invariant (GuardInv and          *)
(* BurstInv, UpdateInv, DaemonInv) with one lemma per step, and theorems   *)
(* about the composition in MCRustClam for all values of its constants.    *)
(* The fourth, a single scan, is sequential and computes over data: what   *)
(* its recursive functions return is proved by induction first (the        *)
(* engine, what lies under a node, one extraction), then ScanInv is shown  *)
(* to hold of every scan of every file by every accepted database.         *)
(***************************************************************************)
EXTENDS MCRustClam, FiniteSetTheorems, SequenceTheorems, WellFoundedInduction, TLAPS

(***************************************************************************)
(* On-access protection.  A program that is about to write a record holds  *)
(* an id of its own under which its payload lies (Recording); one that is  *)
(* about to remove the original has its contents in a listed record        *)
(* (Stored); a record that is being deleted was listed (Deleting).         *)
(***************************************************************************)
GuardSteps == {"idle", "down", "settle", "read", "store", "record", "remove"}

GuardTypes ==
  /\ disk \in Nat /\ written \in Nat
  /\ proc \in [G!Programs -> [pc : GuardSteps, data : Nat, id : Ids \cup {NoId}]]
  /\ payload \in [Ids -> Nat] /\ meta \in [Ids -> Nat]
  /\ deleting \in Ids \cup {NoId}

Kept(c) == c \in deleted \cup lost \/ G!Held(c)

Loaded == \A p \in G!Programs :
  proc[p].pc \in {"store", "record", "remove"} => proc[p].data # G!NoFile

Recording == \A p \in G!Programs :
  G!At(p, "record") => /\ proc[p].id \in Ids
                     /\ payload[proc[p].id] = proc[p].data
                     /\ meta[proc[p].id] = G!NoFile
                     /\ \A q \in G!Programs \ {p} : G!At(q, "record") => proc[q].id # proc[p].id

Stored == \A p \in G!Programs : G!At(p, "remove") => Kept(proc[p].data)

Deleting == deleting # NoId => meta[deleting] # G!NoFile /\ meta[deleting] \in deleted

GuardInv == GuardTypes /\ Loaded /\ Recording /\ Stored /\ Deleting /\ G!RemovedIsHeld

LEMMA GuardInvInit ==
  ASSUME G!Init
  PROVE  GuardInv
BY DEF G!Init, GuardInv, GuardTypes, Loaded, Recording, Stored, Deleting, G!RemovedIsHeld,
       G!Programs, G!Idle, G!At, G!NoFile, GuardSteps

(***************************************************************************)
(* No step takes a held content from its record unless it lists it as      *)
(* deleted or lost.                                                        *)
(***************************************************************************)
LEMMA KeptStays ==
  ASSUME GuardInv, [G!Next]_(G!vars), NEW c, Kept(c)
  PROVE  Kept(c)'
<1>1. deleted \subseteq deleted' /\ lost \subseteq lost'
  BY DEF G!Next, G!vars, G!disks, G!history, G!Tick, G!UserWrites, G!HandleEvent, G!WatchScan, G!CliScan,
         G!CliRead, G!StorePayload, G!StoreFails, G!WriteRecord, G!RemoveOriginal, G!Kill,
         G!RestoreItem, G!DeletePayload, G!Writeback, G!DeleteRecord, G!StartWatch, G!PowerFails
<1>2. CASE c \in deleted \cup lost
  BY <1>1, <1>2 DEF Kept
<1>3. CASE G!Held(c)
  <2>1. PICK i \in Ids : meta[i] # G!NoFile /\ meta[i] = c /\ payload[i] = meta[i]
    BY <1>3 DEF G!Held, G!Listed, G!Decrypts
  <2>2. SUFFICES (meta'[i] = meta[i] /\ payload'[i] = payload[i]) \/ c \in deleted' \cup lost'
    BY <2>1 DEF Kept, G!Held, G!Listed, G!Decrypts
  <2>3. CASE UNCHANGED <<payload, meta>>
    BY <2>3
  <2>4. ASSUME NEW p \in G!Programs, G!StorePayload(p)
        PROVE  meta'[i] = meta[i] /\ payload'[i] = payload[i]
    <3>1. PICK j \in G!Fresh : payload' = [payload EXCEPT ![j] = proc[p].data]
      BY <2>4 DEF G!StorePayload
    <3> QED
      BY <2>1, <2>4, <3>1 DEF G!Fresh, G!StorePayload, GuardInv, GuardTypes
  <2>5. ASSUME NEW p \in G!Programs, G!WriteRecord(p)
        PROVE  meta'[i] = meta[i] /\ payload'[i] = payload[i]
    BY <2>1, <2>5 DEF G!WriteRecord, GuardInv, GuardTypes, Recording
  <2>6. ASSUME NEW j \in Ids, G!DeletePayload(j)
        PROVE  (meta'[i] = meta[i] /\ payload'[i] = payload[i]) \/ c \in deleted'
    BY <2>1, <2>6 DEF G!DeletePayload, GuardInv, GuardTypes
  <2>7. CASE G!DeleteRecord
    BY <2>1, <2>7 DEF G!DeleteRecord, G!history, GuardInv, GuardTypes, Deleting
  <2>8. CASE G!PowerFails
    BY <2>1, <2>8 DEF G!PowerFails, G!Listed, GuardInv, GuardTypes
  <2>9. \/ UNCHANGED <<payload, meta>>
        \/ \E p \in G!Programs : G!StorePayload(p) \/ G!WriteRecord(p)
        \/ \E j \in Ids : G!DeletePayload(j)
        \/ G!DeleteRecord \/ G!PowerFails
    BY DEF G!Next, G!vars, G!disks, G!Tick, G!UserWrites, G!HandleEvent, G!WatchScan, G!CliScan,
           G!CliRead, G!StoreFails, G!RemoveOriginal, G!Kill, G!RestoreItem, G!Writeback, G!StartWatch
  <2> QED
    BY <2>3, <2>4, <2>5, <2>6, <2>7, <2>8, <2>9
<1> QED
  BY <1>2, <1>3 DEF Kept

LEMMA GuardTypesStep ==
  ASSUME GuardInv, [G!Next]_(G!vars)
  PROVE  GuardTypes'
<1> USE DEF GuardInv, GuardTypes, GuardSteps
<1>1. CASE G!Tick
  BY <1>1 DEF G!Tick, G!disks
<1>2. CASE G!UserWrites
  BY <1>2 DEF G!UserWrites, G!disks
<1>3. CASE G!HandleEvent
  BY <1>3 DEF G!HandleEvent, G!disks, G!Go, G!Programs
<1>4. CASE G!WatchScan
  BY <1>4 DEF G!WatchScan, G!disks, G!Stop, G!Idle, G!NoFile, G!Programs
<1>5. CASE G!CliScan
  BY <1>5 DEF G!CliScan, G!disks, G!Go, G!Programs
<1>6. CASE G!CliRead
  BY <1>6 DEF G!CliRead, G!disks, G!Stop, G!Idle, G!NoFile, G!Programs
<1>7. ASSUME NEW p \in G!Programs, G!StorePayload(p) PROVE GuardTypes'
  <2>1. PICK i \in G!Fresh :
          /\ payload' = [payload EXCEPT ![i] = proc[p].data]
          /\ proc' = [proc EXCEPT ![p] = [pc |-> "record", data |-> proc[p].data, id |-> i]]
    BY <1>7 DEF G!StorePayload
  <2>2. i \in Ids
    BY DEF G!Fresh
  <2> QED
    BY <1>7, <2>1, <2>2 DEF G!StorePayload
<1>8. ASSUME NEW p \in G!Programs, G!StoreFails(p) PROVE GuardTypes'
  BY <1>8 DEF G!StoreFails, G!disks, G!Stop, G!Idle, G!NoFile
<1>9. ASSUME NEW p \in G!Programs, G!WriteRecord(p) PROVE GuardTypes'
  BY <1>9 DEF G!WriteRecord, G!Go
<1>10. ASSUME NEW p \in G!Programs, G!RemoveOriginal(p) PROVE GuardTypes'
  BY <1>10 DEF G!RemoveOriginal, G!disks, G!Stop, G!Idle, G!NoFile
<1>11. ASSUME NEW p \in G!Programs, G!Kill(p) PROVE GuardTypes'
  BY <1>11 DEF G!Kill, G!disks, G!Idle, G!Down, G!NoFile
<1>12. ASSUME NEW i \in Ids, G!RestoreItem(i) PROVE GuardTypes'
  BY <1>12 DEF G!RestoreItem, G!disks
<1>13. ASSUME NEW i \in Ids, G!DeletePayload(i) PROVE GuardTypes'
  BY <1>13 DEF G!DeletePayload, G!NoFile
<1>14. ASSUME NEW i \in Ids, G!Writeback(i) PROVE GuardTypes'
  BY <1>14 DEF G!Writeback
<1>15. CASE G!DeleteRecord
  BY <1>15 DEF G!DeleteRecord, G!NoFile
<1>16. CASE G!StartWatch
  BY <1>16 DEF G!StartWatch, G!disks, G!Stop, G!Idle, G!NoFile, G!Programs
<1>17. CASE G!PowerFails
  BY <1>17 DEF G!PowerFails, G!Idle, G!Down, G!NoFile
<1>18. CASE UNCHANGED G!vars
  BY <1>18 DEF G!vars, G!disks
<1> QED
  BY <1>1, <1>2, <1>3, <1>4, <1>5, <1>6, <1>7, <1>8, <1>9, <1>10, <1>11, <1>12, <1>13,
     <1>14, <1>15, <1>16, <1>17, <1>18 DEF G!Next

(***************************************************************************)
(* The parts of the invariant beside the types, action by action.          *)
(***************************************************************************)
LEMMA GuardInvStep ==
  ASSUME GuardInv, [G!Next]_(G!vars)
  PROVE  GuardInv'
<1>1. GuardTypes'
  BY GuardTypesStep
<1>2. \A c : Kept(c) => Kept(c)'
  BY KeptStays
<1>3. Deleting'
  <2> USE DEF GuardInv, GuardTypes, Deleting
  <2>1. CASE UNCHANGED <<meta, deleting>> /\ deleted \subseteq deleted'
    BY <2>1
  <2>2. ASSUME NEW p \in G!Programs, G!WriteRecord(p) PROVE Deleting'
    BY <2>2 DEF G!WriteRecord, Recording, G!history
  <2>3. ASSUME NEW i \in Ids, G!DeletePayload(i) PROVE Deleting'
    BY <2>3 DEF G!DeletePayload, G!Listed
  <2>4. CASE G!DeleteRecord \/ G!PowerFails
    BY <2>4 DEF G!DeleteRecord, G!PowerFails
  <2>5. \/ UNCHANGED <<meta, deleting>> /\ deleted \subseteq deleted'
        \/ \E p \in G!Programs : G!WriteRecord(p)
        \/ \E i \in Ids : G!DeletePayload(i)
        \/ G!DeleteRecord \/ G!PowerFails
    BY DEF G!Next, G!vars, G!disks, G!history, G!Tick, G!UserWrites, G!HandleEvent, G!WatchScan, G!CliScan,
           G!CliRead, G!StorePayload, G!StoreFails, G!RemoveOriginal, G!Kill, G!RestoreItem, G!Writeback,
           G!StartWatch
  <2> QED
    BY <2>1, <2>2, <2>3, <2>4, <2>5
<1>4. G!RemovedIsHeld'
  <2>1. erased \subseteq erased'
    BY DEF G!Next, G!vars, G!disks, G!history, G!Tick, G!UserWrites, G!HandleEvent, G!WatchScan, G!CliScan,
           G!CliRead, G!StorePayload, G!StoreFails, G!WriteRecord, G!RemoveOriginal, G!Kill,
           G!RestoreItem, G!DeletePayload, G!Writeback, G!DeleteRecord, G!StartWatch, G!PowerFails
  <2>2. \A c \in removed' : c \in removed \/ c \in erased' \/ Kept(c)
    <3>1. ASSUME NEW p \in G!Programs, G!RemoveOriginal(p), NEW c \in removed'
          PROVE  c \in removed \/ c \in erased' \/ Kept(c)
      <4>1. c \in removed \/ (c = disk /\ disk # G!NoFile)
        BY <3>1 DEF G!RemoveOriginal
      <4>2. c = disk /\ disk # G!NoFile => c \in erased' \/ c = proc[p].data
        BY <3>1 DEF G!RemoveOriginal
      <4>3. Kept(proc[p].data)
        BY <3>1 DEF G!RemoveOriginal, GuardInv, Stored
      <4> QED
        BY <4>1, <4>2, <4>3
    <3>2. removed' = removed \/ \E p \in G!Programs : G!RemoveOriginal(p)
      BY DEF G!Next, G!vars, G!disks, G!history, G!Tick, G!UserWrites, G!HandleEvent, G!WatchScan, G!CliScan,
             G!CliRead, G!StorePayload, G!StoreFails, G!WriteRecord, G!Kill, G!RestoreItem,
             G!DeletePayload, G!Writeback, G!DeleteRecord, G!StartWatch, G!PowerFails
    <3> QED
      BY <3>1, <3>2
  <2>3. \A c \in removed : c \in erased \/ Kept(c)
    BY DEF GuardInv, G!RemovedIsHeld, Kept
  <2>4. \A c \in removed' : c \in erased' \/ Kept(c)'
    BY <1>2, <2>1, <2>2, <2>3
  <2> QED
    BY <2>4 DEF G!RemovedIsHeld, Kept
<1>5. (Loaded /\ Recording /\ Stored)'
  <2> DEFINE Harmless(p) == \/ proc'[p] = proc[p]
                            \/ proc'[p].pc \in {"idle", "down", "settle", "read"}
                            \/ proc'[p].pc = "store" /\ proc'[p].data # G!NoFile
  <2> USE DEF GuardInv, GuardTypes, G!Programs, G!At
  <2>1. ASSUME UNCHANGED <<payload, meta>>, \A p \in G!Programs : Harmless(p)
        PROVE  (Loaded /\ Recording /\ Stored)'
    <3>1. Loaded'
      BY <2>1 DEF Loaded
    <3>2. Recording'
      BY <2>1 DEF Recording
    <3>3. Stored'
      BY <2>1, <1>2 DEF Stored
    <3> QED
      BY <3>1, <3>2, <3>3
  <2>2. ASSUME NEW p \in G!Programs, G!StorePayload(p)
        PROVE  (Loaded /\ Recording /\ Stored)'
    <3>1. PICK i \in G!Fresh :
            /\ payload' = [payload EXCEPT ![i] = proc[p].data]
            /\ proc' = [proc EXCEPT ![p] = [pc |-> "record", data |-> proc[p].data, id |-> i]]
      BY <2>2 DEF G!StorePayload
    <3>2. i \in Ids /\ payload[i] = G!NoFile /\ meta[i] = G!NoFile
      BY DEF G!Fresh
    <3>4. proc[p].data # G!NoFile /\ UNCHANGED meta
      BY <2>2 DEF G!StorePayload, Loaded
    <3>5. Loaded'
      BY <3>1, <3>4 DEF Loaded
    <3>6. \A q \in G!Programs \ {p} :
            /\ proc'[q] = proc[q]
            /\ G!At(q, "record") => proc[q].id # i /\ payload'[proc[q].id] = proc[q].data
      BY <3>1, <3>2 DEF Recording, Loaded
    <3>7. Recording'
      BY <3>1, <3>2, <3>4, <3>6 DEF Recording
    <3>8. Stored'
      BY <3>1, <3>6, <1>2 DEF Stored
    <3> QED
      BY <3>5, <3>7, <3>8
  <2>3. ASSUME NEW p \in G!Programs, G!WriteRecord(p)
        PROVE  (Loaded /\ Recording /\ Stored)'
    <3>1. PICK i \in Ids : i = proc[p].id
      BY <2>3 DEF G!WriteRecord, Recording
    <3>2. /\ payload[i] = proc[p].data /\ meta[i] = G!NoFile
          /\ proc[p].data # G!NoFile /\ UNCHANGED payload
          /\ \A q \in G!Programs \ {p} : G!At(q, "record") => proc[q].id # i
      BY <2>3, <3>1 DEF G!WriteRecord, Recording, Loaded
    <3>3. meta' = [meta EXCEPT ![i] = proc[p].data]
      BY <2>3, <3>1 DEF G!WriteRecord
    <3>4. /\ proc'[p].pc = "remove" /\ proc'[p].data = proc[p].data
          /\ \A q \in G!Programs \ {p} : proc'[q] = proc[q]
      BY <2>3 DEF G!WriteRecord, G!Go
    <3>5. Loaded'
      BY <3>2, <3>4 DEF Loaded
    <3>6. Recording'
      BY <3>2, <3>3, <3>4 DEF Recording
    <3>7. meta'[i] = proc[p].data /\ payload'[i] = proc[p].data
      BY <3>2, <3>3
    <3>8. Kept(proc[p].data)'
      BY <3>2, <3>4, <3>7 DEF Kept, G!Held, G!Listed, G!Decrypts
    <3>9. Stored'
      BY <3>4, <3>8, <1>2 DEF Stored
    <3> QED
      BY <3>5, <3>6, <3>9
  <2>4. ASSUME NEW i \in Ids, G!DeletePayload(i)
        PROVE  (Loaded /\ Recording /\ Stored)'
    <3>1. UNCHANGED <<proc, meta>> /\ meta[i] # G!NoFile
      BY <2>4 DEF G!DeletePayload, G!Listed
    <3>2. payload' = [payload EXCEPT ![i] = G!NoFile]
      BY <2>4 DEF G!DeletePayload
    <3>3. Loaded' /\ Recording'
      BY <3>1, <3>2 DEF Loaded, Recording
    <3>4. Stored'
      BY <3>1, <1>2 DEF Stored
    <3> QED
      BY <3>3, <3>4
  <2>5. CASE G!DeleteRecord
    <3>1. UNCHANGED <<proc, payload>> /\ meta' = [meta EXCEPT ![deleting] = G!NoFile]
      BY <2>5 DEF G!DeleteRecord
    <3>2. Loaded' /\ Recording'
      BY <3>1 DEF Loaded, Recording
    <3>3. Stored'
      BY <3>1, <1>2 DEF Stored
    <3> QED
      BY <3>2, <3>3
  <2>6. CASE G!PowerFails
    <3>1. \A p \in G!Programs : proc'[p].pc \in {"idle", "down"}
      BY <2>6 DEF G!PowerFails, G!Idle, G!Down
    <3> QED
      BY <3>1 DEF Loaded, Recording, Stored
  <2>7. \/ UNCHANGED <<payload, meta>> /\ \A p \in G!Programs : Harmless(p)
        \/ \E p \in G!Programs : G!StorePayload(p) \/ G!WriteRecord(p)
        \/ \E i \in Ids : G!DeletePayload(i)
        \/ G!DeleteRecord \/ G!PowerFails
    <3>1. CASE G!Tick \/ G!UserWrites \/ (\E i \in Ids : G!RestoreItem(i) \/ G!Writeback(i))
               \/ UNCHANGED G!vars
      BY <3>1 DEF G!Tick, G!UserWrites, G!RestoreItem, G!Writeback, G!vars, G!disks
    <3>2. CASE G!HandleEvent
      BY <3>2 DEF G!HandleEvent, G!Go, G!disks
    <3>3. CASE G!WatchScan
      BY <3>3 DEF G!WatchScan, G!Stop, G!Idle, G!disks
    <3>4. CASE G!CliScan
      BY <3>4 DEF G!CliScan, G!Go, G!disks
    <3>5. CASE G!CliRead
      BY <3>5 DEF G!CliRead, G!Stop, G!Idle, G!disks
    <3>6. ASSUME NEW p \in G!Programs, G!StoreFails(p) \/ G!RemoveOriginal(p)
          PROVE  UNCHANGED <<payload, meta>> /\ \A q \in G!Programs : Harmless(q)
      BY <3>6 DEF G!StoreFails, G!RemoveOriginal, G!Stop, G!Idle, G!disks
    <3>7. ASSUME NEW p \in G!Programs, G!Kill(p)
          PROVE  UNCHANGED <<payload, meta>> /\ \A q \in G!Programs : Harmless(q)
      BY <3>7 DEF G!Kill, G!Idle, G!Down, G!disks
    <3>8. CASE G!StartWatch
      BY <3>8 DEF G!StartWatch, G!Stop, G!Idle, G!disks
    <3> QED
      BY <3>1, <3>2, <3>3, <3>4, <3>5, <3>6, <3>7, <3>8 DEF G!Next
  <2> QED
    BY <2>1, <2>2, <2>3, <2>4, <2>5, <2>6, <2>7
<1> QED
  BY <1>1, <1>3, <1>4, <1>5 DEF GuardInv

(***************************************************************************)
(* The monitor: while it was never down, contents that were not scanned    *)
(* have an event in the channel, or a scan about to read them, or came     *)
(* within the debounce of the last event that was taken up.                *)
(***************************************************************************)
Clocks ==
  /\ clock \in Nat /\ wroteAt \in Nat /\ wroteAt <= clock /\ events \in Nat
  /\ trigger \in Nat \cup {-1} /\ lastSeen \in Nat \cup {-1}

Watching == ~blind => proc["watch"].pc # "down" /\ lastSeen = trigger

InBurst == trigger # -1 /\ wroteAt - trigger < Debounce

Noticed == ~blind /\ disk # G!NoFile /\ disk \notin scanned =>
  events > 0 \/ proc["watch"].pc = "settle" \/ InBurst

BurstInv == Clocks /\ Watching /\ Noticed

LEMMA BurstInvInit ==
  ASSUME G!Init
  PROVE  BurstInv
BY DEF G!Init, BurstInv, Clocks, Watching, Noticed, InBurst, G!NoFile, G!Never, G!Programs, G!Idle

LEMMA BurstInvStep ==
  ASSUME GuardInv, BurstInv, [G!Next]_(G!vars)
  PROVE  BurstInv'
<1>0. /\ MaxEvents \in Nat /\ MaxEvents # 0 /\ Debounce \in Nat
      /\ proc \in [G!Programs -> [pc : GuardSteps, data : Nat, id : Ids \cup {NoId}]]
  BY PartsAssumption DEF G!FileGuardAssumption, GuardInv, GuardTypes
<1> USE <1>0 DEF BurstInv, Clocks, Watching, Noticed, InBurst, G!NoFile, G!Never, G!Programs, G!At
<1>1. CASE G!Tick
  BY <1>1 DEF G!Tick, G!history
<1>2. ASSUME NEW n \in Nat \ {0}, G!Notify(n), UNCHANGED <<proc, blind, trigger, lastSeen>>,
             wroteAt' = clock, clock' = clock
      PROVE  BurstInv'
  BY <1>2 DEF G!Notify
<1>3. CASE G!UserWrites
  BY <1>2, <1>3 DEF G!UserWrites, G!history
<1>4. CASE G!HandleEvent
  BY <1>4 DEF G!HandleEvent, G!Debounced, G!Go
<1>5. CASE G!WatchScan
  BY <1>5 DEF G!WatchScan, G!Stop, G!Idle
<1>6. CASE G!CliScan
  BY <1>6 DEF G!CliScan, G!Go
<1>7. CASE G!CliRead
  BY <1>7 DEF G!CliRead, G!Stop, G!history
<1>8. ASSUME NEW p \in G!Programs, G!StorePayload(p) PROVE BurstInv'
  BY <1>8 DEF G!StorePayload, G!history
<1>9. ASSUME NEW p \in G!Programs, G!StoreFails(p) PROVE BurstInv'
  BY <1>9 DEF G!StoreFails, G!history, G!Stop, G!Idle
<1>10. ASSUME NEW p \in G!Programs, G!WriteRecord(p) PROVE BurstInv'
  BY <1>10 DEF G!WriteRecord, G!history, G!Go
<1>11. ASSUME NEW p \in G!Programs, G!RemoveOriginal(p) PROVE BurstInv'
  BY <1>11 DEF G!RemoveOriginal, G!Stop, G!Idle
<1>12. ASSUME NEW p \in G!Programs, G!Kill(p) PROVE BurstInv'
  BY <1>12 DEF G!Kill, G!Idle
<1>13. ASSUME NEW i \in Ids, G!RestoreItem(i) PROVE BurstInv'
  BY <1>2, <1>13 DEF G!RestoreItem, G!history
<1>14. ASSUME NEW i \in Ids, G!DeletePayload(i) PROVE BurstInv'
  BY <1>14 DEF G!DeletePayload
<1>15. ASSUME NEW i \in Ids, G!Writeback(i) PROVE BurstInv'
  BY <1>15 DEF G!Writeback, G!history
<1>16. CASE G!DeleteRecord
  BY <1>16 DEF G!DeleteRecord, G!history
<1>17. CASE G!StartWatch
  BY <1>17 DEF G!StartWatch, G!history
<1>18. CASE G!PowerFails
  BY <1>18 DEF G!PowerFails
<1>19. CASE UNCHANGED G!vars
  BY <1>19 DEF G!vars, G!history
<1> QED
  BY <1>1, <1>3, <1>4, <1>5, <1>6, <1>7, <1>8, <1>9, <1>10, <1>11, <1>12, <1>13, <1>14,
     <1>15, <1>16, <1>17, <1>18, <1>19 DEF G!Next

(***************************************************************************)
(* Signature updates.  Everything is said of behaviours in which no roll   *)
(* back has put back a directory that others had met (~clash).  The live   *)
(* directory is then complete or missing (LiveWhole); nobody has it open   *)
(* for removal (NobodyInLive), and whoever has .previous open still lists  *)
(* all that is in it (Listing); an update that was alone since it parked   *)
(* finds what it parked (AloneKeeps).  While the live directory is missing *)
(* an update is on its way to install one, and before the first fault a    *)
(* second one is too unless the parked generation is complete (Carried).   *)
(***************************************************************************)
UpPcs == {"idle", "stage", "remove", "clear", "look", "park", "install", "restore"}

UpRecords == [pc : UpPcs, release : 0..MaxRelease, staged : U!Dir, existed : BOOLEAN,
              opened : {"none", "previous", "live"}, todo : SUBSET Files, met : BOOLEAN]

UpdateTypes ==
  /\ mirror \in [manifest : 0..MaxRelease, file : [Files -> 0..MaxRelease]]
  /\ live \in U!Dir \cup {U!NoDir} /\ parked \in U!Dir \cup {U!NoDir}
  /\ updater \in [Updaters -> UpRecords]
  /\ ufaults \in Nat /\ crashed \in BOOLEAN /\ clash \in BOOLEAN

Staging == \A u \in Updaters :
  /\ updater[u].pc = "stage" =>
       \A f \in Files : updater[u].staged[f] \in {U!Gone, updater[u].release}
  /\ U!Applying(u) => updater[u].staged = U!Release(updater[u].release)

Stages == \A u \in Updaters :
  /\ updater[u].opened # "none" => updater[u].pc = "clear"
  /\ updater[u].pc \in {"park", "restore"} => updater[u].existed

LiveWhole == live # U!NoDir => U!Complete(live)

NobodyInLive == \A u \in Updaters : updater[u].opened # "live"

Listing == \A u \in Updaters : updater[u].opened = "previous" =>
  parked # U!NoDir /\ \A f \in Files : parked[f] # U!Gone => f \in updater[u].todo

AloneKeeps == \A u \in Updaters :
  updater[u].pc \in {"install", "restore"} /\ updater[u].existed /\ ~updater[u].met =>
    U!Complete(parked) /\ \A v \in Updaters \ {u} : ~U!Applying(v)

Carrier(v) == \/ updater[v].pc = "clear" /\ updater[v].opened = "previous"
              \/ updater[v].pc \in {"look", "install"}

Carried ==
  /\ ufaults = 0 /\ live = U!NoDir =>
       \E u \in Updaters :
          /\ updater[u].pc = "install" /\ updater[u].existed
          /\ U!Complete(parked) \/ \E v \in Updaters \ {u} : Carrier(v)
  /\ ufaults = 1 /\ live = U!NoDir =>
       \/ \E v \in Updaters : Carrier(v)
       \/ U!Complete(parked) /\ (crashed \/ \E u \in Updaters : updater[u].pc = "restore")

SwapInv == LiveWhole /\ NobodyInLive /\ Listing /\ AloneKeeps /\ Carried

UpdateInv == UpdateTypes /\ Staging /\ Stages /\ (~clash => SwapInv)

LEMMA UpdateConstants ==
  Files # {} /\ MaxRelease \in Nat
BY PartsAssumption DEF U!SigUpdateAssumption

LEMMA DirFacts ==
  /\ U!NoDir \notin U!Dir /\ U!Empty \in U!Dir
  /\ \A d : U!Complete(d) => d \in U!Dir /\ d # U!Empty /\ d # U!NoDir
  /\ \A r \in 0..MaxRelease : U!Release(r) \in U!Dir /\ U!Complete(U!Release(r))
<1>1. PICK f : f \in Files
  BY UpdateConstants
<1>2. U!Gone = -1
  BY DEF U!Gone
<1>3. U!Empty \in U!Dir
  BY <1>2, UpdateConstants DEF U!Empty, U!Dir
<1>4. U!NoDir \notin U!Dir
  <2>1. DOMAIN U!NoDir = {}
    BY DEF U!NoDir
  <2> QED
    BY <1>1, <2>1 DEF U!Dir
<1>5. \A r \in 0..MaxRelease : U!Release(r) \in U!Dir /\ U!Release(r) # U!Empty
  BY <1>1, <1>2, UpdateConstants DEF U!Release, U!Dir, U!Empty
<1> QED
  BY <1>3, <1>4, <1>5 DEF U!Complete

LEMMA UpdateInvInit ==
  ASSUME U!Init
  PROVE  UpdateInv
<1>1. 0 \in 0..MaxRelease /\ U!Release(0) \in U!Dir /\ U!Complete(U!Release(0))
  BY UpdateConstants, DirFacts
<1>2. PICK r \in UpRecords : r = U!IdleUp
  BY <1>1, DirFacts DEF U!IdleUp, UpRecords, UpPcs
<1>3. r.pc = "idle" /\ r.opened = "none"
  BY <1>2 DEF U!IdleUp
<1>4. /\ mirror = [manifest |-> 0, file |-> U!Release(0)]
      /\ live = U!Release(0) /\ parked = U!NoDir /\ updater = [u \in Updaters |-> r]
      /\ ufaults = 0 /\ crashed = FALSE /\ clash = FALSE
  BY <1>2 DEF U!Init
<1>5. U!Release(0) \in [Files -> 0..MaxRelease]
  BY <1>1 DEF U!Release
<1>6. UpdateTypes
  BY <1>1, <1>4, <1>5 DEF UpdateTypes
<1>7. Staging /\ Stages
  BY <1>3, <1>4 DEF Staging, Stages, U!Applying
<1>8. LiveWhole /\ NobodyInLive /\ Listing /\ AloneKeeps
  BY <1>1, <1>3, <1>4 DEF LiveWhole, NobodyInLive, Listing, AloneKeeps
<1>9. Carried
  BY <1>1, <1>4, DirFacts DEF Carried
<1> QED
  BY <1>6, <1>7, <1>8, <1>9 DEF UpdateInv, SwapInv

(* A step that changes the record of one update, and no directory that is  *)
(* open.                                                                   *)
LEMMA OneUpdate ==
  ASSUME UpdateTypes, NEW u \in Updaters, NEW r \in UpRecords,
         updater' = [updater EXCEPT ![u] = r]
  PROVE  /\ updater' \in [Updaters -> UpRecords] /\ updater'[u] = r
         /\ \A v \in Updaters \ {u} : updater'[v] = updater[v]
BY DEF UpdateTypes

LEMMA StopRecord ==
  /\ U!IdleUp \in UpRecords /\ U!IdleUp.pc = "idle" /\ U!IdleUp.opened = "none"
<1>1. 0 \in 0..MaxRelease
  BY UpdateConstants
<1> QED
  BY <1>1, DirFacts DEF U!IdleUp, UpRecords, UpPcs

LEMMA GoRecord ==
  ASSUME NEW r \in UpRecords, NEW l \in UpPcs
  PROVE  /\ [r EXCEPT !.pc = l] \in UpRecords
         /\ [r EXCEPT !.pc = l].pc = l
         /\ [r EXCEPT !.pc = l].release = r.release /\ [r EXCEPT !.pc = l].staged = r.staged
         /\ [r EXCEPT !.pc = l].existed = r.existed /\ [r EXCEPT !.pc = l].opened = r.opened
         /\ [r EXCEPT !.pc = l].todo = r.todo /\ [r EXCEPT !.pc = l].met = r.met
BY DEF UpRecords

(***************************************************************************)
(* A step of one update that touches no directory: enough to keep SwapInv. *)
(***************************************************************************)
Applies(r) == r.pc \notin {"idle", "stage"}
Carrying(r) == \/ r.pc = "clear" /\ r.opened = "previous"
               \/ r.pc \in {"look", "install"}

Harmless(u, r) ==
  /\ updater' = [updater EXCEPT ![u] = r]
  /\ UNCHANGED <<live, parked, ufaults, crashed, clash>>
  /\ r.opened # "live"
  /\ r.opened = "previous" =>
       parked # U!NoDir /\ \A f \in Files : parked[f] # U!Gone => f \in r.todo
  /\ Applies(r) => Applies(updater[u])
  /\ r.pc \in {"install", "restore"} /\ r.existed /\ ~r.met =>
       updater[u].pc \in {"install", "restore"} /\ updater[u].existed /\ ~updater[u].met
  /\ ~clash /\ live = U!NoDir =>
       /\ Carrying(updater[u]) => Carrying(r)
       /\ updater[u].pc = "install" /\ updater[u].existed => r.pc = "install" /\ r.existed
       /\ updater[u].pc = "restore" /\ U!Complete(parked) => r.pc = "restore"

LEMMA HarmlessStep ==
  ASSUME UpdateTypes, NEW u \in Updaters, NEW r \in UpRecords, Harmless(u, r), ~clash => SwapInv
  PROVE  (~clash => SwapInv)'
<1> SUFFICES ASSUME ~clash PROVE SwapInv'
  BY DEF Harmless
<1>1. /\ updater'[u] = r /\ \A v \in Updaters \ {u} : updater'[v] = updater[v]
      /\ UNCHANGED <<live, parked, ufaults, crashed>>
  BY OneUpdate DEF Harmless
<1>2. LiveWhole'
  BY <1>1 DEF SwapInv, LiveWhole
<1>3. NobodyInLive'
  BY <1>1 DEF SwapInv, NobodyInLive, Harmless
<1>4. Listing'
  BY <1>1 DEF SwapInv, Listing, Harmless
<1>5. AloneKeeps'
  <2>1. \A v \in Updaters : U!Applying(v)' => U!Applying(v)
    BY <1>1 DEF Harmless, Applies, U!Applying
  <2> SUFFICES ASSUME NEW w \in Updaters, updater'[w].pc \in {"install", "restore"},
                      updater'[w].existed, ~updater'[w].met
               PROVE  U!Complete(parked) /\ \A v \in Updaters \ {w} : ~U!Applying(v)'
    BY <1>1 DEF AloneKeeps
  <2>2. updater[w].pc \in {"install", "restore"} /\ updater[w].existed /\ ~updater[w].met
    BY <1>1 DEF Harmless
  <2> QED
    BY <2>1, <2>2 DEF SwapInv, AloneKeeps
<1>6. Carried'
  <2>1. live = U!NoDir => \A v \in Updaters : Carrier(v) => Carrier(v)'
    BY <1>1 DEF Harmless, Carrying, Carrier
  <2>2. ASSUME ufaults = 0, live = U!NoDir
        PROVE  \E w \in Updaters :
                 /\ updater'[w].pc = "install" /\ updater'[w].existed
                 /\ U!Complete(parked) \/ \E v \in Updaters \ {w} : Carrier(v)'
    <3>1. PICK w \in Updaters :
                 /\ updater[w].pc = "install" /\ updater[w].existed
                 /\ U!Complete(parked) \/ \E v \in Updaters \ {w} : Carrier(v)
      BY <2>2 DEF SwapInv, Carried
    <3>2. updater'[w].pc = "install" /\ updater'[w].existed
      BY <1>1, <2>2, <3>1 DEF Harmless
    <3> QED
      BY <2>1, <2>2, <3>1, <3>2
  <2>3. ASSUME ufaults = 1, live = U!NoDir
        PROVE  \/ \E v \in Updaters : Carrier(v)'
               \/ U!Complete(parked) /\ (crashed \/ \E w \in Updaters : updater'[w].pc = "restore")
    <3>1. \/ \E v \in Updaters : Carrier(v)
          \/ U!Complete(parked) /\ (crashed \/ \E w \in Updaters : updater[w].pc = "restore")
      BY <2>3 DEF SwapInv, Carried
    <3>2. U!Complete(parked) => \A w \in Updaters : updater[w].pc = "restore" => updater'[w].pc = "restore"
      BY <1>1, <2>3 DEF Harmless
    <3> QED
      BY <2>1, <2>3, <3>1, <3>2
  <2> QED
    BY <1>1, <2>2, <2>3 DEF Carried
<1> QED
  BY <1>2, <1>3, <1>4, <1>5, <1>6 DEF SwapInv

(* Staging and Stages speak of one record each. *)
Sound1(r) ==
  /\ r.pc = "stage" => \A f \in Files : r.staged[f] \in {U!Gone, r.release}
  /\ Applies(r) => r.staged = U!Release(r.release)
  /\ r.opened # "none" => r.pc = "clear"
  /\ r.pc \in {"park", "restore"} => r.existed

LEMMA RecordsSound == (Staging /\ Stages) <=> \A u \in Updaters : Sound1(updater[u])
BY DEF Staging, Stages, Sound1, Applies, U!Applying

LEMMA RecordsSoundNext == (Staging /\ Stages)' <=> \A u \in Updaters : Sound1(updater'[u])
BY DEF Staging, Stages, Sound1, Applies, U!Applying

(* The two together, for a step that touches no directory. *)
LEMMA HarmlessInv ==
  ASSUME UpdateInv, NEW u \in Updaters, NEW r \in UpRecords, Harmless(u, r), Sound1(r),
         mirror' \in [manifest : 0..MaxRelease, file : [Files -> 0..MaxRelease]]
  PROVE  UpdateInv'
<1>1. /\ updater' \in [Updaters -> UpRecords] /\ updater'[u] = r
      /\ \A v \in Updaters \ {u} : updater'[v] = updater[v]
  BY OneUpdate DEF Harmless, UpdateInv
<1>2. UpdateTypes'
  BY <1>1 DEF UpdateInv, UpdateTypes, Harmless
<1>3. (Staging /\ Stages)'
  BY <1>1, RecordsSound, RecordsSoundNext DEF UpdateInv
<1>4. (~clash => SwapInv)'
  BY HarmlessStep DEF UpdateInv
<1> QED
  BY <1>2, <1>3, <1>4 DEF UpdateInv

(* An update that ends, and nobody counted on it. *)
LEMMA StopInv ==
  ASSUME UpdateInv, NEW u \in Updaters, U!Stop(u),
         UNCHANGED <<mirror, live, parked, ufaults, crashed, clash>>,
         ~clash /\ live = U!NoDir => /\ ~Carrying(updater[u])
                                     /\ updater[u].pc = "restore" => ~U!Complete(parked)
  PROVE  UpdateInv'
<1>1. PICK r \in UpRecords : r = U!IdleUp
  BY StopRecord
<1>2. r.pc = "idle" /\ r.opened = "none"
  BY <1>1, StopRecord
<1>3. Harmless(u, r)
  BY <1>1, <1>2 DEF U!Stop, Harmless, Applies, Carrying
<1>4. Sound1(r)
  BY <1>2 DEF Sound1, Applies
<1>5. mirror' \in [manifest : 0..MaxRelease, file : [Files -> 0..MaxRelease]]
  BY DEF UpdateInv, UpdateTypes
<1> QED
  BY <1>3, <1>4, <1>5, HarmlessInv

(* Steps of the mirror and of the reader. *)
LEMMA ElsewhereInv ==
  ASSUME UpdateInv, UNCHANGED <<live, parked, updater, ufaults, crashed, clash>>,
         mirror' \in [manifest : 0..MaxRelease, file : [Files -> 0..MaxRelease]]
  PROVE  UpdateInv'
<1>1. UpdateTypes'
  BY DEF UpdateInv, UpdateTypes
<1>2. (Staging /\ Stages)'
  BY RecordsSound, RecordsSoundNext DEF UpdateInv
<1>3. (~clash => SwapInv)'
  BY DEF UpdateInv, SwapInv, LiveWhole, NobodyInLive, Listing, AloneKeeps, Carried, Carrier, U!Applying
<1> QED
  BY <1>1, <1>2, <1>3 DEF UpdateInv

LEMMA MirrorInv ==
  ASSUME UpdateInv, (\E f \in Files : U!PublishFile(f)) \/ U!PublishManifest
  PROVE  UpdateInv'
<1> DEFINE F == [Files -> 0..MaxRelease]
           M == [manifest : 0..MaxRelease, file : F]
<1>1. /\ mirror \in M /\ MaxRelease \in Nat
      /\ mirror.manifest \in 0..MaxRelease /\ mirror.file \in F
  BY UpdateConstants DEF UpdateInv, UpdateTypes
<1>2. ASSUME NEW f \in Files, U!PublishFile(f) PROVE mirror' \in M
  <2>1. PICK h \in F : h = [mirror.file EXCEPT ![f] = mirror.file[f] + 1]
    BY <1>1, <1>2 DEF U!PublishFile
  <2>2. mirror' = [mirror EXCEPT !.file = h]
    BY <1>1, <1>2, <2>1 DEF U!PublishFile
  <2> QED
    BY <1>1, <2>2
<1>3. ASSUME U!PublishManifest PROVE mirror' \in M
  <2>1. PICK f \in Files : TRUE
    BY UpdateConstants
  <2>2. mirror.manifest + 1 = mirror.file[f]
    BY <1>3, <2>1 DEF U!PublishManifest
  <2>3. PICK m \in 0..MaxRelease : m = mirror.manifest + 1
    BY <1>1, <2>1, <2>2
  <2>4. mirror' = [mirror EXCEPT !.manifest = m]
    BY <1>1, <1>3, <2>3 DEF U!PublishManifest
  <2> HIDE DEF F
  <2> QED
    BY <1>1, <2>4
<1> HIDE DEF M
<1>4. mirror' \in M
  BY <1>2, <1>3
<1> USE DEF M
<1>5. UNCHANGED <<live, parked, updater, ufaults, crashed, clash>>
  BY DEF U!PublishFile, U!PublishManifest
<1> QED
  BY <1>4, <1>5, ElsewhereInv

LEMMA FetchInv ==
  ASSUME UpdateInv, NEW u \in Updaters, U!FetchManifest(u)
  PROVE  UpdateInv'
<1>1. mirror.manifest \in 0..MaxRelease
  BY DEF UpdateInv, UpdateTypes
<1>2. PICK r \in UpRecords : r = [U!IdleUp EXCEPT !.pc = "stage", !.release = mirror.manifest]
  BY <1>1, StopRecord DEF UpRecords, UpPcs
<1>3. r.pc = "stage" /\ r.opened = "none" /\ r.staged = U!Empty
  BY <1>2 DEF U!IdleUp
<1>4. /\ updater[u].pc = "idle" /\ updater' = [updater EXCEPT ![u] = r]
      /\ UNCHANGED <<mirror, live, parked, ufaults, crashed, clash>>
  BY <1>2 DEF U!FetchManifest, U!At
<1>5. Harmless(u, r)
  BY <1>3, <1>4 DEF Harmless, Applies, Carrying
<1>6. Sound1(r)
  BY <1>3 DEF Sound1, Applies, U!Empty
<1>7. mirror' \in [manifest : 0..MaxRelease, file : [Files -> 0..MaxRelease]]
  BY <1>4 DEF UpdateInv, UpdateTypes
<1> QED
  BY <1>5, <1>6, <1>7, HarmlessInv

LEMMA StageInv ==
  ASSUME UpdateInv, NEW u \in Updaters, NEW f \in Files, U!StageFile(u, f)
  PROVE  UpdateInv'
<1>1. updater[u].pc = "stage" /\ UNCHANGED <<mirror, live, parked, ufaults, crashed, clash>>
  BY DEF U!StageFile, U!At
<1>2. CASE U!VerifySha256(u, f)
  <2>1. /\ updater' = [updater EXCEPT ![u].staged[f] = mirror.file[f]]
        /\ mirror.file[f] = updater[u].release
    BY <1>2 DEF U!StageFile, U!VerifySha256
  <2>2. updater[u] \in UpRecords /\ updater[u].staged \in U!Dir /\ mirror.file[f] \in 0..MaxRelease
    BY DEF UpdateInv, UpdateTypes, UpRecords
  <2>3. PICK s \in U!Dir : s = [updater[u].staged EXCEPT ![f] = mirror.file[f]]
    <3>1. mirror.file[f] \in U!Gone..MaxRelease
      BY <2>2, UpdateConstants DEF U!Gone
    <3> QED
      BY <2>2, <3>1 DEF U!Dir
  <2>4. PICK r \in UpRecords : r = [updater[u] EXCEPT !.staged = s]
    BY <2>2 DEF UpRecords
  <2>5. /\ r.pc = "stage" /\ r.staged = s /\ r.opened = updater[u].opened
        /\ r.release = updater[u].release /\ r.todo = updater[u].todo
        /\ updater' = [updater EXCEPT ![u] = r]
    BY <1>1, <2>1, <2>2, <2>3, <2>4 DEF UpRecords, UpdateInv, UpdateTypes
  <2>6. updater[u].opened = "none" /\ \A g \in Files : updater[u].staged[g] \in {U!Gone, updater[u].release}
    BY <1>1 DEF UpdateInv, Staging, Stages
  <2>7. Harmless(u, r)
    BY <1>1, <2>5, <2>6 DEF Harmless, Applies, Carrying
  <2>8. Sound1(r)
    BY <2>1, <2>2, <2>3, <2>5, <2>6 DEF Sound1, Applies, U!Dir
  <2>9. mirror' \in [manifest : 0..MaxRelease, file : [Files -> 0..MaxRelease]]
    BY <1>1 DEF UpdateInv, UpdateTypes
  <2> QED
    BY <2>7, <2>8, <2>9, HarmlessInv
<1>3. CASE ~U!VerifySha256(u, f)
  <2>1. U!Stop(u)
    BY <1>3 DEF U!StageFile
  <2> QED
    BY <1>1, <2>1, StopInv DEF Carrying
<1> QED
  BY <1>2, <1>3

LEMMA StartApplyInv ==
  ASSUME UpdateInv, NEW u \in Updaters, U!StartApply(u)
  PROVE  UpdateInv'
<1>1. /\ updater[u].pc = "stage" /\ \A f \in Files : updater[u].staged[f] # U!Gone
      /\ UNCHANGED <<mirror, live, parked, ufaults, crashed, clash>>
  BY DEF U!StartApply, U!At
<1>2. PICK l \in {"remove", "look"} : l = IF U!Exists(parked) THEN "remove" ELSE "look"
  OBVIOUS
<1>3. updater' = [v \in Updaters |->
                    IF v = u THEN [updater[u] EXCEPT !.pc = l]
                    ELSE [updater[v] EXCEPT !.met = @ \/ U!Applying(v)]]
  BY <1>2 DEF U!StartApply
<1>4. \A v \in Updaters : updater[v] \in UpRecords
  BY DEF UpdateInv, UpdateTypes
<1>5. /\ updater'[u] \in UpRecords
      /\ updater'[u].pc = l /\ updater'[u].opened = updater[u].opened
      /\ updater'[u].release = updater[u].release /\ updater'[u].staged = updater[u].staged
  <2>1. updater'[u] = [updater[u] EXCEPT !.pc = l]
    BY <1>3
  <2>2. PICK r \in UpRecords : r = updater[u]
    BY <1>4
  <2>3. l \in UpPcs
    BY DEF UpPcs
  <2> QED
    BY <2>1, <2>2, <2>3, GoRecord
<1>6. \A v \in Updaters \ {u} :
        /\ updater'[v] \in UpRecords
        /\ updater'[v].pc = updater[v].pc /\ updater'[v].opened = updater[v].opened
        /\ updater'[v].release = updater[v].release /\ updater'[v].staged = updater[v].staged
        /\ updater'[v].todo = updater[v].todo /\ updater'[v].existed = updater[v].existed
        /\ Applies(updater[v]) => updater'[v].met
  BY <1>3, <1>4 DEF UpRecords, Applies, U!Applying
<1>7. UpdateTypes'
  <2>1. updater' \in [Updaters -> UpRecords]
    BY <1>3, <1>5, <1>6
  <2> QED
    BY <1>1, <2>1 DEF UpdateInv, UpdateTypes
<1>8. Sound1(updater'[u])
  <2>1. \A f \in Files : updater[u].staged[f] = updater[u].release
    BY <1>1 DEF UpdateInv, Staging
  <2>2. updater[u].staged = U!Release(updater[u].release)
    BY <1>4, <2>1 DEF U!Release, UpRecords, U!Dir
  <2>3. updater[u].opened = "none"
    BY <1>1 DEF UpdateInv, Stages
  <2> QED
    BY <1>2, <1>5, <2>2, <2>3 DEF Sound1, Applies
<1>9. (Staging /\ Stages)'
  <2>1. \A v \in Updaters \ {u} : Sound1(updater[v])
    BY RecordsSound DEF UpdateInv
  <2>2. \A v \in Updaters \ {u} : Sound1(updater'[v])
    BY <1>6, <2>1 DEF Sound1, Applies
  <2> QED
    BY <1>8, <2>2, RecordsSoundNext
<1>10. ASSUME ~clash PROVE SwapInv'
  <2>1. updater[u].opened = "none" /\ SwapInv
    BY <1>1, <1>10 DEF UpdateInv, Stages
  <2>2. LiveWhole' /\ NobodyInLive' /\ Listing'
    BY <1>1, <1>5, <1>6, <2>1 DEF SwapInv, LiveWhole, NobodyInLive, Listing
  <2>3. AloneKeeps'
    BY <1>2, <1>5, <1>6 DEF AloneKeeps, Applies
  <2>4. Carried'
    BY <1>1, <1>2, <1>5, <1>6, <2>1 DEF SwapInv, Carried, Carrier
  <2> QED
    BY <2>2, <2>3, <2>4 DEF SwapInv
<1> QED
  BY <1>1, <1>7, <1>9, <1>10 DEF UpdateInv

LEMMA OpenStaleInv ==
  ASSUME UpdateInv, NEW u \in Updaters, U!OpenStale(u)
  PROVE  UpdateInv'
<1>1. updater[u].pc = "remove" /\ UNCHANGED <<mirror, live, parked, ufaults, crashed, clash>>
  BY DEF U!OpenStale, U!At
<1>2. CASE U!Exists(parked)
  <2>1. updater[u] \in UpRecords
    BY DEF UpdateInv, UpdateTypes
  <2>2. PICK T \in SUBSET Files : T = {f \in Files : parked[f] # U!Gone}
    OBVIOUS
  <2>3. PICK r \in UpRecords : r = [updater[u] EXCEPT !.pc = "clear", !.opened = "previous", !.todo = T]
    BY <2>1 DEF UpRecords, UpPcs
  <2>4. /\ r.pc = "clear" /\ r.opened = "previous" /\ r.todo = T
        /\ r.staged = updater[u].staged /\ r.release = updater[u].release
        /\ updater' = [updater EXCEPT ![u] = r]
    BY <1>2, <2>1, <2>2, <2>3 DEF U!OpenStale, UpRecords, UpdateInv, UpdateTypes
  <2>5. Harmless(u, r)
    BY <1>1, <1>2, <2>2, <2>4 DEF Harmless, Applies, Carrying, U!Exists
  <2>6. Sound1(r)
    BY <1>1, <2>4 DEF Sound1, Applies, UpdateInv, Staging, U!Applying
  <2>7. mirror' \in [manifest : 0..MaxRelease, file : [Files -> 0..MaxRelease]]
    BY <1>1 DEF UpdateInv, UpdateTypes
  <2> QED
    BY <2>5, <2>6, <2>7, HarmlessInv
<1>3. CASE ~U!Exists(parked)
  <2>1. U!Stop(u)
    BY <1>3 DEF U!OpenStale
  <2> QED
    BY <1>1, <2>1, StopInv DEF Carrying
<1> QED
  BY <1>2, <1>3

(* Unlinking a name leaves a directory a directory. *)
LEMMA UnlinkedDir ==
  ASSUME NEW d \in U!Dir \cup {U!NoDir}, NEW f \in Files
  PROVE  [d EXCEPT ![f] = U!Gone] \in U!Dir \cup {U!NoDir}
<1>1. CASE d \in U!Dir
  <2>1. U!Gone \in U!Gone..MaxRelease
    BY UpdateConstants DEF U!Gone
  <2> QED
    BY <1>1, <2>1 DEF U!Dir
<1>2. CASE d = U!NoDir
  BY <1>2 DEF U!NoDir
<1> QED
  BY <1>1, <1>2

LEMMA RemoveStaleFileInv ==
  ASSUME UpdateInv, NEW u \in Updaters, NEW f \in Files, U!RemoveStaleFile(u, f)
  PROVE  UpdateInv'
<1>1. /\ updater[u].pc = "clear" /\ f \in updater[u].todo
      /\ UNCHANGED <<mirror, ufaults, crashed, clash>>
      /\ parked' = IF updater[u].opened = "previous" THEN [parked EXCEPT ![f] = U!Gone] ELSE parked
      /\ live' = IF updater[u].opened = "live" THEN [live EXCEPT ![f] = U!Gone] ELSE live
  BY DEF U!RemoveStaleFile, U!At, U!Unlinked
<1>2. updater[u] \in UpRecords
  BY DEF UpdateInv, UpdateTypes
<1>3. PICK r \in UpRecords : r = [updater[u] EXCEPT !.todo = @ \ {f}]
  BY <1>2 DEF UpRecords
<1>4. /\ r.pc = "clear" /\ r.opened = updater[u].opened /\ r.todo = updater[u].todo \ {f}
      /\ r.staged = updater[u].staged /\ r.release = updater[u].release
      /\ updater' = [updater EXCEPT ![u] = r]
  BY <1>1, <1>2, <1>3 DEF U!RemoveStaleFile, UpRecords, UpdateInv, UpdateTypes
<1>5. /\ updater' \in [Updaters -> UpRecords] /\ updater'[u] = r
      /\ \A v \in Updaters \ {u} : updater'[v] = updater[v]
  BY <1>4, OneUpdate DEF UpdateInv
<1>6. UpdateTypes'
  BY <1>1, <1>5, UnlinkedDir DEF UpdateInv, UpdateTypes
<1>7. (Staging /\ Stages)'
  <2>1. Sound1(r)
    BY <1>1, <1>4 DEF Sound1, Applies, UpdateInv, Staging, U!Applying
  <2> QED
    BY <1>5, <2>1, RecordsSound, RecordsSoundNext DEF UpdateInv
<1>8. ASSUME ~clash PROVE SwapInv'
  <2>1. SwapInv /\ live' = live
    BY <1>1, <1>8 DEF UpdateInv, SwapInv, NobodyInLive
  <2>2. LiveWhole' /\ NobodyInLive'
    BY <1>4, <1>5, <2>1 DEF SwapInv, LiveWhole, NobodyInLive
  <2>3. Listing'
    <3> SUFFICES ASSUME NEW v \in Updaters, updater'[v].opened = "previous"
                 PROVE  parked' # U!NoDir /\ \A g \in Files : parked'[g] # U!Gone => g \in updater'[v].todo
      BY DEF Listing
    <3>1. /\ updater[v].opened = "previous" /\ parked \in U!Dir
          /\ \A g \in Files : parked[g] # U!Gone => g \in updater[v].todo
      BY <1>4, <1>5, <2>1 DEF SwapInv, Listing, UpdateInv, UpdateTypes
    <3>2. parked' \in U!Dir
      BY <1>1, <3>1, UpdateConstants DEF U!Dir, U!Gone
    <3>3. \A g \in Files : parked'[g] # U!Gone =>
             parked[g] # U!Gone /\ (updater[u].opened = "previous" => g # f)
      BY <1>1, <3>1 DEF U!Dir
    <3> QED
      BY <1>4, <1>5, <3>1, <3>2, <3>3, DirFacts
  <2>4. AloneKeeps'
    BY <1>1, <1>4, <1>5, <2>1 DEF SwapInv, AloneKeeps, U!Applying
  <2>5. Carried'
    <3>1. CASE updater[u].opened = "previous"
      <4>1. Carrier(u)'
        BY <1>4, <1>5, <3>1 DEF Carrier
      <4> QED
        BY <1>1, <1>4, <1>5, <2>1, <4>1 DEF SwapInv, Carried
    <3>2. CASE updater[u].opened # "previous"
      BY <1>1, <1>4, <1>5, <2>1, <3>2 DEF SwapInv, Carried, Carrier
    <3> QED
      BY <3>1, <3>2
  <2> QED
    BY <2>2, <2>3, <2>4, <2>5 DEF SwapInv
<1> QED
  BY <1>1, <1>6, <1>7, <1>8 DEF UpdateInv

LEMMA LookInv ==
  ASSUME UpdateInv, NEW u \in Updaters, U!LookForLive(u)
  PROVE  UpdateInv'
<1>1. updater[u].pc = "look" /\ UNCHANGED <<mirror, live, parked, ufaults, crashed, clash>>
  BY DEF U!LookForLive, U!At
<1>2. updater[u] \in UpRecords /\ updater[u].opened = "none"
  BY <1>1 DEF UpdateInv, UpdateTypes, Stages
<1>3. PICK e \in BOOLEAN : e = U!Exists(live)
  BY DEF U!Exists
<1>4. PICK r \in UpRecords :
        r = [updater[u] EXCEPT !.existed = e, !.pc = IF e THEN "park" ELSE "install"]
  BY <1>2 DEF UpRecords, UpPcs
<1>5. /\ r.pc = (IF e THEN "park" ELSE "install") /\ r.existed = e
      /\ r.opened = "none" /\ r.staged = updater[u].staged /\ r.release = updater[u].release
      /\ updater' = [updater EXCEPT ![u] = r]
  BY <1>2, <1>3, <1>4 DEF U!LookForLive, UpRecords, UpdateInv, UpdateTypes
<1>6. Harmless(u, r)
  BY <1>1, <1>3, <1>5 DEF Harmless, Applies, Carrying, U!Exists
<1>7. Sound1(r)
  BY <1>1, <1>5 DEF Sound1, Applies, UpdateInv, Staging, U!Applying
<1>8. mirror' \in [manifest : 0..MaxRelease, file : [Files -> 0..MaxRelease]]
  BY <1>1 DEF UpdateInv, UpdateTypes
<1> QED
  BY <1>6, <1>7, <1>8, HarmlessInv

(* What Renamed does to the records. *)
LEMMA RenamedRecords ==
  ASSUME UpdateTypes, NEW from, NEW to \in {"none", "previous", "live"}, NEW v \in Updaters
  PROVE  /\ U!Renamed(from, to)[v] \in UpRecords
         /\ U!Renamed(from, to)[v].opened =
              (IF updater[v].opened = from THEN to
               ELSE IF updater[v].opened = to THEN "none" ELSE updater[v].opened)
         /\ U!Renamed(from, to)[v].pc = updater[v].pc
         /\ U!Renamed(from, to)[v].release = updater[v].release
         /\ U!Renamed(from, to)[v].staged = updater[v].staged
         /\ U!Renamed(from, to)[v].existed = updater[v].existed
         /\ U!Renamed(from, to)[v].todo = updater[v].todo
         /\ U!Renamed(from, to)[v].met = updater[v].met
<1>1. PICK r \in UpRecords : r = updater[v]
  BY DEF UpdateTypes
<1>2. U!Renamed(from, to)[v] =
        [r EXCEPT !.opened = IF r.opened = from THEN to ELSE IF r.opened = to THEN "none" ELSE r.opened]
  BY <1>1 DEF U!Renamed
<1> QED
  BY <1>1, <1>2 DEF UpRecords

(* A step that renames or removes a directory and then changes one record. *)
RenamesAnd(from, to, u, r) ==
  /\ updater' \in [Updaters -> UpRecords] /\ updater'[u] = r
  /\ \A v \in Updaters \ {u} :
       /\ updater'[v].opened = (IF updater[v].opened = from THEN to
                                ELSE IF updater[v].opened = to THEN "none" ELSE updater[v].opened)
       /\ updater'[v].pc = updater[v].pc /\ updater'[v].release = updater[v].release
       /\ updater'[v].staged = updater[v].staged /\ updater'[v].existed = updater[v].existed
       /\ updater'[v].todo = updater[v].todo /\ updater'[v].met = updater[v].met

LEMMA RenamesStep ==
  ASSUME UpdateTypes, NEW from, NEW to \in {"none", "previous", "live"}, NEW u \in Updaters,
         NEW r \in UpRecords, updater' = [U!Renamed(from, to) EXCEPT ![u] = r]
  PROVE  RenamesAnd(from, to, u, r)
<1>1. DOMAIN U!Renamed(from, to) = Updaters
  BY DEF U!Renamed
<1>2. updater'[u] = r /\ \A v \in Updaters \ {u} : updater'[v] = U!Renamed(from, to)[v]
  BY <1>1
<1>3. \A v \in Updaters : U!Renamed(from, to)[v] \in UpRecords
  BY RenamedRecords
<1>4. updater' \in [Updaters -> UpRecords]
  <2>1. PICK R : R = U!Renamed(from, to)
    OBVIOUS
  <2>2. R \in [Updaters -> UpRecords]
    <3>1. R = [v \in Updaters |-> R[v]]
      BY <2>1 DEF U!Renamed
    <3> QED
      BY <1>3, <2>1, <3>1
  <2> QED
    BY <2>1, <2>2
<1> QED
  BY <1>2, <1>4, RenamedRecords DEF RenamesAnd

LEMMA RenamesSound ==
  ASSUME UpdateInv, NEW from, NEW to, from = "none" => to = "none", NEW u \in Updaters, NEW r \in UpRecords,
         RenamesAnd(from, to, u, r), Sound1(r)
  PROVE  (Staging /\ Stages)'
<1>1. \A v \in Updaters : Sound1(updater[v])
  BY RecordsSound DEF UpdateInv
<1>2. \A v \in Updaters \ {u} : Sound1(updater'[v])
  BY <1>1 DEF RenamesAnd, Sound1, Applies
<1>3. \A v \in Updaters : Sound1(updater'[v])
  BY <1>2 DEF RenamesAnd
<1> QED
  BY <1>3, RecordsSoundNext

LEMMA RemoveStaleDirInv ==
  ASSUME UpdateInv, NEW u \in Updaters, U!RemoveStaleDir(u)
  PROVE  UpdateInv'
<1>1. /\ updater[u].pc = "clear" /\ updater[u].todo = {}
      /\ UNCHANGED <<mirror, live, ufaults, crashed, clash>>
  BY DEF U!RemoveStaleDir, U!At
<1>2. CASE U!MayReplace(parked)
  <2>1. parked' = U!NoDir
    BY <1>2 DEF U!RemoveStaleDir
  <2>2. updater' = [U!Renamed("previous", "none") EXCEPT ![u].pc = "look", ![u].opened = "none"]
    BY <1>2 DEF U!RemoveStaleDir
  <2>3. PICK s \in UpRecords : s = U!Renamed("previous", "none")[u]
    BY RenamedRecords DEF UpdateInv
  <2>4. s.staged = updater[u].staged /\ s.release = updater[u].release
    BY <2>3, RenamedRecords DEF UpdateInv
  <2>5. PICK r \in UpRecords : r = [s EXCEPT !.pc = "look", !.opened = "none"]
    BY DEF UpRecords, UpPcs
  <2>6. r.pc = "look" /\ r.opened = "none" /\ r.staged = s.staged /\ r.release = s.release
    BY <2>5 DEF UpRecords
  <2>7. updater' = [U!Renamed("previous", "none") EXCEPT ![u] = r]
    <3>1. PICK R : R = U!Renamed("previous", "none")
      OBVIOUS
    <3>2. R = [v \in Updaters |-> R[v]]
      BY <3>1 DEF U!Renamed
    <3>3. updater' = [R EXCEPT ![u].pc = "look", ![u].opened = "none"]
      BY <2>2, <3>1
    <3>4. s = R[u]
      BY <2>3, <3>1
    <3>5. updater' = [R EXCEPT ![u] = r]
      BY <2>5, <3>2, <3>3, <3>4
    <3> QED
      BY <3>1, <3>5
  <2>8. RenamesAnd("previous", "none", u, r)
    BY <2>7, RenamesStep DEF UpdateInv
  <2>9. UpdateTypes'
    BY <1>1, <2>1, <2>8 DEF UpdateInv, UpdateTypes, RenamesAnd
  <2>10. (Staging /\ Stages)'
    <3>1. Sound1(r)
      BY <1>1, <2>4, <2>6 DEF Sound1, Applies, UpdateInv, Staging, U!Applying
    <3> QED
      BY <2>8, <3>1, RenamesSound
  <2>11. ASSUME ~clash PROVE SwapInv'
    <3>1. SwapInv
      BY <2>11 DEF UpdateInv
    <3>2. LiveWhole' /\ NobodyInLive' /\ Listing'
      BY <1>1, <2>6, <2>8, <3>1 DEF SwapInv, LiveWhole, NobodyInLive, Listing, RenamesAnd
    <3>3. AloneKeeps'
      BY <1>1, <2>6, <2>8, <3>1 DEF SwapInv, AloneKeeps, U!Applying, RenamesAnd
    <3>4. Carrier(u)'
      BY <2>6, <2>8 DEF Carrier, RenamesAnd
    <3>5. Carried'
      BY <1>1, <2>8, <3>1, <3>4 DEF SwapInv, Carried, RenamesAnd
    <3> QED
      BY <3>2, <3>3, <3>5 DEF SwapInv
  <2> QED
    BY <1>1, <2>9, <2>10, <2>11 DEF UpdateInv
<1>3. CASE ~U!MayReplace(parked)
  <2>1. U!Stop(u) /\ UNCHANGED parked
    BY <1>3 DEF U!RemoveStaleDir
  <2>2. ~clash => updater[u].opened # "previous"
    <3> SUFFICES ASSUME ~clash, updater[u].opened = "previous" PROVE FALSE
      OBVIOUS
    <3>1. parked \in U!Dir /\ \A f \in Files : parked[f] = U!Gone
      BY <1>1 DEF UpdateInv, UpdateTypes, SwapInv, Listing
    <3>2. parked = U!Empty
      BY <3>1 DEF U!Dir, U!Empty
    <3> QED
      BY <1>3, <3>2 DEF U!MayReplace
  <2> QED
    BY <1>1, <2>1, <2>2, StopInv DEF Carrying
<1> QED
  BY <1>2, <1>3

LEMMA ParkInv ==
  ASSUME UpdateInv, NEW u \in Updaters, U!Park(u)
  PROVE  UpdateInv'
<1>1. updater[u].pc = "park" /\ UNCHANGED <<mirror, ufaults, crashed, clash>>
  BY DEF U!Park, U!At
<1>2. CASE U!Exists(live) /\ U!MayReplace(parked)
  <2>1. parked' = live /\ live' = U!NoDir
    BY <1>2 DEF U!Park
  <2>2. PICK m \in BOOLEAN : m = \E v \in Updaters \ {u} : U!Applying(v)
    OBVIOUS
  <2>3. updater' = [U!Renamed("live", "previous") EXCEPT ![u].pc = "install", ![u].met = m]
    BY <1>2, <2>2 DEF U!Park
  <2>4. PICK s \in UpRecords : s = U!Renamed("live", "previous")[u]
    BY RenamedRecords DEF UpdateInv
  <2>5. /\ s.staged = updater[u].staged /\ s.release = updater[u].release
        /\ s.existed = updater[u].existed /\ updater[u].opened = "none" /\ s.opened = "none"
    BY <1>1, <2>4, RenamedRecords DEF UpdateInv, Stages
  <2>6. PICK r \in UpRecords : r = [s EXCEPT !.pc = "install", !.met = m]
    BY DEF UpRecords, UpPcs
  <2>7. /\ r.pc = "install" /\ r.opened = "none" /\ r.staged = s.staged /\ r.release = s.release
        /\ r.existed = s.existed /\ r.met = m
    BY <2>5, <2>6 DEF UpRecords
  <2>8. updater' = [U!Renamed("live", "previous") EXCEPT ![u] = r]
    <3>1. PICK R : R = U!Renamed("live", "previous")
      OBVIOUS
    <3>2. R = [v \in Updaters |-> R[v]]
      BY <3>1 DEF U!Renamed
    <3>3. updater' = [R EXCEPT ![u].pc = "install", ![u].met = m]
      BY <2>3, <3>1
    <3>4. s = R[u]
      BY <2>4, <3>1
    <3>5. updater' = [R EXCEPT ![u] = r]
      BY <2>6, <3>2, <3>3, <3>4
    <3> QED
      BY <3>1, <3>5
  <2>9. RenamesAnd("live", "previous", u, r)
    BY <2>8, RenamesStep DEF UpdateInv
  <2>10. UpdateTypes'
    BY <1>1, <2>1, <2>9 DEF UpdateInv, UpdateTypes, RenamesAnd
  <2>11. (Staging /\ Stages)'
    <3>1. Sound1(r)
      BY <1>1, <2>5, <2>7 DEF Sound1, Applies, UpdateInv, Staging, U!Applying
    <3> QED
      BY <2>9, <3>1, RenamesSound
  <2>12. ASSUME ~clash PROVE SwapInv'
    <3>1. SwapInv /\ U!Complete(live) /\ updater[u].existed
      BY <1>1, <1>2, <2>12 DEF UpdateInv, SwapInv, LiveWhole, Stages, U!Exists
    <3>2. LiveWhole'
      BY <2>1 DEF LiveWhole
    <3>3. NobodyInLive' /\ Listing'
      BY <2>7, <2>9, <3>1 DEF SwapInv, NobodyInLive, Listing, RenamesAnd
    <3>4. U!Complete(parked)'
      BY <2>1, <3>1 DEF U!Complete, U!Release
    <3>5. AloneKeeps'
      <4> SUFFICES ASSUME NEW w \in Updaters, updater'[w].pc \in {"install", "restore"},
                          updater'[w].existed, ~updater'[w].met
                   PROVE  U!Complete(parked)' /\ \A v \in Updaters \ {w} : ~U!Applying(v)'
        BY DEF AloneKeeps
      <4>1. \A v \in Updaters \ {u} : updater'[v].pc = updater[v].pc
        BY <2>9 DEF RenamesAnd
      <4>2. CASE w = u
        <5>1. ~m
          BY <2>7, <2>9, <4>2 DEF RenamesAnd
        <5>2. \A v \in Updaters \ {u} : ~U!Applying(v)'
          BY <2>2, <4>1, <5>1 DEF U!Applying
        <5> QED
          BY <3>4, <4>2, <5>2
      <4>3. CASE w # u
        <5>1. updater[w].pc \in {"install", "restore"} /\ updater[w].existed /\ ~updater[w].met
          BY <2>9, <4>3 DEF RenamesAnd
        <5>2. ~U!Applying(u)
          BY <3>1, <4>3, <5>1 DEF SwapInv, AloneKeeps
        <5> QED
          BY <1>1, <5>2 DEF U!Applying
      <4> QED
        BY <4>2, <4>3
    <3>6. updater'[u].pc = "install" /\ updater'[u].existed
      BY <2>5, <2>7, <2>9, <3>1 DEF RenamesAnd
    <3>7. Carried'
      BY <3>4, <3>6 DEF Carried, Carrier
    <3> QED
      BY <3>2, <3>3, <3>5, <3>7 DEF SwapInv
  <2> QED
    BY <1>1, <2>10, <2>11, <2>12 DEF UpdateInv
<1>3. CASE ~(U!Exists(live) /\ U!MayReplace(parked))
  <2>1. U!Stop(u) /\ UNCHANGED <<live, parked>>
    BY <1>3 DEF U!Park
  <2> QED
    BY <1>1, <2>1, StopInv DEF Carrying
<1> QED
  BY <1>2, <1>3

LEMMA InstallInv ==
  ASSUME UpdateInv, NEW u \in Updaters, U!Install(u)
  PROVE  UpdateInv'
<1>1. updater[u].pc = "install" /\ UNCHANGED <<mirror, parked, ufaults, crashed, clash>>
  BY DEF U!Install, U!At
<1>2. updater[u] \in UpRecords /\ updater[u].opened = "none"
  BY <1>1 DEF UpdateInv, UpdateTypes, Stages
<1>3. CASE U!MayReplace(live)
  <2>1. live' = updater[u].staged /\ updater' = [U!Renamed("staged", "live") EXCEPT ![u] = U!IdleUp]
    BY <1>3 DEF U!Install
  <2>2. updater[u].release \in 0..MaxRelease /\ live' = U!Release(updater[u].release)
    BY <1>1, <1>2, <2>1 DEF UpRecords, UpdateInv, Staging, U!Applying
  <2>3. live' \in U!Dir /\ live' # U!NoDir /\ U!Complete(live)'
    <3>1. U!Complete(live') /\ live' \in U!Dir
      BY <2>2, DirFacts
    <3> QED
      BY <3>1, DirFacts DEF U!Complete, U!Release
  <2>4. PICK r \in UpRecords : r = U!IdleUp
    BY StopRecord
  <2>5. r.pc = "idle" /\ r.opened = "none"
    BY <2>4, StopRecord
  <2>6. RenamesAnd("staged", "live", u, r)
    BY <2>1, <2>4, RenamesStep DEF UpdateInv
  <2>7. UpdateTypes'
    BY <1>1, <2>3, <2>6 DEF UpdateInv, UpdateTypes, RenamesAnd
  <2>8. (Staging /\ Stages)'
    <3>1. Sound1(r)
      BY <2>5 DEF Sound1, Applies
    <3> QED
      BY <2>6, <3>1, RenamesSound
  <2>9. ASSUME ~clash PROVE SwapInv'
    <3>1. SwapInv /\ \A v \in Updaters : updater[v].opened \in {"none", "previous"}
      BY <2>9 DEF UpdateInv, SwapInv, NobodyInLive, UpdateTypes, UpRecords
    <3>2. \A v \in Updaters \ {u} : updater'[v].opened = updater[v].opened
      BY <2>6, <3>1 DEF RenamesAnd
    <3>3. LiveWhole' /\ Carried'
      BY <2>3 DEF LiveWhole, Carried
    <3>4. NobodyInLive' /\ Listing'
      BY <1>1, <2>5, <2>6, <3>1, <3>2 DEF SwapInv, NobodyInLive, Listing, RenamesAnd
    <3>5. AloneKeeps'
      <4> SUFFICES ASSUME NEW w \in Updaters, updater'[w].pc \in {"install", "restore"},
                          updater'[w].existed, ~updater'[w].met
                   PROVE  FALSE
        BY DEF AloneKeeps
      <4>1. w # u
        BY <2>5, <2>6 DEF RenamesAnd
      <4>2. updater[w].pc \in {"install", "restore"} /\ updater[w].existed /\ ~updater[w].met
        BY <2>6, <4>1 DEF RenamesAnd
      <4>3. ~U!Applying(u)
        BY <3>1, <4>1, <4>2 DEF SwapInv, AloneKeeps
      <4> QED
        BY <1>1, <4>3 DEF U!Applying
    <3> QED
      BY <3>3, <3>4, <3>5 DEF SwapInv
  <2> QED
    BY <1>1, <2>7, <2>8, <2>9 DEF UpdateInv
<1>4. CASE ~U!MayReplace(live) /\ updater[u].existed
  <2>1. live' = live /\ U!Go(u, "restore") /\ live # U!NoDir
    BY <1>4 DEF U!Install, U!MayReplace
  <2>2. PICK r \in UpRecords : r = [updater[u] EXCEPT !.pc = "restore"]
    BY <1>2, GoRecord DEF UpPcs
  <2>3. /\ r.pc = "restore" /\ r.release = updater[u].release /\ r.staged = updater[u].staged
        /\ r.existed = updater[u].existed /\ r.opened = "none" /\ r.met = updater[u].met
    BY <1>2, <2>2, GoRecord DEF UpPcs
  <2>4. updater' = [updater EXCEPT ![u] = r]
    BY <2>1, <2>2 DEF U!Go, UpdateInv, UpdateTypes
  <2>5. Harmless(u, r)
    BY <1>1, <2>1, <2>3, <2>4 DEF Harmless, Applies
  <2>6. Sound1(r)
    BY <1>1, <1>4, <2>3 DEF Sound1, Applies, UpdateInv, Staging, U!Applying
  <2>7. mirror' \in [manifest : 0..MaxRelease, file : [Files -> 0..MaxRelease]]
    BY <1>1 DEF UpdateInv, UpdateTypes
  <2> QED
    BY <2>5, <2>6, <2>7, HarmlessInv
<1>5. CASE ~U!MayReplace(live) /\ ~updater[u].existed
  <2>1. live' = live /\ U!Stop(u) /\ live # U!NoDir
    BY <1>5 DEF U!Install, U!MayReplace
  <2> QED
    BY <1>1, <2>1, StopInv
<1> QED
  BY <1>3, <1>4, <1>5

LEMMA RestoreInv ==
  ASSUME UpdateInv, NEW u \in Updaters, U!Restore(u)
  PROVE  UpdateInv'
<1>1. updater[u].pc = "restore" /\ updater[u].existed /\ UNCHANGED <<mirror, ufaults, crashed>>
  BY DEF U!Restore, U!At, UpdateInv, Stages
<1>2. CASE U!Exists(parked) /\ U!MayReplace(live)
  <2>1. /\ live' = parked /\ parked' = U!NoDir /\ clash' = (clash \/ updater[u].met)
        /\ updater' = [U!Renamed("previous", "live") EXCEPT ![u] = U!IdleUp]
    BY <1>2 DEF U!Restore
  <2>2. PICK r \in UpRecords : r = U!IdleUp
    BY StopRecord
  <2>3. r.pc = "idle" /\ r.opened = "none"
    BY <2>2, StopRecord
  <2>4. RenamesAnd("previous", "live", u, r)
    BY <2>1, <2>2, RenamesStep DEF UpdateInv
  <2>5. clash' \in BOOLEAN
    BY <2>1
  <2>6. UpdateTypes'
    BY <1>1, <2>1, <2>4, <2>5 DEF UpdateInv, UpdateTypes, RenamesAnd
  <2>7. (Staging /\ Stages)'
    <3>1. Sound1(r)
      BY <2>3 DEF Sound1, Applies
    <3> QED
      BY <2>4, <3>1, RenamesSound
  <2>8. ASSUME ~clash' PROVE SwapInv'
    <3>1. ~clash /\ ~updater[u].met /\ SwapInv
      BY <2>1, <2>8 DEF UpdateInv
    <3>2. U!Complete(parked) /\ \A v \in Updaters \ {u} : ~U!Applying(v)
      BY <1>1, <3>1 DEF SwapInv, AloneKeeps
    <3>3. \A v \in Updaters \ {u} : updater[v].opened = "none" /\ updater[v].pc \in {"idle", "stage"}
      BY <3>2 DEF UpdateInv, Stages, U!Applying
    <3>4. \A v \in Updaters : updater'[v].opened = "none" /\ updater'[v].pc \in {"idle", "stage"}
      BY <2>3, <2>4, <3>3 DEF RenamesAnd
    <3>5. live' # U!NoDir /\ U!Complete(live)'
      <4>1. U!Complete(live')
        BY <2>1, <3>2
      <4> QED
        BY <4>1, DirFacts DEF U!Complete, U!Release
    <3>6. LiveWhole' /\ Carried'
      BY <3>5 DEF LiveWhole, Carried
    <3>7. NobodyInLive' /\ Listing' /\ AloneKeeps'
      BY <3>4 DEF NobodyInLive, Listing, AloneKeeps
    <3> QED
      BY <3>6, <3>7 DEF SwapInv
  <2> QED
    BY <2>6, <2>7, <2>8 DEF UpdateInv
<1>3. CASE ~(U!Exists(parked) /\ U!MayReplace(live))
  <2>1. U!Stop(u) /\ UNCHANGED <<live, parked, clash>>
    BY <1>3 DEF U!Restore
  <2>2. live = U!NoDir => ~U!Complete(parked)
    BY <1>3, DirFacts DEF U!Exists, U!MayReplace
  <2> QED
    BY <1>1, <2>1, <2>2, StopInv DEF Carrying
<1> QED
  BY <1>2, <1>3

(* A fault ends one update, or sends it to the roll back; what was live or *)
(* parked stays so.                                                        *)
Faulty(u, r) ==
  /\ updater' = [updater EXCEPT ![u] = r] /\ UNCHANGED <<mirror, live, parked, clash>>
  /\ ufaults' = ufaults + 1 /\ crashed' \in BOOLEAN
  /\ r.opened = "none" /\ r.pc \in {"idle", "restore"}
  /\ r.pc = "restore" => /\ updater[u].pc = "install"
                         /\ r.existed = updater[u].existed /\ r.met = updater[u].met
  /\ crashed' \/ (updater[u].pc = "install" /\ updater[u].existed => r.pc = "restore")

LEMMA FaultInv ==
  ASSUME UpdateInv, NEW u \in Updaters, NEW r \in UpRecords, Faulty(u, r), Sound1(r)
  PROVE  UpdateInv'
<1>1. /\ updater' \in [Updaters -> UpRecords] /\ updater'[u] = r
      /\ \A v \in Updaters \ {u} : updater'[v] = updater[v]
  BY OneUpdate DEF Faulty, UpdateInv
<1>2. ufaults \in Nat /\ ufaults' = ufaults + 1 /\ ufaults' \in Nat
  BY DEF UpdateInv, UpdateTypes, Faulty
<1>3. UpdateTypes'
  BY <1>1, <1>2 DEF UpdateInv, UpdateTypes, Faulty
<1>4. (Staging /\ Stages)'
  BY <1>1, RecordsSound, RecordsSoundNext DEF UpdateInv
<1>5. ASSUME ~clash PROVE SwapInv'
  <2>1. SwapInv
    BY <1>5 DEF UpdateInv
  <2>2. UNCHANGED <<live, parked>>
    BY DEF Faulty
  <2>3. LiveWhole'
    BY <2>1, <2>2 DEF SwapInv, LiveWhole
  <2>4. NobodyInLive' /\ Listing'
    BY <1>1, <2>1, <2>2 DEF SwapInv, NobodyInLive, Listing, Faulty
  <2>5. AloneKeeps'
    <3> SUFFICES ASSUME NEW w \in Updaters, updater'[w].pc \in {"install", "restore"},
                        updater'[w].existed, ~updater'[w].met
                 PROVE  U!Complete(parked) /\ \A v \in Updaters \ {w} : ~U!Applying(v)'
      BY <2>2 DEF AloneKeeps
    <3>1. updater[w].pc \in {"install", "restore"} /\ updater[w].existed /\ ~updater[w].met
      BY <1>1 DEF Faulty
    <3>2. U!Complete(parked) /\ \A v \in Updaters \ {w} : ~U!Applying(v)
      BY <2>1, <3>1 DEF SwapInv, AloneKeeps
    <3>3. \A v \in Updaters : U!Applying(v)' => U!Applying(v)
      BY <1>1 DEF Faulty, U!Applying
    <3> QED
      BY <3>2, <3>3
  <2>6. Carried'
    <3> SUFFICES ASSUME ufaults' = 1, live = U!NoDir
                 PROVE  \/ \E v \in Updaters : Carrier(v)'
                        \/ U!Complete(parked) /\ (crashed' \/ \E w \in Updaters : updater'[w].pc = "restore")
      BY <1>2, <2>2 DEF Carried
    <3>1. ufaults = 0
      BY <1>2
    <3>2. PICK w \in Updaters :
            /\ updater[w].pc = "install" /\ updater[w].existed
            /\ U!Complete(parked) \/ \E v \in Updaters \ {w} : Carrier(v)
      BY <2>1, <3>1 DEF SwapInv, Carried
    <3>3. \A v \in Updaters \ {u} : Carrier(v) => Carrier(v)'
      BY <1>1 DEF Carrier
    <3>4. CASE w # u
      BY <3>2, <3>3, <3>4 DEF Carrier
    <3>5. CASE w = u
      BY <1>1, <3>2, <3>3, <3>5 DEF Faulty
    <3> QED
      BY <3>4, <3>5
  <2> QED
    BY <2>3, <2>4, <2>5, <2>6 DEF SwapInv
<1> QED
  BY <1>3, <1>4, <1>5 DEF UpdateInv, Faulty

LEMMA FaultsInv ==
  ASSUME UpdateInv, NEW u \in Updaters, U!InstallFails(u) \/ U!Crash(u)
  PROVE  UpdateInv'
<1>1. updater[u] \in UpRecords
  BY DEF UpdateInv, UpdateTypes
<1>2. PICK i \in UpRecords : i = U!IdleUp
  BY StopRecord
<1>3. i.pc = "idle" /\ i.opened = "none" /\ Sound1(i)
  BY <1>2, StopRecord DEF Sound1, Applies
<1>4. CASE U!InstallFails(u) /\ updater[u].existed
  <2>1. /\ updater[u].pc = "install" /\ U!Go(u, "restore")
        /\ ufaults' = ufaults + 1 /\ UNCHANGED <<mirror, live, parked, crashed, clash>>
    BY <1>4 DEF U!InstallFails, U!At
  <2>2. PICK r \in UpRecords : r = [updater[u] EXCEPT !.pc = "restore"]
    BY <1>1, GoRecord DEF UpPcs
  <2>3. /\ r.pc = "restore" /\ r.release = updater[u].release /\ r.staged = updater[u].staged
        /\ r.existed = updater[u].existed /\ r.opened = "none" /\ r.met = updater[u].met
    BY <1>1, <2>1, <2>2, GoRecord DEF UpPcs, UpdateInv, Stages
  <2>4. updater' = [updater EXCEPT ![u] = r]
    BY <2>1, <2>2 DEF U!Go, UpdateInv, UpdateTypes
  <2>5. Faulty(u, r)
    BY <2>1, <2>3, <2>4 DEF Faulty, UpdateInv, UpdateTypes
  <2>6. Sound1(r)
    BY <1>4, <2>1, <2>3 DEF Sound1, Applies, UpdateInv, Staging, U!Applying
  <2> QED
    BY <2>5, <2>6, FaultInv
<1>5. CASE U!InstallFails(u) /\ ~updater[u].existed
  <2>1. /\ updater' = [updater EXCEPT ![u] = i]
        /\ ufaults' = ufaults + 1 /\ UNCHANGED <<mirror, live, parked, crashed, clash>>
    BY <1>2, <1>5 DEF U!InstallFails, U!Stop
  <2>2. Faulty(u, i)
    BY <1>3, <1>5, <2>1 DEF Faulty, UpdateInv, UpdateTypes
  <2> QED
    BY <1>3, <2>2, FaultInv
<1>6. CASE U!Crash(u)
  <2>1. /\ updater' = [updater EXCEPT ![u] = i] /\ crashed' = TRUE
        /\ ufaults' = ufaults + 1 /\ UNCHANGED <<mirror, live, parked, clash>>
    BY <1>2, <1>6 DEF U!Crash, U!Stop
  <2>2. Faulty(u, i)
    BY <1>3, <2>1 DEF Faulty
  <2> QED
    BY <1>3, <2>2, FaultInv
<1> QED
  BY <1>4, <1>5, <1>6

(* Every step of the updates, of the mirror and of the reader. *)
LEMMA UpdateInvStep ==
  ASSUME UpdateInv, [U!Next]_(U!vars)
  PROVE  UpdateInv'
<1>1. ASSUME UNCHANGED U!vars \/ U!StartReading \/ U!Build \/ (\E f \in Files : U!LoadFile(f))
      PROVE  UpdateInv'
  <2>1. UNCHANGED <<mirror, live, parked, updater, ufaults, crashed, clash>>
    BY <1>1 DEF U!vars, U!StartReading, U!Build, U!LoadFile
  <2>2. mirror' \in [manifest : 0..MaxRelease, file : [Files -> 0..MaxRelease]]
    BY <2>1 DEF UpdateInv, UpdateTypes
  <2> QED
    BY <2>1, <2>2, ElsewhereInv
<1>2. ASSUME NEW u \in Updaters, U!UpdaterStep(u) PROVE UpdateInv'
  <2>1. \/ U!FetchManifest(u) \/ U!StartApply(u) \/ U!OpenStale(u) \/ U!RemoveStaleDir(u)
        \/ U!LookForLive(u) \/ U!Park(u) \/ U!Install(u) \/ U!Restore(u)
        \/ \E f \in Files : U!StageFile(u, f)
        \/ \E f \in Files : U!RemoveStaleFile(u, f)
    BY <1>2 DEF U!UpdaterStep
  <2> QED
    BY <2>1, FetchInv, StartApplyInv, OpenStaleInv, RemoveStaleDirInv, LookInv, ParkInv,
       InstallInv, RestoreInv, StageInv, RemoveStaleFileInv
<1>3. \/ UNCHANGED U!vars
      \/ (\E f \in Files : U!PublishFile(f)) \/ U!PublishManifest
      \/ \E u \in Updaters : U!UpdaterStep(u)
      \/ \E u \in Updaters : U!InstallFails(u) \/ U!Crash(u)
      \/ U!StartReading \/ U!Build \/ (\E f \in Files : U!LoadFile(f))
  BY DEF U!Next
<1> QED
  BY <1>1, <1>2, <1>3, MirrorInv, FaultsInv

LEMMA GenerationIsLeft ==
  ASSUME UpdateInv
  PROVE  U!SwapIsWhole /\ U!GenerationLeft
<1>1. U!SwapIsWhole
  BY DEF U!SwapIsWhole, U!Exists, UpdateInv, SwapInv, LiveWhole
<1>2. ASSUME ufaults <= 1, ~clash, live = U!NoDir
      PROVE  /\ U!Complete(parked) \/ \E u \in Updaters : U!Applying(u) /\ U!Complete(updater[u].staged)
             /\ crashed \/ \E u \in Updaters : U!Applying(u)
  <2>1. \A v \in Updaters : U!Applying(v) => U!Complete(updater[v].staged)
    <3> SUFFICES ASSUME NEW v \in Updaters, U!Applying(v) PROVE U!Complete(updater[v].staged)
      OBVIOUS
    <3>1. updater[v].release \in 0..MaxRelease /\ updater[v].staged = U!Release(updater[v].release)
      BY DEF UpdateInv, UpdateTypes, UpRecords, Staging
    <3> QED
      BY <3>1, DirFacts
  <2>2. \A v \in Updaters : Carrier(v) \/ updater[v].pc = "restore" => U!Applying(v)
    BY DEF Carrier, U!Applying
  <2>3. CASE ufaults = 0
    <3>1. PICK u \in Updaters : Carrier(u)
      BY <1>2, <2>3 DEF UpdateInv, SwapInv, Carried, Carrier
    <3> QED
      BY <2>1, <2>2, <3>1
  <2>4. CASE ufaults = 1
    <3>1. \/ \E v \in Updaters : Carrier(v)
          \/ U!Complete(parked) /\ (crashed \/ \E u \in Updaters : updater[u].pc = "restore")
      BY <1>2, <2>4 DEF UpdateInv, SwapInv, Carried
    <3> QED
      BY <2>1, <2>2, <3>1
  <2>5. ufaults \in Nat
    BY DEF UpdateInv, UpdateTypes
  <2> QED
    BY <1>2, <2>3, <2>4, <2>5
<1>3. ~clash /\ live # U!NoDir => U!Complete(live)
  BY DEF UpdateInv, SwapInv, LiveWhole
<1> QED
  BY <1>1, <1>2, <1>3 DEF U!GenerationLeft

(***************************************************************************)
(* The daemon.  Three counts of tasks carry its properties: the            *)
(* connections under way, the tasks between the check of a bucket and the  *)
(* spending of its token, and the holders of a peer's semaphore.           *)
(***************************************************************************)
Places == {"free", "admit", "acquire", "spend", "global", "read", "reply"}
TaskRecords == [pc : Places, peer : Peers \cup {NoPeer}, gen : Nat]
Buckets == [tokens : Int, refill : Nat, seen : Nat]

DaemonTypes ==
  /\ ticks \in Nat /\ served \in Nat
  /\ stats \in [D!Counters -> Nat]
  /\ gen \in [Peers -> Nat]
  /\ task \in [Tasks -> TaskRecords]
  /\ DOMAIN peers \subseteq Peers
  /\ \A p \in DOMAIN peers : peers[p] \in Buckets

Named == \A t \in Tasks : task[t].pc # "free" => task[t].peer \in Peers

Filled == \A p \in DOMAIN peers : peers[p].tokens <= Burst /\ peers[p].refill <= ticks

UnderWay == {t \in Tasks : task[t].pc # "free"}
Spending(p) == {t \in Tasks : task[t].pc \in {"acquire", "spend"} /\ task[t].peer = p}
Holders(p, g) == {t \in Tasks : D!HoldsPeer(t) /\ task[t].peer = p /\ task[t].gen = g}

Overdrawn == \A p \in DOMAIN peers :
  peers[p].tokens - Cardinality(Spending(p)) >= 1 - Cardinality(Tasks)

Permits == \A p \in Peers, g \in Nat : Cardinality(Holders(p, g)) <= MaxConcurrent

(* Without evictions of busy peers every connection of a peer holds or     *)
(* awaits a permit of the semaphore the map has for it.                    *)
OneSemaphore == evicted = {} =>
  \A t \in Tasks : D!Attached(t) => task[t].peer \in DOMAIN peers /\ task[t].gen = gen[task[t].peer]

Accounted ==
  stats["total"] = stats["rate"] + stats["concurrency"] + stats["busy"] + served
                     + Cardinality(UnderWay)

DaemonInv == DaemonTypes /\ Named /\ Filled /\ Overdrawn /\ Permits /\ OneSemaphore
               /\ Accounted

(* The instance has its own names for the operators of FiniteSets. *)
LEMMA DaemonSets ==
  ASSUME NEW S
  PROVE  D!Cardinality(S) = Cardinality(S) /\ D!IsFiniteSet(S) = IsFiniteSet(S)
BY DEF D!Cardinality, Cardinality, D!IsFiniteSet, IsFiniteSet

(* What is known of the constants. *)
LEMMA DaemonConstants ==
  /\ MaxConcurrent \in Nat /\ MaxConnections \in Nat /\ Burst \in Nat /\ RatePerTick \in Nat
  /\ IsFiniteSet(Tasks) /\ Cardinality(Tasks) \in Nat
<1>1. D!DaemonAssumption
  BY PartsAssumption
<1>2. IsFiniteSet(Tasks)
  BY <1>1, DaemonSets DEF D!DaemonAssumption
<1>3. Cardinality(Tasks) \in Nat
  BY <1>2, FS_CardinalityType
<1> QED
  BY <1>1, <1>2, <1>3 DEF D!DaemonAssumption

LEMMA SubsetOfTasks ==
  ASSUME NEW S \in SUBSET Tasks
  PROVE  IsFiniteSet(S) /\ Cardinality(S) \in Nat /\ Cardinality(S) <= Cardinality(Tasks)
BY DaemonConstants, FS_Subset, FS_CardinalityType

LEMMA ProperSubsetOfTasks ==
  ASSUME NEW S \in SUBSET Tasks, NEW t \in Tasks \ S
  PROVE  Cardinality(S) <= Cardinality(Tasks) - 1
<1>1. S \in SUBSET (Tasks \ {t})
  OBVIOUS
<1>2. IsFiniteSet(Tasks \ {t}) /\ Cardinality(Tasks \ {t}) = Cardinality(Tasks) - 1
  BY DaemonConstants, FS_RemoveElement
<1> QED
  BY <1>1, <1>2, FS_Subset

LEMMA WithTask ==
  ASSUME NEW S \in SUBSET Tasks, NEW t \in Tasks \ S, NEW T, T = S \cup {t}
  PROVE  Cardinality(T) = Cardinality(S) + 1
BY SubsetOfTasks, FS_AddElement

LEMMA WithoutTask ==
  ASSUME NEW S \in SUBSET Tasks, NEW t \in S, NEW T, T = S \ {t}
  PROVE  Cardinality(T) = Cardinality(S) - 1
BY SubsetOfTasks, FS_RemoveElement

LEMMA DaemonInvInit ==
  ASSUME D!Init
  PROVE  DaemonInv
<1>1. /\ ticks = 0 /\ served = 0 /\ peers = [p \in {} |-> 0] /\ gen = [p \in Peers |-> 0]
      /\ task = [t \in Tasks |-> D!NoTask] /\ stats = [c \in D!Counters |-> 0]
  BY DEF D!Init
<1>2. DaemonTypes /\ Named /\ Filled /\ Overdrawn
  BY <1>1 DEF DaemonTypes, Named, Filled, Overdrawn, D!NoTask, Places, TaskRecords
<1>3. \A t \in Tasks : task[t].pc = "free"
  BY <1>1 DEF D!NoTask
<1>4. Permits
  <2>1. \A p, g : Holders(p, g) = {}
    BY <1>3 DEF Holders, D!HoldsPeer
  <2> QED
    BY <2>1, FS_EmptySet, DaemonConstants DEF Permits
<1>5. OneSemaphore
  BY <1>3 DEF OneSemaphore, D!Attached, D!HoldsPeer
<1>6. Accounted
  <2>1. UnderWay = {}
    BY <1>3 DEF UnderWay
  <2>2. Cardinality(UnderWay) = 0
    BY <2>1, FS_EmptySet
  <2> QED
    BY <1>1, <2>2 DEF Accounted, D!Counters
<1> QED
  BY <1>2, <1>4, <1>5, <1>6 DEF DaemonInv

(***************************************************************************)
(* A step of one connection that leaves the map of peers alone, does not   *)
(* bring it between the check and the spending of a token, and takes a     *)
(* permit only if one is left.                                             *)
(***************************************************************************)
Await == {"acquire", "spend"}
Hold == {"spend", "global", "read", "reply"}

QuietMove(t, r) ==
  /\ task' = [task EXCEPT ![t] = r]
  /\ UNCHANGED <<ticks, peers, gen, evicted>>
  /\ r.pc # "free" => r.peer \in Peers
  /\ r.pc \in Await => task[t].pc \in Await /\ r.peer = task[t].peer
  /\ r.pc \in Await \cup Hold =>
       task[t].pc \in Await \cup Hold /\ r.peer = task[t].peer /\ r.gen = task[t].gen
  /\ r.pc \in Hold => task[t].pc \in Hold \/ Cardinality(Holders(r.peer, r.gen)) < MaxConcurrent

LEMMA HoldersMove ==
  ASSUME DaemonTypes, Permits, NEW t \in Tasks, NEW r \in TaskRecords,
         task' = [task EXCEPT ![t] = r],
         r.pc \in Hold =>
           \/ task[t].pc \in Hold /\ r.peer = task[t].peer /\ r.gen = task[t].gen
           \/ Cardinality(Holders(r.peer, r.gen)) < MaxConcurrent
  PROVE  Permits'
<1> SUFFICES ASSUME NEW p \in Peers, NEW g \in Nat
             PROVE  Cardinality(Holders(p, g)') <= MaxConcurrent
  BY DEF Permits
<1>1. PICK H : H = Holders(p, g)
  OBVIOUS
<1>2. H \in SUBSET Tasks /\ Cardinality(H) <= MaxConcurrent
  BY <1>1 DEF Permits, Holders
<1>3. PICK K : K = Holders(p, g)'
  OBVIOUS
<1>4. H = {u \in Tasks : task[u].pc \in Hold /\ task[u].peer = p /\ task[u].gen = g}
  BY <1>1 DEF Holders, D!HoldsPeer, Hold
<1>5. K = {u \in Tasks : task'[u].pc \in Hold /\ task'[u].peer = p /\ task'[u].gen = g}
  BY <1>3 DEF Holders, D!HoldsPeer, Hold
<1>6. /\ task'[t] = r
      /\ \A u \in Tasks \ {t} : task'[u] = task[u]
  BY DEF DaemonTypes
<1>7. K \subseteq H \cup {t}
  BY <1>4, <1>5, <1>6
<1>8. CASE t \notin K \/ t \in H
  <2>1. K \in SUBSET H
    BY <1>7, <1>8
  <2>2. IsFiniteSet(H) /\ Cardinality(H) \in Nat
    BY <1>2, SubsetOfTasks
  <2>3. Cardinality(K) <= Cardinality(H) /\ Cardinality(K) \in Nat
    BY <2>1, <2>2, FS_Subset, FS_CardinalityType
  <2> QED
    BY <1>2, <1>3, <2>2, <2>3, DaemonConstants
<1>9. CASE t \in K /\ t \notin H
  <2>1. r.pc \in Hold /\ r.peer = p /\ r.gen = g
    BY <1>5, <1>6, <1>9
  <2>2. ~(task[t].pc \in Hold /\ r.peer = task[t].peer /\ r.gen = task[t].gen)
    BY <1>4, <1>9, <2>1
  <2>3. Cardinality(H) < MaxConcurrent
    BY <1>1, <2>1, <2>2
  <2>4. IsFiniteSet(H) /\ Cardinality(H) \in Nat
    BY <1>2, SubsetOfTasks
  <2>5. IsFiniteSet(H \cup {t}) /\ Cardinality(H \cup {t}) = Cardinality(H) + 1
    BY <1>9, <2>4, FS_AddElement
  <2>6. Cardinality(K) <= Cardinality(H) + 1 /\ Cardinality(K) \in Nat
    BY <1>7, <2>5, FS_Subset, FS_CardinalityType
  <2> QED
    BY <1>3, <2>3, <2>4, <2>6, DaemonConstants
<1> QED
  BY <1>8, <1>9

LEMMA QuietStep ==
  ASSUME DaemonInv, NEW t \in Tasks, NEW r \in TaskRecords, QuietMove(t, r)
  PROVE  Named' /\ Filled' /\ Overdrawn' /\ Permits' /\ OneSemaphore'
<1>1. /\ task'[t] = r
      /\ \A u \in Tasks \ {t} : task'[u] = task[u]
      /\ UNCHANGED <<ticks, peers, gen, evicted>>
  BY DEF QuietMove, DaemonInv, DaemonTypes
<1>2. Named'
  BY <1>1 DEF QuietMove, DaemonInv, Named
<1>3. Filled'
  BY <1>1 DEF DaemonInv, Filled
<1>4. Overdrawn'
  <2> SUFFICES ASSUME NEW p \in DOMAIN peers
               PROVE  peers[p].tokens - Cardinality(Spending(p)') >= 1 - Cardinality(Tasks)
    BY <1>1 DEF Overdrawn
  <2>1. PICK S : S = Spending(p)
    OBVIOUS
  <2>2. PICK T : T = Spending(p)'
    OBVIOUS
  <2>3. S \in SUBSET Tasks /\ T \in SUBSET S
    BY <1>1, <2>1, <2>2 DEF Spending, QuietMove, Await
  <2>4. Cardinality(T) <= Cardinality(S) /\ Cardinality(T) \in Nat /\ Cardinality(S) \in Nat
    BY <2>3, SubsetOfTasks, FS_Subset, FS_CardinalityType
  <2>5. peers[p].tokens \in Int
    BY DEF DaemonInv, DaemonTypes, Buckets
  <2>6. peers[p].tokens - Cardinality(S) >= 1 - Cardinality(Tasks)
    BY <2>1 DEF DaemonInv, Overdrawn
  <2> QED
    BY <2>2, <2>4, <2>5, <2>6, DaemonConstants
<1>5. Permits'
  <2>1. r.pc \in Hold =>
           \/ task[t].pc \in Hold /\ r.peer = task[t].peer /\ r.gen = task[t].gen
           \/ Cardinality(Holders(r.peer, r.gen)) < MaxConcurrent
    BY DEF QuietMove
  <2> QED
    BY <2>1, HoldersMove DEF QuietMove, DaemonInv
<1>6. OneSemaphore'
  <2> SUFFICES ASSUME evicted = {}, NEW u \in Tasks, D!Attached(u)'
               PROVE  task'[u].peer \in DOMAIN peers /\ task'[u].gen = gen[task'[u].peer]
    BY <1>1 DEF OneSemaphore
  <2>1. D!Attached(u) /\ task'[u].peer = task[u].peer /\ task'[u].gen = task[u].gen
    BY <1>1 DEF QuietMove, Await, Hold, D!Attached, D!HoldsPeer
  <2> QED
    BY <2>1 DEF DaemonInv, OneSemaphore
<1> QED
  BY <1>2, <1>3, <1>4, <1>5, <1>6

(* Connections under way, when one comes, ends or goes on. *)
LEMMA UnderWayMove ==
  ASSUME DaemonTypes, NEW t \in Tasks, NEW r \in TaskRecords,
         task' = [task EXCEPT ![t] = r]
  PROVE  /\ Cardinality(UnderWay) \in Nat /\ Cardinality(UnderWay') \in Nat
         /\ task[t].pc = "free" /\ r.pc # "free" =>
              Cardinality(UnderWay') = Cardinality(UnderWay) + 1
         /\ task[t].pc # "free" /\ r.pc = "free" =>
              Cardinality(UnderWay') = Cardinality(UnderWay) - 1
         /\ task[t].pc # "free" /\ r.pc # "free" =>
              Cardinality(UnderWay') = Cardinality(UnderWay)
<1>1. PICK S : S = UnderWay
  OBVIOUS
<1>2. PICK T : T = UnderWay'
  OBVIOUS
<1>3. S \in SUBSET Tasks /\ T \in SUBSET Tasks
  BY <1>1, <1>2 DEF UnderWay
<1>4. /\ task'[t] = r
      /\ \A u \in Tasks \ {t} : task'[u] = task[u]
  BY DEF DaemonTypes
<1>5. /\ task[t].pc = "free" /\ r.pc # "free" => t \notin S /\ T = S \cup {t}
      /\ task[t].pc # "free" /\ r.pc = "free" => t \in S /\ T = S \ {t}
      /\ task[t].pc # "free" /\ r.pc # "free" => T = S
  BY <1>1, <1>2, <1>4 DEF UnderWay
<1>6. Cardinality(S) \in Nat /\ Cardinality(T) \in Nat
  BY <1>3, SubsetOfTasks
<1>7. task[t].pc = "free" /\ r.pc # "free" => Cardinality(T) = Cardinality(S) + 1
  BY <1>3, <1>5, WithTask
<1>8. task[t].pc # "free" /\ r.pc = "free" => Cardinality(T) = Cardinality(S) - 1
  BY <1>3, <1>5, WithoutTask
<1> QED
  BY <1>1, <1>2, <1>5, <1>6, <1>7, <1>8

(***************************************************************************)
(* The counters: what a step adds to them.                                 *)
(***************************************************************************)
Ways == {"rate", "concurrency", "busy"}

LEMMA CountStep ==
  ASSUME DaemonTypes, NEW C, D!Count(C)
  PROVE  /\ stats' \in [D!Counters -> Nat]
         /\ \A c \in D!Counters : stats'[c] = IF c \in C THEN stats[c] + 1 ELSE stats[c]
<1>1. stats' = [c \in D!Counters |-> IF c \in C THEN stats[c] + 1 ELSE stats[c]]
  BY DEF D!Count
<1>2. \A c \in D!Counters : stats[c] \in Nat
  BY DEF DaemonTypes
<1> QED
  BY <1>1, <1>2

(* An ending task is served, or turned away for one reason. *)
LEMMA EndStep ==
  ASSUME DaemonInv, NEW t \in Tasks, task[t].pc # "free", D!Close(t),
         stats' \in [D!Counters -> Nat],
         \/ /\ served' = served + 1
            /\ \A c \in Ways \cup {"total"} : stats'[c] = stats[c]
         \/ /\ served' = served
            /\ \E w \in Ways : /\ stats'[w] = stats[w] + 1
                               /\ \A c \in (Ways \cup {"total"}) \ {w} : stats'[c] = stats[c]
  PROVE  served' \in Nat /\ Accounted'
<1>1. task' = [task EXCEPT ![t] = D!NoTask] /\ D!NoTask \in TaskRecords
  BY DEF D!Close, D!NoTask, TaskRecords, Places
<1>2. /\ Cardinality(UnderWay) \in Nat /\ Cardinality(UnderWay') \in Nat
      /\ Cardinality(UnderWay') = Cardinality(UnderWay) - 1
  BY <1>1, UnderWayMove DEF DaemonInv, D!NoTask
<1>3. \A c \in Ways \cup {"total"} : stats[c] \in Nat /\ stats'[c] \in Nat
  BY DEF DaemonInv, DaemonTypes, Ways, D!Counters
<1>4. served \in Nat
  BY DEF DaemonInv, DaemonTypes
<1>5. PICK n \in Nat, m \in Nat :
        n = Cardinality(UnderWay) /\ m = Cardinality(UnderWay') /\ m = n - 1
  BY <1>2
<1>6. stats["total"] = stats["rate"] + stats["concurrency"] + stats["busy"] + served + n
  BY <1>5 DEF DaemonInv, Accounted
<1>7. Accounted' <=> stats'["total"] = stats'["rate"] + stats'["concurrency"] + stats'["busy"] + served' + m
  BY <1>5 DEF Accounted
<1>8. /\ {"rate", "concurrency", "busy", "total"} = Ways \cup {"total"}
      /\ Ways = {"rate", "concurrency", "busy"}
  BY DEF Ways
<1>9. CASE served' = served + 1 /\ \A c \in Ways \cup {"total"} : stats'[c] = stats[c]
  <2>1. /\ stats'["total"] = stats["total"] /\ stats'["rate"] = stats["rate"]
        /\ stats'["concurrency"] = stats["concurrency"] /\ stats'["busy"] = stats["busy"]
    BY <1>8, <1>9
  <2>2. /\ stats["total"] \in Nat /\ stats["rate"] \in Nat
        /\ stats["concurrency"] \in Nat /\ stats["busy"] \in Nat
    BY <1>3, <1>8
  <2> QED
    BY <1>4, <1>5, <1>6, <1>7, <1>9, <2>1, <2>2
<1>10. ASSUME served' = served, NEW w \in Ways, stats'[w] = stats[w] + 1,
              \A c \in (Ways \cup {"total"}) \ {w} : stats'[c] = stats[c]
       PROVE  served' \in Nat /\ Accounted'
  <2>1. /\ stats["total"] \in Nat /\ stats["rate"] \in Nat
        /\ stats["concurrency"] \in Nat /\ stats["busy"] \in Nat
    BY <1>3, <1>8
  <2>2. stats'["total"] = stats["total"]
    BY <1>8, <1>10
  <2>3. \A c \in {"rate", "concurrency", "busy"} : stats'[c] = IF c = w THEN stats[c] + 1 ELSE stats[c]
    BY <1>8, <1>10
  <2>4. /\ stats'["rate"] = IF w = "rate" THEN stats["rate"] + 1 ELSE stats["rate"]
        /\ stats'["concurrency"] = IF w = "concurrency" THEN stats["concurrency"] + 1
                                                       ELSE stats["concurrency"]
        /\ stats'["busy"] = IF w = "busy" THEN stats["busy"] + 1 ELSE stats["busy"]
    BY <2>3
  <2>5. CASE w = "rate"
    <3>1. /\ stats'["rate"] = stats["rate"] + 1 /\ stats'["concurrency"] = stats["concurrency"]
          /\ stats'["busy"] = stats["busy"]
      BY <2>4, <2>5
    <3> QED
      BY <1>4, <1>5, <1>6, <1>7, <1>10, <2>1, <2>2, <3>1
  <2>6. CASE w = "concurrency"
    <3>1. /\ stats'["rate"] = stats["rate"] /\ stats'["concurrency"] = stats["concurrency"] + 1
          /\ stats'["busy"] = stats["busy"]
      BY <2>4, <2>6
    <3> QED
      BY <1>4, <1>5, <1>6, <1>7, <1>10, <2>1, <2>2, <3>1
  <2>7. CASE w = "busy"
    <3>1. /\ stats'["rate"] = stats["rate"] /\ stats'["concurrency"] = stats["concurrency"]
          /\ stats'["busy"] = stats["busy"] + 1
      BY <2>4, <2>7
    <3> QED
      BY <1>4, <1>5, <1>6, <1>7, <1>10, <2>1, <2>2, <3>1
  <2> QED
    BY <1>8, <1>10, <2>5, <2>6, <2>7
<1> QED
  BY <1>9, <1>10

LEMMA TickStep ==
  ASSUME DaemonInv, ticks' \in Nat, ticks' >= ticks,
         UNCHANGED <<peers, gen, task, stats, served, evicted>>
  PROVE  DaemonInv'
<1>1. DaemonTypes' /\ Named'
  BY DEF DaemonInv, DaemonTypes, Named
<1>2. Filled'
  BY DEF DaemonInv, DaemonTypes, Filled, Buckets
<1>3. Overdrawn'
  BY DEF DaemonInv, Overdrawn, Spending
<1>4. Permits'
  BY DEF DaemonInv, Permits, Holders, D!HoldsPeer
<1>5. OneSemaphore'
  BY DEF DaemonInv, OneSemaphore, D!Attached, D!HoldsPeer
<1>6. Accounted'
  BY DEF DaemonInv, Accounted, UnderWay
<1> QED
  BY <1>1, <1>2, <1>3, <1>4, <1>5, <1>6 DEF DaemonInv

LEMMA AcceptStep ==
  ASSUME DaemonInv, NEW t \in Tasks, NEW p \in Peers, D!Accept(t, p)
  PROVE  DaemonInv'
<1>1. PICK r \in TaskRecords : r = [pc |-> "admit", peer |-> p, gen |-> 0]
  BY DEF TaskRecords, Places
<1>2. /\ task[t].pc = "free" /\ task' = [task EXCEPT ![t] = r] /\ D!Count({"total"})
      /\ UNCHANGED <<ticks, peers, gen, served, evicted>>
  BY <1>1 DEF D!Accept, D!At
<1>3. QuietMove(t, r)
  BY <1>1, <1>2 DEF QuietMove, Await, Hold
<1>4. Named' /\ Filled' /\ Overdrawn' /\ Permits' /\ OneSemaphore'
  BY <1>3, QuietStep
<1>5. /\ stats' \in [D!Counters -> Nat]
      /\ stats'["total"] = stats["total"] + 1
      /\ \A c \in Ways : stats'[c] = stats[c]
  BY <1>2, CountStep DEF DaemonInv, Ways, D!Counters
<1>6. DaemonTypes'
  BY <1>2, <1>5 DEF DaemonInv, DaemonTypes
<1>7. /\ Cardinality(UnderWay) \in Nat /\ Cardinality(UnderWay') \in Nat
      /\ Cardinality(UnderWay') = Cardinality(UnderWay) + 1
  BY <1>1, <1>2, UnderWayMove DEF DaemonInv
<1>8. Accounted'
  BY <1>2, <1>5, <1>7 DEF DaemonInv, DaemonTypes, Accounted, Ways, D!Counters
<1> QED
  BY <1>4, <1>6, <1>8 DEF DaemonInv

(* A task that goes on and counts nothing that Accounted looks at. *)
LEMMA GoOn ==
  ASSUME DaemonInv, NEW t \in Tasks, NEW l \in Places \ {"free"}, task[t].pc # "free",
         D!Go(t, l), stats' \in [D!Counters -> Nat], served' = served,
         \A c \in Ways \cup {"total"} : stats'[c] = stats[c]
  PROVE  Accounted'
<1>1. PICK r \in TaskRecords : r = [task[t] EXCEPT !.pc = l]
  BY DEF DaemonInv, DaemonTypes, TaskRecords
<1>2. r.pc = l /\ task' = [task EXCEPT ![t] = r]
  BY <1>1 DEF D!Go, DaemonInv, DaemonTypes, TaskRecords
<1>3. Cardinality(UnderWay') = Cardinality(UnderWay)
  BY <1>2, UnderWayMove DEF DaemonInv
<1> QED
  BY <1>3 DEF DaemonInv, Accounted, Ways

(* Every step that closes a connection after its admission began. *)
LEMMA CloseStep ==
  ASSUME DaemonInv, NEW t \in Tasks, task[t].pc # "free", D!Close(t),
         UNCHANGED <<ticks, peers, gen, evicted>>,
         stats' \in [D!Counters -> Nat],
         \/ /\ served' = served + 1
            /\ \A c \in Ways \cup {"total"} : stats'[c] = stats[c]
         \/ /\ served' = served
            /\ \E w \in Ways : /\ stats'[w] = stats[w] + 1
                               /\ \A c \in (Ways \cup {"total"}) \ {w} : stats'[c] = stats[c]
  PROVE  DaemonInv'
<1>1. PICK r \in TaskRecords : r = D!NoTask
  BY DEF D!NoTask, TaskRecords, Places
<1>2. task' = [task EXCEPT ![t] = r] /\ r.pc = "free"
  BY <1>1 DEF D!Close, D!NoTask
<1>3. QuietMove(t, r)
  BY <1>2 DEF QuietMove, Await, Hold
<1>4. Named' /\ Filled' /\ Overdrawn' /\ Permits' /\ OneSemaphore'
  BY <1>3, QuietStep
<1>5. served' \in Nat /\ Accounted'
  BY EndStep
<1>6. DaemonTypes'
  BY <1>2, <1>5 DEF DaemonInv, DaemonTypes
<1> QED
  BY <1>4, <1>5, <1>6 DEF DaemonInv

(* Every step that takes a connection on, with its peer's entry left alone.*)
LEMMA GoStep ==
  ASSUME DaemonInv, NEW t \in Tasks, NEW l \in Places \ {"free"}, task[t].pc # "free",
         D!Go(t, l), UNCHANGED <<ticks, peers, gen, evicted, served>>,
         stats' \in [D!Counters -> Nat],
         \A c \in Ways \cup {"total"} : stats'[c] = stats[c],
         l \in Await => task[t].pc \in Await,
         l \in Await \cup Hold => task[t].pc \in Await \cup Hold,
         l \in Hold => \/ task[t].pc \in Hold
                       \/ Cardinality(Holders(task[t].peer, task[t].gen)) < MaxConcurrent
  PROVE  DaemonInv'
<1>1. PICK r \in TaskRecords : r = [task[t] EXCEPT !.pc = l]
  BY DEF DaemonInv, DaemonTypes, TaskRecords
<1>2. /\ r.pc = l /\ r.peer = task[t].peer /\ r.gen = task[t].gen
      /\ task' = [task EXCEPT ![t] = r]
  BY <1>1 DEF D!Go, DaemonInv, DaemonTypes, TaskRecords
<1>3. QuietMove(t, r)
  BY <1>2 DEF QuietMove, DaemonInv, Named
<1>4. Named' /\ Filled' /\ Overdrawn' /\ Permits' /\ OneSemaphore'
  BY <1>3, QuietStep
<1>5. Accounted'
  BY GoOn
<1>6. DaemonTypes'
  BY <1>2 DEF DaemonInv, DaemonTypes
<1> QED
  BY <1>4, <1>5, <1>6 DEF DaemonInv

LEMMA AcquireStep ==
  ASSUME DaemonInv, NEW t \in Tasks, D!Acquire(t)
  PROVE  DaemonInv'
<1>1. task[t].pc = "acquire" /\ UNCHANGED <<ticks, peers, gen, served, evicted>>
  BY DEF D!Acquire, D!At
<1>2. CASE D!AcquireOk(t)
  <2>1. D!Go(t, "spend") /\ UNCHANGED stats
    BY <1>2 DEF D!Acquire
  <2>2. D!PeerPermits(task[t].peer, task[t].gen) < MaxConcurrent
    BY <1>2 DEF D!AcquireOk
  <2>3. Cardinality(Holders(task[t].peer, task[t].gen)) < MaxConcurrent
    BY <2>2, DaemonSets DEF D!PeerPermits, Holders
  <2>4. stats' \in [D!Counters -> Nat]
    BY <2>1 DEF DaemonInv, DaemonTypes
  <2> QED
    BY <1>1, <2>1, <2>3, <2>4, GoStep DEF Places, Await, Hold
<1>3. CASE ~D!AcquireOk(t)
  <2>1. D!Count({"concurrency"}) /\ D!Close(t)
    BY <1>3 DEF D!Acquire
  <2>2. /\ stats' \in [D!Counters -> Nat]
        /\ stats'["concurrency"] = stats["concurrency"] + 1
        /\ \A c \in (Ways \cup {"total"}) \ {"concurrency"} : stats'[c] = stats[c]
    BY <2>1, CountStep DEF DaemonInv, Ways, D!Counters
  <2> QED
    BY <1>1, <2>1, <2>2, CloseStep DEF Ways
<1> QED
  BY <1>2, <1>3

LEMMA AcquireGlobalStep ==
  ASSUME DaemonInv, NEW t \in Tasks, D!AcquireGlobal(t)
  PROVE  DaemonInv'
<1>1. task[t].pc = "global" /\ UNCHANGED <<ticks, peers, gen, served, evicted>>
  BY DEF D!AcquireGlobal, D!At
<1>2. CASE D!Go(t, "read") /\ UNCHANGED stats
  <2>1. stats' \in [D!Counters -> Nat]
    BY <1>2 DEF DaemonInv, DaemonTypes
  <2> QED
    BY <1>1, <1>2, <2>1, GoStep DEF Places, Await, Hold
<1>3. CASE D!Count({"busy"}) /\ D!Close(t)
  <2>2. /\ stats' \in [D!Counters -> Nat]
        /\ stats'["busy"] = stats["busy"] + 1
        /\ \A c \in (Ways \cup {"total"}) \ {"busy"} : stats'[c] = stats[c]
    BY <1>3, CountStep DEF DaemonInv, Ways, D!Counters
  <2> QED
    BY <1>1, <1>3, <2>2, CloseStep DEF Ways
<1> QED
  BY <1>2, <1>3 DEF D!AcquireGlobal

LEMMA AnswerStep ==
  ASSUME DaemonInv, NEW t \in Tasks,
         D!Converse(t) \/ D!RefuseScan(t) \/ D!ScanFails(t) \/ D!Reply(t)
  PROVE  DaemonInv'
<1>1. /\ task[t].pc # "free" /\ D!Close(t) /\ served' = served + 1
      /\ UNCHANGED <<ticks, peers, gen, evicted>>
  BY DEF D!Converse, D!RefuseScan, D!ScanFails, D!Reply, D!At, D!End
<1>2. UNCHANGED stats \/ D!Count({"scans", "path"}) \/ D!Count({"scans", "errors"})
  BY DEF D!Converse, D!RefuseScan, D!ScanFails, D!Reply
<1>3. stats' \in [D!Counters -> Nat] /\ \A c \in Ways \cup {"total"} : stats'[c] = stats[c]
  <2>1. CASE UNCHANGED stats
    BY <2>1 DEF DaemonInv, DaemonTypes
  <2>2. CASE D!Count({"scans", "path"})
    BY <2>2, CountStep DEF DaemonInv, Ways, D!Counters
  <2>3. CASE D!Count({"scans", "errors"})
    BY <2>3, CountStep DEF DaemonInv, Ways, D!Counters
  <2> QED
    BY <1>2, <2>1, <2>2, <2>3
<1> QED
  BY <1>1, <1>3, CloseStep

LEMMA ScanReportsStep ==
  ASSUME DaemonInv, NEW t \in Tasks, D!ScanReports(t)
  PROVE  DaemonInv'
<1>1. /\ task[t].pc = "read" /\ D!Go(t, "reply")
      /\ UNCHANGED <<ticks, peers, gen, served, evicted>>
  BY DEF D!ScanReports, D!At
<1>2. PICK found \in BOOLEAN : D!Count({"scans", "files"} \cup (IF found THEN {"infected"} ELSE {}))
  BY DEF D!ScanReports
<1>3. stats' \in [D!Counters -> Nat] /\ \A c \in Ways \cup {"total"} : stats'[c] = stats[c]
  <2>1. PICK C : C = {"scans", "files"} \cup (IF found THEN {"infected"} ELSE {})
    OBVIOUS
  <2>2. D!Count(C) /\ \A c \in Ways \cup {"total"} : c \notin C
    BY <1>2, <2>1 DEF Ways
  <2> QED
    BY <2>2, CountStep DEF DaemonInv, Ways, D!Counters
<1> QED
  BY <1>1, <1>3, GoStep DEF Places, Await, Hold

LEMMA SpendTokenStep ==
  ASSUME DaemonInv, NEW t \in Tasks, D!SpendToken(t)
  PROVE  DaemonInv'
<1>1. PICK q \in Peers : q = task[t].peer
  BY DEF D!SpendToken, D!At, DaemonInv, Named
<1>2. /\ task[t].pc = "spend" /\ D!Go(t, "global")
      /\ UNCHANGED <<ticks, gen, stats, served, evicted>>
      /\ peers' = [p \in DOMAIN peers |-> IF p = q THEN D!Spent(peers[p]) ELSE peers[p]]
  BY <1>1 DEF D!SpendToken, D!At
<1>3. PICK r \in TaskRecords : r = [task[t] EXCEPT !.pc = "global"]
  BY DEF DaemonInv, DaemonTypes, TaskRecords, Places
<1>4. /\ r.pc = "global" /\ r.peer = q /\ r.gen = task[t].gen
      /\ task' = [task EXCEPT ![t] = r]
  BY <1>1, <1>2, <1>3 DEF D!Go, DaemonInv, DaemonTypes, TaskRecords
<1>5. task'[t] = r /\ \A u \in Tasks \ {t} : task'[u] = task[u]
  BY <1>4 DEF DaemonInv, DaemonTypes
<1>6. DOMAIN peers' = DOMAIN peers
  BY <1>2
<1>7. \A p \in DOMAIN peers :
        /\ peers'[p] \in Buckets
        /\ peers'[p].tokens = peers[p].tokens - (IF p = q THEN 1 ELSE 0)
        /\ peers'[p].refill = peers[p].refill
  BY <1>2 DEF DaemonInv, DaemonTypes, Buckets, D!Spent
<1>8. DaemonTypes'
  BY <1>2, <1>4, <1>6, <1>7 DEF DaemonInv, DaemonTypes
<1>9. Named'
  BY <1>4, <1>5 DEF DaemonInv, Named
<1>10. Filled'
  BY <1>2, <1>6, <1>7, DaemonConstants DEF DaemonInv, DaemonTypes, Buckets, Filled
<1>11. Overdrawn'
  <2> SUFFICES ASSUME NEW p \in DOMAIN peers
               PROVE  peers'[p].tokens - Cardinality(Spending(p)') >= 1 - Cardinality(Tasks)
    BY <1>6 DEF Overdrawn
  <2>1. PICK S : S = Spending(p)
    OBVIOUS
  <2>2. PICK T : T = Spending(p)'
    OBVIOUS
  <2>3. S \in SUBSET Tasks /\ Cardinality(S) \in Nat
    BY <2>1, SubsetOfTasks DEF Spending
  <2>4. peers[p].tokens \in Int /\ peers[p].tokens - Cardinality(S) >= 1 - Cardinality(Tasks)
    BY <2>1 DEF DaemonInv, DaemonTypes, Buckets, Overdrawn
  <2>5. p = q => t \in S /\ T = S \ {t}
    BY <1>1, <1>2, <1>4, <1>5, <2>1, <2>2 DEF Spending
  <2>6. p # q => T = S
    BY <1>1, <1>2, <1>4, <1>5, <2>1, <2>2 DEF Spending
  <2>7. p = q => Cardinality(T) = Cardinality(S) - 1
    BY <2>3, <2>5, WithoutTask
  <2>8. CASE p = q
    BY <1>7, <2>2, <2>3, <2>4, <2>7, <2>8, DaemonConstants
  <2>9. CASE p # q
    BY <1>7, <2>2, <2>4, <2>6, <2>9
  <2> QED
    BY <2>8, <2>9
<1>12. Permits'
  <2>1. r.pc \in Hold => task[t].pc \in Hold /\ r.peer = task[t].peer /\ r.gen = task[t].gen
    BY <1>1, <1>2, <1>4 DEF Hold
  <2> QED
    BY <1>4, <2>1, HoldersMove DEF DaemonInv
<1>13. OneSemaphore'
  BY <1>1, <1>2, <1>4, <1>5, <1>6 DEF DaemonInv, OneSemaphore, D!Attached, D!HoldsPeer
<1>14. Accounted'
  <2>1. stats' \in [D!Counters -> Nat]
    BY <1>2 DEF DaemonInv, DaemonTypes
  <2> QED
    BY <1>2, <2>1, GoOn DEF Places
<1> QED
  BY <1>8, <1>9, <1>10, <1>11, <1>12, <1>13, <1>14 DEF DaemonInv

(* The bucket of the peer after the first critical section of admit: never *)
(* less than before if it was kept.                                        *)
LEMMA SeenBucket ==
  ASSUME DaemonInv, NEW p \in Peers
  PROVE  /\ D!Seen(p) \in Buckets
         /\ D!Seen(p).tokens <= Burst /\ D!Seen(p).refill = ticks
         /\ p \in D!Kept => p \in DOMAIN peers /\ D!Seen(p).tokens >= peers[p].tokens
         /\ p \notin D!Kept => D!Seen(p).tokens = Burst
<1>1. ticks \in Nat /\ Burst \in Nat /\ RatePerTick \in Nat
  BY DaemonConstants DEF DaemonInv, DaemonTypes
<1>2. CASE p \in D!Kept
  <2>1. p \in DOMAIN peers
    BY <1>2 DEF D!Kept
  <2>2. PICK bk \in Buckets : bk = peers[p]
    BY <2>1 DEF DaemonInv, DaemonTypes
  <2>3. bk.tokens \in Int /\ bk.tokens <= Burst /\ bk.refill \in Nat /\ bk.refill <= ticks
    BY <2>1, <2>2 DEF DaemonInv, Filled, Buckets
  <2>4. PICK d \in Nat : d = ticks - bk.refill
    BY <1>1, <2>3
  <2>5. PICK e \in Nat : e = d * RatePerTick
    BY <1>1
  <2>6. D!Refilled(bk) = IF bk.tokens + e < Burst THEN bk.tokens + e ELSE Burst
    BY <2>4, <2>5 DEF D!Refilled, D!Min2
  <2>7. D!Refilled(bk) \in Int /\ D!Refilled(bk) <= Burst /\ D!Refilled(bk) >= bk.tokens
    BY <1>1, <2>3, <2>6
  <2>8. D!Seen(p) = [bk EXCEPT !.tokens = D!Refilled(bk), !.refill = ticks, !.seen = ticks]
    BY <1>2, <2>2 DEF D!Seen
  <2>9. /\ D!Seen(p) \in Buckets
        /\ D!Seen(p).tokens = D!Refilled(bk) /\ D!Seen(p).refill = ticks
    BY <1>1, <2>7, <2>8 DEF Buckets
  <2> QED
    BY <1>2, <2>1, <2>2, <2>7, <2>9
<1>3. CASE p \notin D!Kept
  <2>1. D!Seen(p) = [tokens |-> Burst, refill |-> ticks, seen |-> ticks]
    BY <1>3 DEF D!Seen
  <2> QED
    BY <1>1, <1>3, <2>1 DEF Buckets
<1> QED
  BY <1>2, <1>3

LEMMA AdmitStep ==
  ASSUME DaemonInv, NEW t \in Tasks, D!Admit(t)
  PROVE  DaemonInv'
<1>1. PICK p \in Peers : p = task[t].peer
  BY DEF D!Admit, D!At, DaemonInv, Named
<1>2. PICK K : K = D!Kept
  OBVIOUS
<1>3. PICK bk \in Buckets : bk = D!Seen(p)
  BY SeenBucket
<1>4. PICK g \in Nat : g = IF p \in K THEN gen[p] ELSE gen[p] + 1
  <2>1. gen[p] \in Nat
    BY DEF DaemonInv, DaemonTypes
  <2> QED
    BY <2>1
<1>5. /\ task[t].pc = "admit"
      /\ UNCHANGED <<ticks, served>>
      /\ peers' = [q \in K \cup {p} |-> IF q = p THEN bk ELSE peers[q]]
      /\ gen' = [gen EXCEPT ![p] = g]
      /\ evicted' = evicted \cup {q \in DOMAIN peers \ K :
                                    \E u \in Tasks : D!Attached(u) /\ task[u].peer = q}
      /\ IF bk.tokens < 1
         THEN D!Count({"rate"}) /\ D!Close(t)
         ELSE task' = [task EXCEPT ![t].pc = "acquire", ![t].gen = g] /\ UNCHANGED stats
  BY <1>1, <1>2, <1>3, <1>4 DEF D!Admit, D!At
<1>6. PICK r \in TaskRecords :
        r = IF bk.tokens < 1 THEN D!NoTask ELSE [task[t] EXCEPT !.pc = "acquire", !.gen = g]
  BY DEF DaemonInv, DaemonTypes, TaskRecords, Places, D!NoTask
<1>7. /\ bk.tokens < 1 => r.pc = "free"
      /\ ~(bk.tokens < 1) => r.pc = "acquire" /\ r.peer = p /\ r.gen = g
  BY <1>1, <1>6 DEF DaemonInv, DaemonTypes, TaskRecords, D!NoTask
<1>8. task' = [task EXCEPT ![t] = r]
  BY <1>5, <1>6 DEF D!Close, DaemonInv, DaemonTypes, TaskRecords
<1>9. task'[t] = r /\ \A u \in Tasks \ {t} : task'[u] = task[u]
  BY <1>8 DEF DaemonInv, DaemonTypes
<1>10. K \subseteq DOMAIN peers /\ DOMAIN peers' = K \cup {p}
  BY <1>2, <1>5 DEF D!Kept
<1>11. bk.tokens \in Int /\ bk.tokens <= Burst /\ bk.refill = ticks
  BY <1>3, SeenBucket DEF Buckets
<1>12. peers'[p] = bk /\ \A q \in K \ {p} : peers'[q] = peers[q]
  BY <1>5
<1>13. /\ bk.tokens < 1 => /\ stats' \in [D!Counters -> Nat]
                          /\ stats'["rate"] = stats["rate"] + 1
                          /\ \A c \in (Ways \cup {"total"}) \ {"rate"} : stats'[c] = stats[c]
       /\ ~(bk.tokens < 1) => stats' = stats /\ stats' \in [D!Counters -> Nat]
  <2>1. CASE bk.tokens < 1
    BY <1>5, <2>1, CountStep DEF DaemonInv, Ways, D!Counters
  <2>2. CASE ~(bk.tokens < 1)
    BY <1>5, <2>2 DEF DaemonInv, DaemonTypes
  <2> QED
    BY <2>1, <2>2
<1>14. DaemonTypes'
  <2>1. task' \in [Tasks -> TaskRecords] /\ gen' \in [Peers -> Nat]
    BY <1>5, <1>8 DEF DaemonInv, DaemonTypes
  <2>2. DOMAIN peers' \subseteq Peers /\ \A q \in DOMAIN peers' : peers'[q] \in Buckets
    BY <1>10, <1>12 DEF DaemonInv, DaemonTypes
  <2>3. ticks' \in Nat /\ served' \in Nat /\ stats' \in [D!Counters -> Nat]
    BY <1>5, <1>13 DEF DaemonInv, DaemonTypes
  <2> QED
    BY <2>1, <2>2, <2>3 DEF DaemonTypes
<1>15. Named'
  BY <1>7, <1>9 DEF DaemonInv, Named
<1>16. Filled'
  BY <1>5, <1>10, <1>11, <1>12 DEF DaemonInv, DaemonTypes, Filled
<1>17. Overdrawn'
  <2> SUFFICES ASSUME NEW q \in DOMAIN peers'
               PROVE  peers'[q].tokens - Cardinality(Spending(q)') >= 1 - Cardinality(Tasks)
    BY DEF Overdrawn
  <2>1. PICK S : S = Spending(q)
    OBVIOUS
  <2>2. PICK T : T = Spending(q)'
    OBVIOUS
  <2>3. S \in SUBSET Tasks /\ t \notin S /\ T \in SUBSET Tasks
    BY <1>5, <2>1, <2>2 DEF Spending
  <2>4. /\ Cardinality(S) \in Nat /\ Cardinality(S) <= Cardinality(Tasks) - 1
        /\ Cardinality(T) \in Nat /\ Cardinality(T) <= Cardinality(Tasks)
    BY <2>3, SubsetOfTasks, ProperSubsetOfTasks
  <2>5. q # p \/ bk.tokens < 1 => T = S
    BY <1>7, <1>9, <2>1, <2>2, <2>3 DEF Spending
  <2>6. q \in DOMAIN peers => /\ peers[q].tokens \in Int
                              /\ peers[q].tokens - Cardinality(S) >= 1 - Cardinality(Tasks)
    BY <2>1 DEF DaemonInv, DaemonTypes, Buckets, Overdrawn
  <2>7. CASE q # p
    <3>1. q \in DOMAIN peers /\ peers'[q] = peers[q]
      BY <1>10, <1>12, <2>7
    <3> QED
      BY <2>2, <2>5, <2>6, <2>7, <3>1
  <2>8. CASE q = p /\ bk.tokens < 1 /\ p \in K
    <3>1. p \in DOMAIN peers /\ bk.tokens >= peers[p].tokens
      BY <1>2, <1>3, <2>8, SeenBucket
    <3> QED
      BY <1>11, <1>12, <2>2, <2>4, <2>5, <2>6, <2>8, <3>1, DaemonConstants
  <2>9. CASE q = p /\ bk.tokens < 1 /\ p \notin K
    <3>1. bk.tokens = Burst
      BY <1>2, <1>3, <2>9, SeenBucket
    <3> QED
      BY <1>12, <2>2, <2>4, <2>5, <2>9, <3>1, DaemonConstants
  <2>10. CASE q = p /\ ~(bk.tokens < 1)
    BY <1>11, <1>12, <2>2, <2>4, <2>10, DaemonConstants
  <2> QED
    BY <2>7, <2>8, <2>9, <2>10
<1>18. Permits'
  <2>1. r.pc \notin Hold
    BY <1>7 DEF Hold
  <2> QED
    BY <1>8, <2>1, HoldersMove DEF DaemonInv
<1>19. OneSemaphore'
  <2> SUFFICES ASSUME evicted' = {}, NEW u \in Tasks, D!Attached(u)'
               PROVE  task'[u].peer \in DOMAIN peers' /\ task'[u].gen = gen'[task'[u].peer]
    BY DEF OneSemaphore
  <2>1. gen'[p] = g /\ \A q \in Peers \ {p} : gen'[q] = gen[q]
    BY <1>5 DEF DaemonInv, DaemonTypes
  <2>2. CASE u = t
    <3>1. r.pc # "free"
      BY <1>9, <2>2 DEF D!Attached, D!HoldsPeer
    <3> QED
      BY <1>7, <1>9, <1>10, <2>1, <2>2, <3>1
  <2>3. CASE u # t
    <3>1. PICK q : q = task[u].peer
      OBVIOUS
    <3>2. D!Attached(u) /\ task'[u].peer = q /\ task'[u].gen = task[u].gen
      BY <1>9, <2>3, <3>1 DEF D!Attached, D!HoldsPeer
    <3>3. q \in Peers /\ q \in DOMAIN peers /\ task[u].gen = gen[q]
      BY <1>5, <3>1, <3>2 DEF DaemonInv, DaemonTypes, OneSemaphore
    <3>4. q \in K
      BY <1>5, <3>1, <3>2, <3>3
    <3>5. gen'[q] = gen[q]
      BY <1>4, <2>1, <3>3, <3>4
    <3> QED
      BY <1>10, <3>2, <3>3, <3>4, <3>5
  <2> QED
    BY <2>2, <2>3
<1>20. Accounted'
  <2>1. CASE bk.tokens < 1
    <3>1. D!Close(t) /\ task[t].pc # "free"
      BY <1>5, <2>1
    <3> QED
      BY <1>5, <1>13, <2>1, <3>1, EndStep DEF Ways
  <2>2. CASE ~(bk.tokens < 1)
    <3>1. Cardinality(UnderWay') = Cardinality(UnderWay)
      BY <1>5, <1>7, <1>8, <2>2, UnderWayMove DEF DaemonInv
    <3> QED
      BY <1>5, <1>13, <2>2, <3>1 DEF DaemonInv, Accounted
  <2> QED
    BY <2>1, <2>2
<1> QED
  BY <1>14, <1>15, <1>16, <1>17, <1>18, <1>19, <1>20 DEF DaemonInv

LEMMA DaemonInvStep ==
  ASSUME DaemonInv, [D!Next]_(D!vars)
  PROVE  DaemonInv'
<1>1. CASE D!Tick \/ D!Shutdown \/ UNCHANGED D!vars
  <2>1. /\ ticks' \in Nat /\ ticks' >= ticks
        /\ UNCHANGED <<peers, gen, task, stats, served, evicted>>
    BY <1>1 DEF D!Tick, D!Shutdown, D!vars, DaemonInv, DaemonTypes
  <2> QED
    BY <2>1, TickStep
<1>2. ASSUME NEW t \in Tasks,
             \/ \E p \in Peers : D!Accept(t, p)
             \/ D!Admit(t) \/ D!Acquire(t) \/ D!SpendToken(t) \/ D!AcquireGlobal(t)
             \/ D!Converse(t) \/ D!RefuseScan(t) \/ D!ScanFails(t) \/ D!ScanReports(t) \/ D!Reply(t)
      PROVE  DaemonInv'
  BY <1>2, AcceptStep, AdmitStep, AcquireStep, SpendTokenStep, AcquireGlobalStep, AnswerStep,
     ScanReportsStep
<1> QED
  BY <1>1, <1>2 DEF D!Next

(***************************************************************************)
(* With every connection inside from one peer, and none of its entries     *)
(* evicted, they all hold permits of one semaphore.                        *)
(***************************************************************************)
LEMMA AloneIsCapped ==
  ASSUME DaemonInv, evicted = {}, D!Cardinality({task[u].peer : u \in D!Inside}) = 1
  PROVE  D!Cardinality(D!Inside) <= MaxConcurrent
<1>1. PICK I : I = D!Inside
  OBVIOUS
<1>2. I \in SUBSET Tasks /\ \A u \in I : task[u].pc \in {"read", "reply"}
  BY <1>1 DEF D!Inside, D!HoldsGlobal
<1>3. PICK P : P = {task[u].peer : u \in I}
  OBVIOUS
<1>4. IsFiniteSet(I) /\ IsFiniteSet(P)
  <2>1. IsFiniteSet(I)
    BY <1>2, SubsetOfTasks
  <2>2. [u \in I |-> task[u].peer] \in Surjection(I, P)
    BY <1>3 DEF Surjection
  <2> QED
    BY <2>1, <2>2, FS_Surjection
<1>5. Cardinality(P) = 1
  BY <1>1, <1>3, DaemonSets
<1>6. PICK x : P = {x}
  BY <1>4, <1>5, FS_Singleton
<1>7. PICK w \in I : task[w].peer = x
  BY <1>3, <1>6
<1>8. x \in Peers
  BY <1>2, <1>7 DEF DaemonInv, Named
<1>9. PICK g \in Nat : g = gen[x]
  BY <1>8 DEF DaemonInv, DaemonTypes
<1>10. PICK H : H = Holders(x, g)
  OBVIOUS
<1>11. I \in SUBSET H
  <2> SUFFICES ASSUME NEW u \in I PROVE u \in H
    OBVIOUS
  <2>1. task[u].peer = x
    BY <1>3, <1>6
  <2>2. u \in Tasks /\ D!HoldsPeer(u) /\ D!Attached(u)
    BY <1>2 DEF D!HoldsPeer, D!Attached
  <2>3. task[u].gen = g
    BY <1>9, <2>1, <2>2 DEF DaemonInv, OneSemaphore
  <2> QED
    BY <1>10, <2>1, <2>2, <2>3 DEF Holders
<1>12. H \in SUBSET Tasks /\ Cardinality(H) <= MaxConcurrent
  BY <1>8, <1>10 DEF DaemonInv, Permits, Holders
<1>13. /\ Cardinality(I) <= Cardinality(H)
       /\ Cardinality(I) \in Nat /\ Cardinality(H) \in Nat
  BY <1>2, <1>11, <1>12, SubsetOfTasks, FS_Subset
<1> QED
  BY <1>1, <1>12, <1>13, DaemonSets, DaemonConstants

LEMMA SharedStep ==
  ASSUME MaxConcurrent < MaxConnections, DaemonInv, D!BusyMeansShared, [D!Next]_(D!vars)
  PROVE  D!BusyMeansShared'
<1>1. CASE UNCHANGED lonely
  BY <1>1 DEF D!BusyMeansShared
<1>2. ASSUME NEW t \in Tasks, D!AcquireGlobal(t), ~UNCHANGED lonely
      PROVE  D!BusyMeansShared'
  <2>1. /\ ~(D!Cardinality(D!Inside) < MaxConnections)
        /\ lonely' = (lonely \/ (evicted = {} /\ D!Cardinality({task[u].peer : u \in D!Inside}) = 1))
    BY <1>2 DEF D!AcquireGlobal
  <2>2. CASE evicted = {} /\ D!Cardinality({task[u].peer : u \in D!Inside}) = 1
    <3>1. D!Cardinality(D!Inside) <= MaxConcurrent
      BY <2>2, AloneIsCapped
    <3>2. D!Cardinality(D!Inside) \in Nat
      <4>1. D!Inside \in SUBSET Tasks
        BY DEF D!Inside
      <4> QED
        BY <4>1, SubsetOfTasks, DaemonSets
    <3> QED
      BY <2>1, <3>1, <3>2, DaemonConstants
  <2>3. CASE ~(evicted = {} /\ D!Cardinality({task[u].peer : u \in D!Inside}) = 1)
    BY <2>1, <2>3 DEF D!BusyMeansShared
  <2> QED
    BY <2>2, <2>3
<1>3. UNCHANGED lonely \/ \E t \in Tasks : D!AcquireGlobal(t)
  BY DEF D!Next, D!vars, D!Tick, D!Shutdown, D!Accept, D!Admit, D!Acquire, D!SpendToken,
         D!Converse, D!RefuseScan, D!ScanFails, D!ScanReports, D!Reply
<1> QED
  BY <1>1, <1>2, <1>3

-----------------------------------------------------------------------------
(* A behaviour of the composition is one of each of the three parts, that  *)
(* may stutter for ever.                                                   *)
LEMMA PartsInit ==
  MCInit => G!Init /\ U!Init /\ D!Init
BY DEF MCInit

LEMMA PartsStep ==
  ASSUME [MCNext]_<<part, vars, guard, update, daemon>>
  PROVE  [G!Next]_(G!vars) /\ [U!Next]_(U!vars) /\ [D!Next]_(D!vars)
<1>1. UNCHANGED guard => UNCHANGED G!vars
  BY DEF guard, G!vars, G!disks, G!history
<1>2. UNCHANGED update => UNCHANGED U!vars
  BY DEF update, U!vars
<1>3. UNCHANGED daemon => UNCHANGED D!vars
  BY DEF daemon, D!vars
<1>4. \/ UNCHANGED guard /\ UNCHANGED update /\ UNCHANGED daemon
      \/ G!Next /\ UNCHANGED update /\ UNCHANGED daemon
      \/ U!Next /\ UNCHANGED guard /\ UNCHANGED daemon
      \/ D!Next /\ UNCHANGED guard /\ UNCHANGED update
  BY DEF MCNext
<1> QED
  BY <1>1, <1>2, <1>3, <1>4

(* RemovedIsHeld: contents that rclam or rclam-watch removed from a path    *)
(* can be restored from a listed record, whichever programs are killed      *)
(* between quarantine_bytes and remove_file, and whoever restores, deletes  *)
(* and rewrites meanwhile, up to the cases the property names.              *)
THEOREM RemovedHeld ==
  MCSpec => []RemovedIsHeld
<1>1. MCInit => GuardInv
  BY PartsInit, GuardInvInit
<1>2. GuardInv /\ [MCNext]_<<part, vars, guard, update, daemon>> => GuardInv'
  BY PartsStep, GuardInvStep
<1>3. GuardInv => RemovedIsHeld
  BY DEF GuardInv, RemovedIsHeld
<1> QED
  BY <1>1, <1>2, <1>3, PTL DEF MCSpec

(* MissedOnlyInBurst: a monitor that stayed up and is at rest has scanned   *)
(* what is at the path, unless it came within the debounce of the event     *)
(* that handle_event last took up, for every debounce and channel length.   *)
THEOREM MissedInBurst ==
  MCSpec => []MissedOnlyInBurst
<1>1. MCInit => GuardInv /\ BurstInv
  BY PartsInit, GuardInvInit, BurstInvInit
<1>2. GuardInv /\ BurstInv /\ [MCNext]_<<part, vars, guard, update, daemon>> => (GuardInv /\ BurstInv)'
  BY PartsStep, GuardInvStep, BurstInvStep
<1>3. GuardInv /\ BurstInv => MissedOnlyInBurst
  BY DEF BurstInv, Clocks, Noticed, InBurst, MissedOnlyInBurst, G!MissedOnlyInBurst, G!At, G!Never
<1> QED
  BY <1>1, <1>2, <1>3, PTL DEF MCSpec

(* SwapIsAtomic: with any number of overlapping updates, files and          *)
(* releases, apply_update leaves the live directory complete or missing     *)
(* until a roll back that was not alone, and one crash or failed rename     *)
(* never leaves the host without a complete generation.                     *)
THEOREM SwapAtomic ==
  MCSpec => []SwapIsAtomic
<1>1. MCInit => UpdateInv
  BY PartsInit, UpdateInvInit
<1>2. UpdateInv /\ [MCNext]_<<part, vars, guard, update, daemon>> => UpdateInv'
  BY PartsStep, UpdateInvStep
<1>3. UpdateInv => SwapIsAtomic
  BY GenerationIsLeft DEF SwapIsAtomic
<1> QED
  BY <1>1, <1>2, <1>3, PTL DEF MCSpec

(* OverdraftBounded: PeerLimits::admit checks a bucket in one critical      *)
(* section and spends from it in another; the tasks that were checked       *)
(* together overdraw it by less than their number, whatever is evicted.     *)
THEOREM OverdraftIsBounded ==
  MCSpec => []OverdraftBounded
<1>1. MCInit => DaemonInv
  BY PartsInit, DaemonInvInit
<1>2. DaemonInv /\ [MCNext]_<<part, vars, guard, update, daemon>> => DaemonInv'
  BY PartsStep, DaemonInvStep
<1>3. DaemonInv => OverdraftBounded
  <2> SUFFICES ASSUME DaemonInv, NEW p \in DOMAIN peers
               PROVE  peers[p].tokens > -D!Cardinality(Tasks)
    BY DEF OverdraftBounded, D!OverdraftBounded
  <2>1. PICK n \in Nat : n = Cardinality(Spending(p))
    BY SubsetOfTasks DEF Spending
  <2>2. PICK m \in Nat : m = Cardinality(Tasks)
    BY DaemonConstants
  <2>3. peers[p].tokens \in Int /\ peers[p].tokens - n >= 1 - m
    BY <2>1, <2>2 DEF DaemonInv, DaemonTypes, Buckets, Overdrawn
  <2>4. D!Cardinality(Tasks) = m
    BY <2>2, DaemonSets
  <2> QED
    BY <2>3, <2>4
<1> QED
  BY <1>1, <1>2, <1>3, PTL DEF MCSpec

(* AdmissionIsFair: when one peer may hold fewer connections than the       *)
(* daemon takes, a connection is turned away as busy only with two peers    *)
(* inside or an entry evicted (PeerLimits::admit, the global semaphore);    *)
(* and each connection ends in exactly one counter of Metrics.              *)
THEOREM AdmissionFair ==
  ASSUME MaxConcurrent < MaxConnections
  PROVE  MCSpec => []AdmissionIsFair
<1>1. MCInit => DaemonInv /\ D!BusyMeansShared
  BY PartsInit, DaemonInvInit DEF D!Init, D!BusyMeansShared
<1>2. DaemonInv /\ D!BusyMeansShared /\ [MCNext]_<<part, vars, guard, update, daemon>>
        => (DaemonInv /\ D!BusyMeansShared)'
  BY PartsStep, DaemonInvStep, SharedStep
<1>3. DaemonInv => D!MetricsAddUp
  <2> SUFFICES ASSUME DaemonInv PROVE D!MetricsAddUp
    OBVIOUS
  <2>1. D!Cardinality({t \in Tasks : task[t].pc # "free"}) = Cardinality(UnderWay)
    BY DaemonSets DEF UnderWay
  <2> QED
    BY <2>1 DEF DaemonInv, Accounted, D!MetricsAddUp
<1>4. DaemonInv /\ D!BusyMeansShared => AdmissionIsFair
  BY <1>3 DEF AdmissionIsFair
<1> QED
  BY <1>1, <1>2, <1>4, PTL DEF MCSpec

-----------------------------------------------------------------------------
(***************************************************************************)
(* One scan.  First natural numbers, and the recursive functions the scan  *)
(* is built from.                                                          *)
(***************************************************************************)

\* A set of natural numbers has a least element.
LEMMA LeastNumber ==
  ASSUME NEW T \in SUBSET Nat, T # {}
  PROVE  \E n \in T : \A m \in T : n <= m
<1> DEFINE R == {p \in Nat \X Nat : p[1] < p[2]}
<1>0. IsWellFoundedOn(R, Nat)
  BY NatLessThanWellFounded DEF OpToRel
<1>1. PICK n \in T : \A m \in T : ~(<<m, n>> \in R)
  <2> HIDE DEF R
  <2> QED
    BY <1>0, WFMin
<1>2. ASSUME NEW m \in T PROVE n <= m
  <2>1. m \in Nat /\ n \in Nat
    OBVIOUS
  <2>2. m < n => <<m, n>> \in R
    BY <2>1
  <2> QED
    BY <1>1, <2>1, <2>2
<1> QED
  BY <1>2

LEMMA GreatestNumber ==
  ASSUME NEW T \in SUBSET Nat, T # {}, NEW bound \in Nat, \A m \in T : m <= bound
  PROVE  \E n \in T : \A m \in T : m <= n
<1> DEFINE V == {k \in 0..bound : bound - k \in T}
<1>1. \A m \in T : bound - m \in V /\ bound - (bound - m) = m
  OBVIOUS
<1>2. V \in SUBSET Nat /\ V # {}
  <2>1. V \subseteq Nat
    OBVIOUS
  <2>2. PICK m \in T : TRUE
    OBVIOUS
  <2> QED
    BY <1>1, <2>1, <2>2
<1>3. \A k \in V : bound - k \in T
  OBVIOUS
<1> HIDE DEF V
<1>4. PICK k \in V : \A j \in V : k <= j
  BY <1>2, LeastNumber
<1>5. \A m \in T : m <= bound - k
  <2> SUFFICES ASSUME NEW m \in T PROVE m <= bound - k
    OBVIOUS
  <2>1. k <= bound - m /\ k \in Nat /\ m \in Nat
    BY <1>1, <1>2, <1>4
  <2> QED
    BY <2>1
<1> QED
  BY <1>3, <1>4, <1>5

LEMMA EveryNumber ==
  ASSUME NEW T, 0 \in T, \A n \in Nat : n \in T => n + 1 \in T
  PROVE  \A n \in Nat : n \in T
<1> DEFINE Missing == {n \in Nat : n \notin T}
<1> SUFFICES ASSUME Missing # {} PROVE FALSE
  OBVIOUS
<1>1. PICK n \in Missing : \A m \in Missing : n <= m
  <2>1. Missing \in SUBSET Nat
    OBVIOUS
  <2> HIDE DEF Missing
  <2> QED
    BY <2>1, LeastNumber
<1>2. n \in Nat \ {0} /\ n - 1 \in Nat /\ (n - 1) + 1 = n
  OBVIOUS
<1>3. n - 1 \in Missing
  BY <1>2
<1> QED
  BY <1>1, <1>2, <1>3

\* A recursion over 0..n whose steps stay in a set has a solution.
Stays(step, n, S) == \A k \in 1..n, s \in S : step[<<k, s>>] \in S

Unfolds(f, n, S, base, step) ==
  /\ f \in [0..n -> S] /\ f[0] = base
  /\ \A k \in 1..n : f[k] = step[<<k, f[k-1]>>]

LEMMA Recursion ==
  ASSUME NEW S, NEW n \in Nat, NEW base \in S, NEW step, Stays(step, n, S)
  PROVE  \E f : Unfolds(f, n, S, base, step)
<1> USE DEF Stays, Unfolds
<1> DEFINE Solves(f, m) == /\ f \in [0..m -> S] /\ f[0] = base
                           /\ \A k \in 1..m : f[k] = step[<<k, f[k-1]>>]
           T == {m \in Nat : m <= n => \E f : Solves(f, m)}
<1>1. 0 \in T
  <2>1. Solves([k \in 0..0 |-> base], 0)
    OBVIOUS
  <2> QED
    BY <2>1
<1>2. ASSUME NEW m \in Nat, m \in T PROVE m + 1 \in T
  <2> SUFFICES ASSUME m + 1 <= n PROVE \E f : Solves(f, m + 1)
    OBVIOUS
  <2>1. PICK f : Solves(f, m)
    BY <1>2
  <2> DEFINE g == [k \in 0..(m + 1) |-> IF k = m + 1 THEN step[<<m + 1, f[m]>>] ELSE f[k]]
  <2>2. \A k \in 0..m : g[k] = f[k] /\ f[k] \in S
    BY <2>1
  <2>3. g[m + 1] = step[<<m + 1, f[m]>>] /\ step[<<m + 1, f[m]>>] \in S
    BY <2>2
  <2>4. g \in [0..(m + 1) -> S] /\ g[0] = base
    BY <2>1, <2>2, <2>3
  <2>5. ASSUME NEW k \in 1..(m + 1) PROVE g[k] = step[<<k, g[k-1]>>]
    <3>1. CASE k = m + 1
      <4>1. g[k-1] = f[m]
        BY <2>2, <3>1
      <4> QED
        BY <2>3, <3>1, <4>1
    <3>2. CASE k \in 1..m
      <4>1. g[k] = f[k] /\ g[k-1] = f[k-1]
        BY <2>2, <3>2
      <4> QED
        BY <2>1, <3>2, <4>1
    <3> QED
      BY <3>1, <3>2
  <2> HIDE DEF g
  <2> QED
    BY <2>4, <2>5
<1> HIDE DEF T
<1>3. n \in T
  BY <1>1, <1>2, EveryNumber
<1> QED
  BY <1>3 DEF T

(***************************************************************************)
(* The parts of a pattern.                                                 *)
(***************************************************************************)
IsPattern(p) ==
  /\ p \in Seq(Range(p))
  /\ \A i \in DOMAIN p : IsGap(p[i]) => p[i].min \in Nat /\ p[i].max \in Nat

GapEquation(f, p) ==
  f = [i \in 0..Len(p) |->
         IF i = 0 THEN <<>> ELSE IF IsGap(p[i]) THEN Append(f[i-1], i) ELSE f[i-1]]

LEMMA GapScan ==
  ASSUME NEW p, IsPattern(p)
  PROVE  \E f : GapEquation(f, p)
<1> PICK n \in Nat : n = Len(p)
  BY LenProperties DEF IsPattern
<1> DEFINE S == Seq(1..n)
           step == [q \in (1..n) \X S |-> IF IsGap(p[q[1]]) THEN Append(q[2], q[1]) ELSE q[2]]
<1>1. ASSUME NEW k \in 1..n, NEW s \in S
      PROVE  /\ step[<<k, s>>] = IF IsGap(p[k]) THEN Append(s, k) ELSE s
             /\ step[<<k, s>>] \in S
  <2>1. step[<<k, s>>] = IF IsGap(p[k]) THEN Append(s, k) ELSE s
    OBVIOUS
  <2>2. Append(s, k) \in S
    BY AppendProperties
  <2> QED
    BY <2>1, <2>2
<1>2. <<>> \in S
  OBVIOUS
<1> HIDE DEF step, S
<1>3. PICK f : Unfolds(f, n, S, <<>>, step)
  <2>1. Stays(step, n, S)
    BY <1>1 DEF Stays
  <2> QED
    BY <1>2, <2>1, Recursion
<1>4. ASSUME NEW i \in 0..n
      PROVE  f[i] = IF i = 0 THEN <<>> ELSE IF IsGap(p[i]) THEN Append(f[i-1], i) ELSE f[i-1]
  <2>1. CASE i = 0
    BY <1>3, <2>1 DEF Unfolds
  <2>2. CASE i \in 1..n
    <3>1. f[i-1] \in S
      BY <1>3, <2>2 DEF Unfolds
    <3>2. f[i] = step[<<i, f[i-1]>>] /\ i # 0
      BY <1>3, <2>2 DEF Unfolds
    <3> QED
      BY <1>1, <2>2, <3>1, <3>2
  <2> QED
    BY <2>1, <2>2
<1>5. GapEquation(f, p)
  BY <1>3, <1>4 DEF GapEquation, Unfolds
<1> QED
  BY <1>5

\* split_on_gaps finds the gaps from left to right.
LEMMA GapPositions ==
  ASSUME NEW p, IsPattern(p)
  PROVE  /\ GapAt(p) \in Seq(1..Len(p))
         /\ \A k \in 1..Len(GapAt(p)) : IsGap(p[GapAt(p)[k]])
<1> PICK n \in Nat : n = Len(p)
  BY LenProperties DEF IsPattern
<1> DEFINE f == CHOOSE h : GapEquation(h, p)
<1>1. GapEquation(f, p)
  BY GapScan
<1>2. GapAt(p) = f[n]
  BY DEF GapAt, GapEquation
<1> HIDE DEF f
<1>3. \A i \in 0..n : f[i] = IF i = 0 THEN <<>>
                             ELSE IF IsGap(p[i]) THEN Append(f[i-1], i) ELSE f[i-1]
  BY <1>1 DEF GapEquation
<1> DEFINE Good(s) == /\ s \in Seq(1..n)
                         /\ \A k \in 1..Len(s) : IsGap(p[s[k]])
           T == {i \in Nat : i <= n => Good(f[i])}
<1>4. 0 \in T
  <2>1. 0 \in 0..n
    OBVIOUS
  <2>2. f[0] = <<>>
    BY <1>3, <2>1
  <2>3. Good(<<>>)
    OBVIOUS
  <2> QED
    BY <2>2, <2>3
<1>5. ASSUME NEW i \in Nat, i \in T PROVE i + 1 \in T
  <2> SUFFICES ASSUME i + 1 <= n PROVE Good(f[i+1])
    OBVIOUS
  <2> PICK s : s = f[i]
    OBVIOUS
  <2>1. Good(s)
    BY <1>5
  <2>2. f[i+1] = IF IsGap(p[i+1]) THEN Append(s, i + 1) ELSE s
    <3>1. i + 1 \in 0..n /\ i + 1 # 0 /\ (i + 1) - 1 = i
      OBVIOUS
    <3> QED
      BY <1>3, <3>1
  <2>3. CASE ~IsGap(p[i+1])
    BY <2>1, <2>2, <2>3
  <2>4. CASE IsGap(p[i+1])
    <3> DEFINE t == Append(s, i + 1)
    <3>1. /\ t \in Seq(1..n) /\ Len(t) = Len(s) + 1 /\ Len(s) \in Nat
          /\ t[Len(s) + 1] = i + 1 /\ \A k \in 1..Len(s) : t[k] = s[k]
      <4>1. i + 1 \in 1..n
        OBVIOUS
      <4> QED
        BY <2>1, <4>1, AppendProperties, LenProperties
    <3> HIDE DEF t
    <3>2. \A k \in 1..Len(t) : IsGap(p[t[k]])
      <4> SUFFICES ASSUME NEW k \in 1..Len(t) PROVE IsGap(p[t[k]])
        OBVIOUS
      <4>1. CASE k = Len(s) + 1
        BY <2>4, <3>1, <4>1
      <4>2. CASE k \in 1..Len(s)
        BY <2>1, <3>1, <4>2
      <4> QED
        BY <3>1, <4>1, <4>2
    <3>3. Good(t)
      BY <3>1, <3>2
    <3> QED
      BY <2>2, <2>4, <3>3 DEF t
  <2> QED
    BY <2>3, <2>4
<1> HIDE DEF T
<1>6. n \in T
  BY <1>4, <1>5, EveryNumber
<1>7. Good(f[n])
  BY <1>6 DEF T
<1> QED
  BY <1>2, <1>7

\* n segments with a gap between any two neighbours.
IsSplit(sig, n) ==
  /\ n \in Nat \ {0}
  /\ DOMAIN sig.segments = 1..n /\ Len(sig.segments) = n
  /\ \A k \in 1..n : \E S : sig.segments[k] \in Seq(S)
  /\ Len(sig.gaps) = n - 1
  /\ \A k \in 1..(n-1) : sig.gaps[k].min \in Nat /\ sig.gaps[k].max \in Nat

LEMMA SplitShape ==
  ASSUME NEW p, IsPattern(p)
  PROVE  \E n : IsSplit(SplitOnGaps(p), n)
<1> DEFINE g == GapAt(p)
           cut == <<0>> \o g \o <<Len(p) + 1>>
           m == Len(g)
<1>0. Len(p) \in Nat /\ p \in Seq(Range(p))
  BY LenProperties DEF IsPattern
<1>1. /\ g \in Seq(1..Len(p)) /\ m \in Nat
      /\ \A k \in 1..m : IsGap(p[g[k]]) /\ g[k] \in 1..Len(p)
  <2>1. g \in Seq(1..Len(p)) /\ \A k \in 1..m : IsGap(p[g[k]])
    BY GapPositions
  <2>2. m \in Nat /\ \A k \in 1..m : g[k] \in 1..Len(p)
    BY <2>1, LenProperties, ElementOfSeq
  <2> QED
    BY <2>1, <2>2
<1> HIDE DEF g
<1>2. /\ cut \in Seq(0..(Len(p) + 1)) /\ Len(cut) = m + 2
      /\ \A k \in 1..m : cut[k+1] = g[k]
  <2> DEFINE P == 0..(Len(p) + 1)
  <2>1. <<0>> \in Seq(P) /\ <<Len(p) + 1>> \in Seq(P)
    BY <1>0
  <2>2. g \in Seq(P)
    <3>1. 1..Len(p) \subseteq P
      BY <1>0
    <3> QED
      BY <1>1, <3>1, SeqMonotonic
  <2> HIDE DEF P
  <2>3. /\ <<0>> \o g \in Seq(P) /\ Len(<<0>> \o g) = m + 1
        /\ \A k \in 1..(m + 1) : (<<0>> \o g)[k] = IF k <= 1 THEN <<0>>[k] ELSE g[k - 1]
    <3>1. Len(<<0>>) = 1
      OBVIOUS
    <3>2. 1 + m = m + 1
      BY <1>1
    <3> QED
      BY <2>1, <2>2, <3>1, <3>2, ConcatProperties
  <2>4. /\ cut \in Seq(P) /\ Len(cut) = (m + 1) + 1
        /\ \A k \in 1..((m + 1) + 1) :
              cut[k] = IF k <= m + 1 THEN (<<0>> \o g)[k] ELSE <<Len(p) + 1>>[k - (m + 1)]
    <3>1. Len(<<Len(p) + 1>>) = 1
      OBVIOUS
    <3> QED
      BY <2>1, <2>3, <3>1, ConcatProperties
  <2>5. \A k \in 1..m : cut[k+1] = g[k]
    <3> SUFFICES ASSUME NEW k \in 1..m PROVE cut[k+1] = g[k]
      OBVIOUS
    <3>1. k + 1 \in 1..((m + 1) + 1) /\ k + 1 <= m + 1 /\ k + 1 \in 1..(m + 1)
          /\ ~(k + 1 <= 1) /\ (k + 1) - 1 = k
      BY <1>1
    <3> QED
      BY <2>3, <2>4, <3>1
  <2>6. (m + 1) + 1 = m + 2
    BY <1>1
  <2> QED
    BY <2>4, <2>5, <2>6 DEF P
<1>3. \A k \in 1..(m + 2) : cut[k] \in 0..(Len(p) + 1)
  BY <1>2, ElementOfSeq
<1> HIDE DEF cut
<1>4. /\ SplitOnGaps(p).segments
           = [k \in 1..(m + 1) |-> SubSeq(p, cut[k] + 1, cut[k+1] - 1)]
      /\ SplitOnGaps(p).gaps = [k \in 1..m |-> p[cut[k+1]]]
  <2>1. Len(cut) - 1 = m + 1 /\ Len(cut) - 2 = m
    BY <1>1, <1>2
  <2> QED
    BY <2>1 DEF SplitOnGaps, cut, g
<1>5. ASSUME NEW k \in 1..(m + 1)
      PROVE  SubSeq(p, cut[k] + 1, cut[k+1] - 1) \in Seq(Range(p))
  <2>1. k \in 1..(m + 2) /\ k + 1 \in 1..(m + 2)
    BY <1>1
  <2>2. PICK x \in 0..(Len(p) + 1), y \in 0..(Len(p) + 1) : x = cut[k] /\ y = cut[k+1]
    BY <1>3, <2>1
  <2>3. \A i \in (x + 1)..(y - 1) : p[i] \in Range(p)
    <3>1. \A i \in (x + 1)..(y - 1) : i \in 1..Len(p)
      BY <1>0
    <3> QED
      BY <1>0, <3>1, ElementOfSeq
  <2>4. x + 1 \in Int /\ y - 1 \in Int
    BY <1>0
  <2>5. SubSeq(p, x + 1, y - 1) \in Seq(Range(p))
    BY <2>3, <2>4, SubSeqProperties
  <2> QED
    BY <2>2, <2>5
<1>6. \A k \in 1..m : p[cut[k+1]].min \in Nat /\ p[cut[k+1]].max \in Nat
  <2>1. DOMAIN p = 1..Len(p)
    BY <1>0, LenProperties
  <2> QED
    BY <1>1, <1>2, <2>1 DEF IsPattern
<1>7. /\ m + 1 \in Nat \ {0} /\ (m + 1) - 1 = m
      /\ Len(SplitOnGaps(p).segments) = m + 1
      /\ Len(SplitOnGaps(p).gaps) = m
  BY <1>1, <1>4
<1>8. IsSplit(SplitOnGaps(p), m + 1)
  <2>1. \A k \in 1..(m + 1) : SplitOnGaps(p).segments[k] \in Seq(Range(p))
    BY <1>4, <1>5
  <2>2. \A k \in 1..m : SplitOnGaps(p).gaps[k] = p[cut[k+1]]
    BY <1>4
  <2>3. DOMAIN SplitOnGaps(p).segments = 1..(m + 1)
    BY <1>4
  <2> QED
    BY <1>6, <1>7, <2>1, <2>2, <2>3 DEF IsSplit
<1> QED
  BY <1>8

\* A longest literal run, the leftmost of them, exists.
LEMMA LongestRun ==
  ASSUME NEW S, NEW seg \in Seq(S), LiteralRuns(seg) # {}
  PROVE  LongestLiteralRun(seg) \in LiteralRuns(seg)
<1> PICK R : R = LiteralRuns(seg)
  OBVIOUS
<1>0. Len(seg) \in Nat /\ R # {} /\ R \subseteq (0..Len(seg)) \X (1..Len(seg))
  BY LenProperties DEF LiteralRuns
<1> DEFINE Lengths == {r[2] : r \in R}
<1>1. PICK n \in Lengths : \A m \in Lengths : m <= n
  <2>1. Lengths \in SUBSET Nat /\ Lengths # {} /\ \A m \in Lengths : m <= Len(seg)
    BY <1>0
  <2> HIDE DEF Lengths
  <2> QED
    BY <1>0, <2>1, GreatestNumber
<1> DEFINE Offsets == {r[1] : r \in {q \in R : q[2] = n}}
<1>2. PICK o \in Offsets : \A m \in Offsets : o <= m
  <2>1. Offsets \in SUBSET Nat
    BY <1>0
  <2>2. Offsets # {}
    BY <1>1
  <2> HIDE DEF Offsets
  <2> QED
    BY <2>1, <2>2, LeastNumber
<1>3. PICK r \in R : r[2] = n /\ r[1] = o
  BY <1>2
<1>4. \A q \in R : r[2] > q[2] \/ (r[2] = q[2] /\ r[1] <= q[1])
  <2> SUFFICES ASSUME NEW q \in R PROVE r[2] > q[2] \/ (r[2] = q[2] /\ r[1] <= q[1])
    OBVIOUS
  <2>1. q[2] <= n /\ q[2] \in Nat /\ n \in Nat
    BY <1>0, <1>1
  <2>2. q[2] = n => o <= q[1]
    BY <1>2
  <2> QED
    BY <1>3, <2>1, <2>2
<1>5. \E r2 \in LiteralRuns(seg) :
         \A q \in LiteralRuns(seg) : r2[2] > q[2] \/ (r2[2] = q[2] /\ r2[1] <= q[1])
  BY <1>4
<1> QED
  BY <1>5 DEF LongestLiteralRun

LEMMA FirstBest ==
  ASSUME NEW n \in Nat, NEW H \in SUBSET (1..n), H # {}, NEW f, \A k \in H : f[k] \in Nat
  PROVE  \E k \in H : \A j \in H : f[k] > f[j] \/ (f[k] = f[j] /\ k <= j)
<1> DEFINE Best(k, m) == k <= m /\ \A j \in H : j <= m => f[k] > f[j] \/ (f[k] = f[j] /\ k <= j)
           T == {m \in Nat : (\A k \in H : k > m) \/ (\E k \in H : Best(k, m))}
<1>1. 0 \in T
  OBVIOUS
<1>2. ASSUME NEW m \in Nat, m \in T PROVE m + 1 \in T
  <2>1. \A k \in H : k \in Nat /\ (k <= m + 1 <=> k <= m \/ k = m + 1)
    OBVIOUS
  <2>2. CASE m + 1 \notin H
    BY <1>2, <2>1, <2>2
  <2>3. CASE m + 1 \in H
    <3>1. CASE \A k \in H : k > m
      <4>1. Best(m + 1, m + 1)
        BY <2>1, <2>3, <3>1
      <4> QED
        BY <2>3, <4>1
    <3>2. CASE \E k \in H : Best(k, m)
      <4>1. PICK k \in H : Best(k, m)
        BY <3>2
      <4>2. f[k] \in Nat /\ f[m + 1] \in Nat /\ k \in Nat /\ k <= m /\ k <= m + 1
        BY <2>1, <2>3, <4>1
      <4>3. CASE f[m + 1] > f[k]
        <5>1. ASSUME NEW j \in H, j <= m + 1
              PROVE  f[m + 1] > f[j] \/ (f[m + 1] = f[j] /\ m + 1 <= j)
          <6>1. CASE j = m + 1
            BY <6>1
          <6>2. CASE j <= m
            <7>1. f[k] >= f[j] /\ f[j] \in Nat
              BY <4>1, <4>2, <6>2
            <7> QED
              BY <4>2, <4>3, <7>1
          <6> QED
            BY <2>1, <5>1, <6>1, <6>2
        <5>2. Best(m + 1, m + 1)
          BY <5>1
        <5> QED
          BY <2>3, <5>2
      <4>4. CASE ~(f[m + 1] > f[k])
        <5>1. ASSUME NEW j \in H, j <= m + 1
              PROVE  f[k] > f[j] \/ (f[k] = f[j] /\ k <= j)
          <6>1. CASE j = m + 1
            BY <4>2, <4>4, <6>1
          <6>2. CASE j <= m
            BY <4>1, <6>2
          <6> QED
            BY <2>1, <5>1, <6>1, <6>2
        <5>2. Best(k, m + 1)
          BY <4>2, <5>1
        <5> QED
          BY <5>2
      <4> QED
        BY <4>3, <4>4
    <3> QED
      BY <1>2, <3>1, <3>2
  <2> QED
    BY <2>2, <2>3
<1> HIDE DEF T
<1>3. n \in T
  BY <1>1, <1>2, EveryNumber
<1>4. PICK k \in H : Best(k, n)
  <2>1. PICK h \in H : TRUE
    OBVIOUS
  <2>2. h <= n /\ h \in Nat
    OBVIOUS
  <2> QED
    BY <1>3, <2>1, <2>2 DEF T
<1>5. \A j \in H : j <= n
  OBVIOUS
<1> QED
  BY <1>4, <1>5

LEMMA Piece ==
  ASSUME NEW S, NEW seg \in Seq(S), NEW o \in Nat, NEW len \in Nat, o + len <= Len(seg)
  PROVE  /\ Len(SubSeq(seg, o + 1, o + len)) = len
         /\ DOMAIN SubSeq(seg, o + 1, o + len) = 1..len
         /\ \A i \in 1..len : SubSeq(seg, o + 1, o + len)[i] = seg[o + i]
<1>1. \A i \in (o + 1)..(o + len) : seg[i] \in S
  <2>1. \A i \in (o + 1)..(o + len) : i \in 1..Len(seg)
    BY LenProperties
  <2> QED
    BY <2>1, ElementOfSeq
<1>2. o + 1 \in Int /\ o + len \in Int /\ (o + len) - (o + 1) + 1 = len
  OBVIOUS
<1> PICK lit : lit = SubSeq(seg, o + 1, o + len)
  OBVIOUS
<1>3. /\ lit \in Seq(S)
      /\ Len(lit) = IF o + 1 <= o + len THEN (o + len) - (o + 1) + 1 ELSE 0
      /\ \A i \in 1..((o + len) - (o + 1) + 1) : lit[i] = seg[(o + 1) + i - 1]
  BY <1>1, <1>2, SubSeqProperties
<1>4. Len(lit) = len
  BY <1>2, <1>3
<1>5. \A i \in 1..len : lit[i] = seg[o + i]
  <2>1. \A i \in 1..len : (o + 1) + i - 1 = o + i
    OBVIOUS
  <2> QED
    BY <1>2, <1>3, <2>1
<1> QED
  BY <1>3, <1>4, <1>5, LenProperties

\* The anchor is a piece of one of the segments.
IsSignature(sig, n) ==
  /\ IsSplit(sig, n)
  /\ sig.anchorSegment \in 1..n /\ sig.anchorOffset \in Nat
  /\ Len(sig.anchorLiteral) \in Nat /\ DOMAIN sig.anchorLiteral = 1..Len(sig.anchorLiteral)
  /\ sig.anchorOffset + Len(sig.anchorLiteral) <= Len(sig.segments[sig.anchorSegment])
  /\ \A i \in 1..Len(sig.anchorLiteral) :
        sig.anchorLiteral[i] = sig.segments[sig.anchorSegment][sig.anchorOffset + i]

LEMMA ParseShape ==
  ASSUME NEW p, IsPattern(p), ParseOk(p)
  PROVE  \E n : IsSignature(Parse(p), n)
<1> PICK split : split = SplitOnGaps(p)
  OBVIOUS
<1>1. PICK n : IsSplit(split, n)
  BY SplitShape
<1> DEFINE H == HasRun(split)
           f == [k \in H |-> LongestLiteralRun(split.segments[k])[2]]
<1>2. H # {} /\ H \in SUBSET (1..n) /\ n \in Nat
  BY <1>1 DEF ParseOk, HasRun, IsSplit
<1>3. ASSUME NEW k \in H
      PROVE  /\ LongestLiteralRun(split.segments[k]) \in LiteralRuns(split.segments[k])
             /\ LongestLiteralRun(split.segments[k]) \in Nat \X Nat
  <2>1. PICK S : split.segments[k] \in Seq(S)
    BY <1>1, <1>2 DEF IsSplit
  <2>2. LiteralRuns(split.segments[k]) # {}
    BY DEF HasRun
  <2>3. LongestLiteralRun(split.segments[k]) \in LiteralRuns(split.segments[k])
    BY <2>1, <2>2, LongestRun
  <2>4. LiteralRuns(split.segments[k]) \subseteq Nat \X Nat
    <3>1. Len(split.segments[k]) \in Nat
      BY <2>1, LenProperties
    <3> QED
      BY <3>1 DEF LiteralRuns
  <2> QED
    BY <2>3, <2>4
<1>4. AnchorSegment(split) \in H
  <2>1. \A k \in H : f[k] \in Nat /\ f[k] = LongestLiteralRun(split.segments[k])[2]
    BY <1>3
  <2> HIDE DEF f, H
  <2>2. PICK k \in H : \A j \in H : f[k] > f[j] \/ (f[k] = f[j] /\ k <= j)
    BY <1>2, <2>1, FirstBest
  <2>3. \A j \in H : LET rk == LongestLiteralRun(split.segments[k])[2]
                         rj == LongestLiteralRun(split.segments[j])[2]
                     IN  rk > rj \/ (rk = rj /\ k <= j)
    BY <2>1, <2>2
  <2> QED
    BY <2>3 DEF AnchorSegment, H
<1> PICK aseg \in 1..n : aseg = AnchorSegment(split)
  BY <1>2, <1>4
<1> PICK seg : seg = split.segments[aseg]
  OBVIOUS
<1> PICK run : run = LongestLiteralRun(seg)
  OBVIOUS
<1>5. /\ run \in LiteralRuns(seg) /\ run[1] \in Nat /\ run[2] \in Nat
      /\ Len(seg) \in Nat /\ run[1] + run[2] <= Len(seg)
  <2>1. run \in LiteralRuns(seg) /\ run \in Nat \X Nat
    BY <1>3, <1>4
  <2>2. Len(seg) \in Nat
    BY <1>1, LenProperties DEF IsSplit
  <2>3. run[1] + run[2] <= Len(seg)
    BY <2>1 DEF LiteralRuns
  <2> QED
    BY <2>1, <2>2, <2>3
<1>6. PICK o \in Nat, len \in Nat : o = run[1] /\ len = run[2]
  BY <1>5
<1>7. PICK lit : lit = SubSeq(seg, run[1] + 1, run[1] + run[2])
  OBVIOUS
<1>8. Len(lit) = len /\ DOMAIN lit = 1..len /\ \A i \in 1..len : lit[i] = seg[o + i]
  <2>1. PICK S : seg \in Seq(S)
    BY <1>1 DEF IsSplit
  <2>2. o + len <= Len(seg) /\ lit = SubSeq(seg, o + 1, o + len)
    BY <1>5, <1>6, <1>7
  <2> QED
    BY <2>1, <2>2, Piece
<1>9. Parse(p) = [segments |-> split.segments, gaps |-> split.gaps, anchorSegment |-> aseg,
                  anchorOffset |-> o, anchorLiteral |-> lit]
  BY <1>6, <1>7 DEF Parse
<1>10. PICK sig : sig = Parse(p)
  OBVIOUS
<1>11. /\ sig.segments = split.segments /\ sig.gaps = split.gaps /\ sig.anchorSegment = aseg
       /\ sig.anchorOffset = o /\ sig.anchorLiteral = lit
  BY <1>9, <1>10
<1>12. IsSplit(sig, n)
  BY <1>1, <1>11 DEF IsSplit
<1>13. o + len <= Len(seg)
  BY <1>5, <1>6
<1>14. IsSignature(sig, n)
  BY <1>8, <1>11, <1>12, <1>13 DEF IsSignature
<1> QED
  BY <1>10, <1>14

(***************************************************************************)
(* The search for a neighbouring segment finds a place iff there is one in *)
(* the gap's reach.                                                        *)
(***************************************************************************)
InReach(gap, distance) == distance \in gap.min..gap.max

IsGapRange(gap) == gap.min \in Nat /\ gap.max \in Nat

LEMMA ForwardFound ==
  ASSUME NEW buf, Len(buf) \in Nat, NEW seg, Len(seg) \in Nat, NEW after \in Nat,
         NEW gap, IsGapRange(gap)
  PROVE  LET pos == FindForward(buf, seg, after, gap)
         IN  /\ pos # None => pos \in Nat /\ MatchesAt(seg, buf, pos) /\ InReach(gap, pos - after)
             /\ (\E p \in Nat : MatchesAt(seg, buf, p) /\ InReach(gap, p - after)) => pos # None
<1> PICK x \in Nat, y \in Nat : x = gap.min /\ y = gap.max
  BY DEF IsGapRange
<1> DEFINE end == IF after + gap.max < Len(buf) THEN after + gap.max ELSE Len(buf)
           at == {pos \in (after + gap.min)..end : MatchesAt(seg, buf, pos)}
<1>1. end \in Nat /\ end <= after + y /\ end <= Len(buf)
      /\ (end = after + y \/ end = Len(buf))
  OBVIOUS
<1>2. at \in SUBSET Nat /\ \A p \in at : p \in Nat /\ p >= after + x /\ p <= end /\ MatchesAt(seg, buf, p)
  BY <1>1
<1>3. \A p \in Nat : p >= after + x /\ p <= end /\ MatchesAt(seg, buf, p) => p \in at
  BY <1>1
<1>4. FindForward(buf, seg, after, gap)
        = IF at = {} THEN None ELSE CHOOSE p \in at : \A q \in at : p <= q
  BY DEF FindForward
<1> HIDE DEF at, end
<1>5. CASE at = {}
  <2>1. ASSUME NEW p \in Nat, MatchesAt(seg, buf, p), InReach(gap, p - after) PROVE FALSE
    <3>1. p - after >= x /\ p - after <= y
      BY <2>1 DEF InReach
    <3>2. p <= Len(buf)
      BY <2>1 DEF MatchesAt
    <3> QED
      BY <1>1, <1>3, <1>5, <2>1, <3>1, <3>2
  <2> QED
    BY <1>4, <1>5, <2>1
<1>6. CASE at # {}
  <2>1. \E p \in at : \A q \in at : p <= q
    BY <1>2, <1>6, LeastNumber
  <2>2. FindForward(buf, seg, after, gap) \in at
    BY <1>4, <1>6, <2>1
  <2>3. PICK p \in at : p = FindForward(buf, seg, after, gap)
    BY <2>2
  <2>4. p \in Nat /\ MatchesAt(seg, buf, p) /\ p >= after + x /\ p <= end
    BY <1>2
  <2>5. InReach(gap, p - after)
    BY <1>1, <2>4 DEF InReach
  <2> QED
    BY <2>3, <2>4, <2>5 DEF None
<1> QED
  BY <1>5, <1>6

LEMMA Distance ==
  ASSUME NEW p \in Nat, NEW len \in Nat, NEW before \in Nat, NEW x \in Nat, NEW y \in Nat,
         NEW earliest \in Nat, earliest = 0 \/ earliest = before - (y + len),
         before - (y + len) <= earliest
  PROVE  /\ before - (p + len) >= x <=> p <= before - (x + len)
         /\ before - (p + len) <= y <=> p >= earliest
OBVIOUS

\* What saturating_sub returns.
LEMMA Clipped ==
  ASSUME NEW m \in Nat, NEW n \in Nat, NEW c, c = IF m > n THEN m - n ELSE 0
  PROVE  c \in Nat /\ m - n <= c /\ (c = 0 \/ c = m - n)
OBVIOUS

LEMMA BackwardFound ==
  ASSUME NEW buf, Len(buf) \in Nat, NEW seg, Len(seg) \in Nat, NEW before \in Nat,
         NEW gap, IsGapRange(gap)
  PROVE  LET pos == FindBackward(buf, seg, before, gap)
         IN  /\ pos # None => /\ pos \in Nat /\ MatchesAt(seg, buf, pos)
                              /\ InReach(gap, before - (pos + Len(seg)))
             /\ (\E p \in Nat : /\ MatchesAt(seg, buf, p)
                                /\ InReach(gap, before - (p + Len(seg)))) => pos # None
<1> PICK x \in Nat, y \in Nat : x = gap.min /\ y = gap.max
  BY DEF IsGapRange
<1> PICK len \in Nat : len = Len(seg)
  OBVIOUS
<1> DEFINE latest == before - (gap.min + Len(seg))
           earliest == IF before > gap.max + Len(seg) THEN before - (gap.max + Len(seg)) ELSE 0
           at == {pos \in earliest..latest : MatchesAt(seg, buf, pos)}
<1>1. /\ latest = before - (x + len) /\ latest \in Int
      /\ earliest \in Nat /\ before - (y + len) <= earliest
      /\ (earliest = 0 \/ earliest = before - (y + len))
  <2>1. latest = before - (x + len)
    OBVIOUS
  <2>2. earliest = IF before > y + len THEN before - (y + len) ELSE 0
    OBVIOUS
  <2> HIDE DEF latest, earliest
  <2>3. latest \in Int
    BY <2>1
  <2>4. PICK far \in Nat : far = y + len
    OBVIOUS
  <2>5. earliest = IF before > far THEN before - far ELSE 0
    BY <2>2, <2>4
  <2>6. earliest \in Nat /\ before - far <= earliest /\ (earliest = 0 \/ earliest = before - far)
    BY <2>5, Clipped
  <2> QED
    BY <2>1, <2>3, <2>4, <2>6
<1> HIDE DEF latest, earliest
<1>2. at \in SUBSET Nat /\ \A p \in at : p \in Nat /\ p >= earliest /\ p <= latest /\ MatchesAt(seg, buf, p)
  BY <1>1, SMTT(20)
<1>3. \A p \in Nat : p >= earliest /\ p <= latest /\ MatchesAt(seg, buf, p) => p \in at
  BY <1>1
<1>4. FindBackward(buf, seg, before, gap)
        = IF at = {} THEN None ELSE CHOOSE p \in at : \A q \in at : p >= q
  BY DEF FindBackward, latest, earliest
<1> HIDE DEF at
<1>5. CASE at = {}
  <2>1. ASSUME NEW p \in Nat, MatchesAt(seg, buf, p), InReach(gap, before - (p + len)) PROVE FALSE
    <3>1. before - (p + len) >= x /\ before - (p + len) <= y
      BY <2>1 DEF InReach
    <3>2. p <= latest
      <4>1. latest = before - (x + len)
        BY <1>1
      <4>2. p <= before - (x + len)
        BY <3>1
      <4> QED
        BY <4>1, <4>2
    <3>3. p >= earliest
      <4>1. earliest = 0 \/ earliest = before - (y + len)
        BY <1>1
      <4>2. p >= 0 /\ p >= before - (y + len)
        BY <3>1
      <4> QED
        BY <4>1, <4>2
    <3> QED
      BY <1>3, <1>5, <2>1, <3>2, <3>3
  <2> QED
    BY <1>4, <1>5, <2>1
<1>6. CASE at # {}
  <2>1. \E p \in at : \A q \in at : p >= q
    <3>1. PICK m \in at : \A q \in at : q <= m
      <4>1. before \in Nat /\ \A q \in at : q <= before
        BY <1>1, <1>2
      <4> QED
        BY <1>2, <1>6, <4>1, GreatestNumber
    <3> QED
      BY <1>2, <3>1
  <2>2. FindBackward(buf, seg, before, gap) \in at
    BY <1>4, <1>6, <2>1
  <2>3. PICK p \in at : p = FindBackward(buf, seg, before, gap)
    BY <2>2
  <2>4. p \in Nat /\ MatchesAt(seg, buf, p) /\ p >= earliest /\ p <= latest
    BY <1>2
  <2>5. before - (p + len) >= x /\ before - (p + len) <= y
    <3>1. p <= before - (x + len) /\ p >= earliest /\ p \in Nat
      BY <1>1, <2>4
    <3>2. /\ earliest \in Nat /\ before - (y + len) <= earliest
          /\ (earliest = 0 \/ earliest = before - (y + len))
      BY <1>1
    <3>3. before - (p + len) >= x
      BY <3>1
    <3>4. before - (p + len) <= y
      <4>1. CASE earliest = 0
        BY <3>1, <3>2, <4>1
      <4>2. CASE earliest = before - (y + len)
        BY <3>1, <4>2
      <4> QED
        BY <3>2, <4>1, <4>2
    <3> QED
      BY <3>3, <3>4
  <2>6. InReach(gap, before - (p + len))
    BY <2>4, <2>5 DEF InReach
  <2> QED
    BY <2>3, <2>4, <2>6 DEF None
<1> QED
  BY <1>5, <1>6

(***************************************************************************)
(* A placement of the segments from lo to hi.                              *)
(***************************************************************************)
Placed(at, sig, buf, lo, hi) ==
  /\ at \in [lo..hi -> 0..Len(buf)]
  /\ \A k \in lo..hi : MatchesAt(sig.segments[k], buf, at[k])
  /\ \A k \in lo..(hi-1) :
        InReach(sig.gaps[k], at[k+1] - (at[k] + Len(sig.segments[k])))

Spans(at, sig, buf, lo, hi, first, last) ==
  Placed(at, sig, buf, lo, hi) /\ at[lo] = first /\ at[hi] = last

Sized(s) == Len(s) \in Nat

Fits(sig, buf, k, pos) ==
  /\ pos \in Nat /\ Sized(buf) /\ Sized(sig.segments[k])
  /\ MatchesAt(sig.segments[k], buf, pos)

LEMMA PlaceOne ==
  ASSUME NEW sig, NEW buf, NEW k \in Nat, NEW pos, Fits(sig, buf, k, pos)
  PROVE  \E at : Spans(at, sig, buf, k, k, pos, pos)
<1> USE DEF Fits, Sized, Spans
<1> DEFINE at == [i \in k..k |-> pos]
<1>1. pos \in 0..Len(buf)
  BY DEF MatchesAt
<1>2. k..k = {k} /\ k..(k-1) = {}
  OBVIOUS
<1>3. Placed(at, sig, buf, k, k)
  BY <1>1, <1>2 DEF Placed
<1> QED
  BY <1>3

LEMMA PlaceRight ==
  ASSUME NEW sig, NEW buf, NEW lo \in Nat, NEW hi \in Nat, lo <= hi, NEW at, NEW first, NEW last,
         Spans(at, sig, buf, lo, hi, first, last),
         NEW pos, Fits(sig, buf, hi + 1, pos),
         InReach(sig.gaps[hi], pos - (last + Len(sig.segments[hi])))
  PROVE  \E new : Spans(new, sig, buf, lo, hi + 1, first, pos)
<1> USE DEF Fits, Sized, Spans
<1> DEFINE new == [i \in lo..(hi + 1) |-> IF i = hi + 1 THEN pos ELSE at[i]]
<1>1. pos \in 0..Len(buf)
  BY DEF MatchesAt
<1>2. new[hi + 1] = pos /\ \A i \in lo..hi : new[i] = at[i]
  OBVIOUS
<1>3. new \in [lo..(hi + 1) -> 0..Len(buf)]
  BY <1>1 DEF Placed
<1> HIDE DEF new
<1>4. ASSUME NEW i \in lo..(hi + 1) PROVE MatchesAt(sig.segments[i], buf, new[i])
  <2>1. CASE i = hi + 1
    BY <1>2, <2>1
  <2>2. CASE i \in lo..hi
    BY <1>2, <2>2 DEF Placed
  <2> QED
    BY <2>1, <2>2
<1>5. ASSUME NEW i \in lo..hi
      PROVE  InReach(sig.gaps[i], new[i+1] - (new[i] + Len(sig.segments[i])))
  <2>1. CASE i = hi
    BY <1>2, <2>1
  <2>2. CASE i \in lo..(hi - 1)
    <3>1. i + 1 \in lo..hi
      BY <2>2
    <3> QED
      BY <1>2, <2>2, <3>1 DEF Placed
  <2> QED
    BY <2>1, <2>2
<1>6. (hi + 1) - 1 = hi
  OBVIOUS
<1>7. Placed(new, sig, buf, lo, hi + 1)
  BY <1>3, <1>4, <1>5, <1>6 DEF Placed
<1> QED
  BY <1>2, <1>7

LEMMA PlaceLeft ==
  ASSUME NEW sig, NEW buf, NEW lo \in Nat, NEW hi \in Nat, lo + 1 <= hi, NEW at, NEW first, NEW last,
         Spans(at, sig, buf, lo + 1, hi, first, last),
         NEW pos, Fits(sig, buf, lo, pos),
         InReach(sig.gaps[lo], first - (pos + Len(sig.segments[lo])))
  PROVE  \E new : Spans(new, sig, buf, lo, hi, pos, last)
<1> USE DEF Fits, Sized, Spans
<1> DEFINE new == [i \in lo..hi |-> IF i = lo THEN pos ELSE at[i]]
<1>1. pos \in 0..Len(buf)
  BY DEF MatchesAt
<1>2. new[lo] = pos /\ \A i \in (lo + 1)..hi : new[i] = at[i]
  OBVIOUS
<1>3. new \in [lo..hi -> 0..Len(buf)]
  BY <1>1 DEF Placed
<1> HIDE DEF new
<1>4. ASSUME NEW i \in lo..hi PROVE MatchesAt(sig.segments[i], buf, new[i])
  <2>1. CASE i = lo
    BY <1>2, <2>1
  <2>2. CASE i \in (lo + 1)..hi
    BY <1>2, <2>2 DEF Placed
  <2> QED
    BY <2>1, <2>2
<1>5. ASSUME NEW i \in lo..(hi - 1)
      PROVE  InReach(sig.gaps[i], new[i+1] - (new[i] + Len(sig.segments[i])))
  <2>0. i + 1 \in (lo + 1)..hi
    OBVIOUS
  <2>1. CASE i = lo
    BY <1>2, <2>0, <2>1
  <2>2. CASE i \in (lo + 1)..(hi - 1)
    <3>1. i \in (lo + 1)..hi
      BY <2>2
    <3> QED
      BY <1>2, <2>0, <2>2, <3>1 DEF Placed
  <2> QED
    BY <2>1, <2>2
<1>6. Placed(new, sig, buf, lo, hi)
  BY <1>3, <1>4, <1>5 DEF Placed
<1> QED
  BY <1>2, <1>6

(***************************************************************************)
(* The walk from the anchor to the end of the pattern.                     *)
(***************************************************************************)
Ends == Nat \union {None}

ForwardStep(sig, buf, j, after) ==
  LET k   == sig.anchorSegment + j
      pos == FindForward(buf, sig.segments[k], after, sig.gaps[k-1])
  IN  IF after = None \/ pos = None THEN None ELSE pos + Len(sig.segments[k])

ForwardEquation(f, sig, buf, start, steps) ==
  f = [j \in 0..steps |-> IF j = 0 THEN start + Len(sig.segments[sig.anchorSegment])
                          ELSE ForwardStep(sig, buf, j, f[j-1])]

\* What the walks find their way by: a well-formed signature and a buffer.
Walkable(sig, n, buf) == IsSignature(sig, n) /\ Len(buf) \in Nat

LEMMA SegmentFacts ==
  ASSUME NEW sig, NEW n, NEW buf, Walkable(sig, n, buf)
  PROVE  /\ n \in Nat /\ sig.anchorSegment \in 1..n /\ Len(sig.gaps) = n - 1
         /\ Len(buf) \in Nat
         /\ Sized(buf) /\ \A k \in 1..n : Sized(sig.segments[k]) /\ Len(sig.segments[k]) \in Nat
         /\ \A k \in 1..(n-1) : IsGapRange(sig.gaps[k])
<1> USE DEF Sized
<1>1. \A k \in 1..n : Len(sig.segments[k]) \in Nat
  BY LenProperties DEF Walkable, IsSignature, IsSplit
<1> QED
  BY <1>1 DEF Walkable, IsSignature, IsSplit, IsGapRange

\* After segment k - 1, which ends at after, segment k fits at pos.
Follows(sig, buf, k, after, pos) ==
  Fits(sig, buf, k, pos) /\ InReach(sig.gaps[k-1], pos - after)

\* e is the end of a segment k that follows, if there is such a place.
StepsTo(sig, buf, k, after, e) ==
  /\ e \in Ends
  /\ e # None => /\ after # None
                 /\ \E pos : Follows(sig, buf, k, after, pos) /\ e = pos + Len(sig.segments[k])
  /\ after # None /\ (\E pos : Follows(sig, buf, k, after, pos)) => e # None

LEMMA ForwardStepFinds ==
  ASSUME NEW sig, NEW n, NEW buf, Walkable(sig, n, buf), NEW j \in 1..(n - sig.anchorSegment),
         NEW after \in Ends
  PROVE  StepsTo(sig, buf, sig.anchorSegment + j, after, ForwardStep(sig, buf, j, after))
<1> USE DEF StepsTo, Follows, Fits, Sized
<1>0. n \in Nat /\ sig.anchorSegment \in 1..n
  BY SegmentFacts
<1>1. PICK k \in 2..n : k = sig.anchorSegment + j
  BY <1>0
<1> PICK seg : seg = sig.segments[k]
  OBVIOUS
<1> PICK gap : gap = sig.gaps[k-1]
  OBVIOUS
<1>2. Len(seg) \in Nat /\ IsGapRange(gap) /\ Len(buf) \in Nat
  <2>1. k \in 1..n /\ k - 1 \in 1..(n-1)
    BY <1>0
  <2> QED
    BY <2>1, SegmentFacts
<1> PICK e : e = ForwardStep(sig, buf, j, after)
  OBVIOUS
<1> PICK pos : pos = FindForward(buf, seg, after, gap)
  OBVIOUS
<1>3. e = IF after = None \/ pos = None THEN None ELSE pos + Len(seg)
  BY <1>1 DEF ForwardStep
<1>4. CASE after = None
  BY <1>3, <1>4 DEF Ends
<1>5. CASE after # None
  <2>1. after \in Nat
    BY <1>5 DEF Ends
  <2>2. /\ pos # None => pos \in Nat /\ MatchesAt(seg, buf, pos) /\ InReach(gap, pos - after)
        /\ (\E p \in Nat : MatchesAt(seg, buf, p) /\ InReach(gap, p - after)) => pos # None
    BY <1>2, <2>1, ForwardFound
  <2>3. CASE pos = None
    BY <1>1, <1>3, <2>2, <2>3 DEF Ends
  <2>4. CASE pos # None
    <3>1. pos \in Nat /\ e = pos + Len(seg) /\ e \in Nat /\ e # None
      BY <1>2, <1>3, <1>5, <2>2, <2>4 DEF None
    <3>2. e \in Ends
      BY <3>1 DEF Ends
    <3>3. Follows(sig, buf, k, after, pos) /\ e = pos + Len(sig.segments[k])
      BY <1>1, <2>2, <2>4, <3>1
    <3> HIDE DEF Follows
    <3>4. StepsTo(sig, buf, k, after, e)
      BY <1>5, <3>1, <3>2, <3>3
    <3> QED
      BY <1>1, <3>4
  <2> QED
    BY <2>3, <2>4
<1> QED
  BY <1>4, <1>5

LEMMA ForwardExists ==
  ASSUME NEW sig, NEW n, NEW buf, Walkable(sig, n, buf), NEW start \in Nat
  PROVE  \E f : ForwardEquation(f, sig, buf, start, n - sig.anchorSegment)
<1>0. n \in Nat /\ sig.anchorSegment \in 1..n /\ Len(sig.segments[sig.anchorSegment]) \in Nat
  BY SegmentFacts
<1>1. PICK steps \in Nat : steps = n - sig.anchorSegment
  BY <1>0
<1>2. PICK base \in Ends : base = start + Len(sig.segments[sig.anchorSegment])
  BY <1>0 DEF Ends
<1> DEFINE step == [q \in (1..steps) \X Ends |-> ForwardStep(sig, buf, q[1], q[2])]
<1>3. \A j \in 1..steps, s \in Ends : step[<<j, s>>] = ForwardStep(sig, buf, j, s)
  OBVIOUS
<1> HIDE DEF step
<1>4. Stays(step, steps, Ends)
  <2>1. ASSUME NEW j \in 1..steps, NEW s \in Ends PROVE ForwardStep(sig, buf, j, s) \in Ends
    <3>1. j \in 1..(n - sig.anchorSegment)
      BY <1>1
    <3> QED
      BY <3>1, ForwardStepFinds DEF StepsTo
  <2> QED
    BY <1>3, <2>1 DEF Stays
<1>5. PICK f : Unfolds(f, steps, Ends, base, step)
  BY <1>4, Recursion
<1>6. ASSUME NEW j \in 0..steps
      PROVE  f[j] = IF j = 0 THEN base ELSE ForwardStep(sig, buf, j, f[j-1])
  <2>1. CASE j = 0
    BY <1>5, <2>1 DEF Unfolds
  <2>2. CASE j \in 1..steps
    <3>1. f[j-1] \in Ends /\ f[j] = step[<<j, f[j-1]>>] /\ j # 0
      BY <1>5, <2>2 DEF Unfolds
    <3> QED
      BY <1>3, <2>2, <3>1
  <2> QED
    BY <2>1, <2>2
<1>7. DOMAIN f = 0..steps /\ f = [j \in DOMAIN f |-> f[j]]
  BY <1>5 DEF Unfolds
<1>8. ForwardEquation(f, sig, buf, start, steps)
  BY <1>2, <1>6, <1>7 DEF ForwardEquation
<1> QED
  BY <1>1, <1>8

ForwardTrace(f, sig, buf, start, steps) ==
  /\ WalkForward(sig, buf, start) = f[steps]
  /\ f[0] = start + Len(sig.segments[sig.anchorSegment])
  /\ \A j \in 1..steps : f[j] = ForwardStep(sig, buf, j, f[j-1])

LEMMA WalkForwardUnfolds ==
  ASSUME NEW sig, NEW n \in Nat, NEW buf, Walkable(sig, n, buf), NEW start \in Nat
  PROVE  \E f : ForwardTrace(f, sig, buf, start, n - sig.anchorSegment)
<1> USE DEF ForwardTrace
<1>0. n \in Nat /\ sig.anchorSegment \in 1..n /\ Len(sig.gaps) = n - 1
  BY SegmentFacts
<1>1. PICK steps \in Nat : steps = n - sig.anchorSegment
  BY <1>0
<1>2. Len(sig.gaps) - sig.anchorSegment + 1 = steps
  BY <1>0, <1>1
<1> DEFINE f == CHOOSE h : ForwardEquation(h, sig, buf, start, steps)
<1>3. ForwardEquation(f, sig, buf, start, steps)
  BY <1>1, ForwardExists
<1>4. WalkForward(sig, buf, start) = f[steps]
  BY <1>2 DEF WalkForward, ForwardEquation, ForwardStep
<1> HIDE DEF f
<1>5. \A j \in 0..steps : f[j] = IF j = 0 THEN start + Len(sig.segments[sig.anchorSegment])
                                 ELSE ForwardStep(sig, buf, j, f[j-1])
  BY <1>3 DEF ForwardEquation
<1>6. f[0] = start + Len(sig.segments[sig.anchorSegment])
  <2>1. 0 \in 0..steps
    OBVIOUS
  <2> QED
    BY <1>5, <2>1
<1>7. \A j \in 1..steps : f[j] = ForwardStep(sig, buf, j, f[j-1])
  <2>1. \A j \in 1..steps : j \in 0..steps /\ j # 0
    OBVIOUS
  <2> QED
    BY <1>5, <2>1
<1> QED
  BY <1>1, <1>4, <1>6, <1>7

LEMMA NextSegment ==
  ASSUME NEW sig, NEW n \in Nat, NEW buf, Walkable(sig, n, buf), NEW j \in Nat,
         NEW k \in Nat, k = sig.anchorSegment + j, k + 1 <= n, NEW after \in Ends
  PROVE  StepsTo(sig, buf, k + 1, after, ForwardStep(sig, buf, j + 1, after))
<1>1. n \in Nat /\ sig.anchorSegment \in 1..n
  BY SegmentFacts
<1>2. j + 1 \in 1..(n - sig.anchorSegment)
  BY <1>1
<1>3. PICK i \in 1..(n - sig.anchorSegment) : i = j + 1
  BY <1>2
<1>4. StepsTo(sig, buf, sig.anchorSegment + i, after, ForwardStep(sig, buf, i, after))
  BY ForwardStepFinds
<1>5. sig.anchorSegment + i = k + 1
  BY <1>1, <1>3
<1> QED
  BY <1>3, <1>4, <1>5

\* A walk that ends has placed every segment from the anchor on.
LEMMA ForwardPlaces ==
  ASSUME NEW sig, NEW n \in Nat, NEW buf, Walkable(sig, n, buf), NEW start,
         Fits(sig, buf, sig.anchorSegment, start),
         WalkForward(sig, buf, start) # None
  PROVE  \E at, last : Spans(at, sig, buf, sig.anchorSegment, n, start, last)
<1>0. /\ n \in Nat /\ sig.anchorSegment \in 1..n
      /\ \A k \in 1..n : Sized(sig.segments[k]) /\ Len(sig.segments[k]) \in Nat
  BY SegmentFacts
<1>1. PICK aseg \in Nat : aseg = sig.anchorSegment /\ aseg <= n /\ aseg >= 1
  BY <1>0
<1>2. PICK steps \in Nat : steps = n - sig.anchorSegment /\ aseg + steps = n
  BY <1>0, <1>1
<1>3. PICK f : /\ WalkForward(sig, buf, start) = f[steps]
               /\ f[0] = start + Len(sig.segments[aseg])
               /\ \A j \in 1..steps : f[j] = ForwardStep(sig, buf, j, f[j-1])
  <2>1. start \in Nat
    BY DEF Fits
  <2> QED
    <3>1. PICK f : ForwardTrace(f, sig, buf, start, n - sig.anchorSegment)
      BY <2>1, WalkForwardUnfolds
    <3> QED
      BY <1>1, <1>2, <3>1 DEF ForwardTrace
<1> DEFINE Reaches(k, e) ==
             /\ e \in Nat
             /\ \E at, last : /\ Spans(at, sig, buf, aseg, k, start, last)
                              /\ e = last + Len(sig.segments[k])
           T == {j \in Nat : j <= steps => f[j] = None \/ Reaches(aseg + j, f[j])}
<1>4. 0 \in T
  <2>1. \E at : Spans(at, sig, buf, aseg, aseg, start, start)
    BY <1>1, PlaceOne
  <2>2. aseg + 0 = aseg
    OBVIOUS
  <2>3. f[0] \in Nat
    BY <1>0, <1>1, <1>3 DEF Fits
  <2>4. Reaches(aseg, f[0])
    BY <1>3, <2>1, <2>3
  <2> QED
    BY <2>2, <2>4
<1>5. ASSUME NEW j \in Nat, j \in T PROVE j + 1 \in T
  <2> SUFFICES ASSUME j + 1 <= steps, f[j+1] # None PROVE Reaches(aseg + (j + 1), f[j+1])
    OBVIOUS
  <2>1. PICK k \in Nat : k = aseg + j
    OBVIOUS
  <2>2. /\ j + 1 \in 1..steps /\ (j + 1) - 1 = j /\ aseg + (j + 1) = k + 1
        /\ k + 1 <= n /\ k + 1 \in 1..n /\ aseg <= k /\ (k + 1) - 1 = k
    BY <1>1, <1>2, <2>1
  <2>3. f[j] \in Ends
    BY <1>5 DEF Ends
  <2>4. f[j+1] = ForwardStep(sig, buf, j + 1, f[j])
    BY <1>3, <2>2
  <2>5. StepsTo(sig, buf, k + 1, f[j], f[j+1])
    <3>1. k = sig.anchorSegment + j
      BY <1>1, <2>1
    <3> QED
      BY <2>2, <2>3, <2>4, <3>1, NextSegment
  <2>6. PICK pos : /\ Follows(sig, buf, k + 1, f[j], pos)
                   /\ f[j+1] = pos + Len(sig.segments[k+1])
    BY <2>5 DEF StepsTo
  <2>7. f[j] # None
    BY <2>5 DEF StepsTo
  <2>8. PICK at, last : /\ Spans(at, sig, buf, aseg, k, start, last)
                        /\ f[j] = last + Len(sig.segments[k])
    BY <1>5, <2>1, <2>7
  <2>9. Fits(sig, buf, k + 1, pos) /\ InReach(sig.gaps[k], pos - (last + Len(sig.segments[k])))
    BY <2>2, <2>6, <2>8 DEF Follows
  <2>10. \E new : Spans(new, sig, buf, aseg, k + 1, start, pos)
    BY <2>2, <2>8, <2>9, PlaceRight
  <2>11. f[j+1] \in Nat
    BY <1>0, <2>2, <2>6, <2>9 DEF Fits
  <2> QED
    BY <2>2, <2>6, <2>10, <2>11
<1> HIDE DEF T
<1>6. steps \in T
  BY <1>4, <1>5, EveryNumber
<1>7. Reaches(aseg + steps, f[steps])
  BY <1>3, <1>6 DEF T
<1> QED
  BY <1>1, <1>2, <1>7

\* With one segment after the anchor at most, the walk misses no placement.
LEMMA ForwardMisses ==
  ASSUME NEW sig, NEW n \in Nat, NEW buf, Walkable(sig, n, buf), n <= sig.anchorSegment + 1,
         NEW at, Placed(at, sig, buf, 1, n)
  PROVE  WalkForward(sig, buf, at[sig.anchorSegment]) # None
<1>0. /\ n \in Nat /\ sig.anchorSegment \in 1..n /\ Len(buf) \in Nat /\ Sized(buf)
      /\ \A k \in 1..n : Sized(sig.segments[k]) /\ Len(sig.segments[k]) \in Nat
  BY SegmentFacts
<1>1. PICK aseg \in Nat : aseg = sig.anchorSegment /\ aseg <= n /\ aseg >= 1 /\ n <= aseg + 1
  BY <1>0
<1>2. PICK steps \in Nat : steps = n - sig.anchorSegment /\ aseg + steps = n
  BY <1>0, <1>1
<1>3. \A k \in 1..n : at[k] \in Nat /\ Fits(sig, buf, k, at[k])
  BY <1>0 DEF Placed, Fits
<1>4. PICK start \in Nat : start = at[aseg]
  <2>1. aseg \in 1..n
    BY <1>0, <1>1
  <2> QED
    BY <1>3, <2>1
<1>5. PICK f : /\ WalkForward(sig, buf, start) = f[steps]
               /\ f[0] = start + Len(sig.segments[aseg])
               /\ \A j \in 1..steps : f[j] = ForwardStep(sig, buf, j, f[j-1])
  <2>1. PICK f : ForwardTrace(f, sig, buf, start, n - sig.anchorSegment)
    BY WalkForwardUnfolds
  <2> QED
    BY <1>1, <1>2, <2>1 DEF ForwardTrace
<1>6. f[0] \in Nat /\ f[0] \in Ends /\ f[0] # None
  <2>1. aseg \in 1..n
    BY <1>1
  <2>2. Len(sig.segments[aseg]) \in Nat
    BY <1>0, <2>1
  <2>3. f[0] \in Nat
    BY <1>5, <2>2
  <2> QED
    BY <2>3 DEF Ends, None
<1>7. CASE steps = 0
  BY <1>1, <1>4, <1>5, <1>6, <1>7
<1>8. CASE steps = 1
  <2>1. /\ 1 \in 1..steps /\ 1 - 1 = 0 /\ 0 + 1 = 1 /\ aseg + 0 = aseg
        /\ aseg + 1 \in 1..n /\ aseg \in 1..(n-1) /\ aseg + 1 <= n /\ (aseg + 1) - 1 = aseg
    <3>1. n = aseg + 1
      BY <1>2, <1>8
    <3> QED
      BY <1>1, <1>8, <3>1
  <2>2. f[1] = ForwardStep(sig, buf, 0 + 1, f[0])
    BY <1>5, <2>1
  <2>3. StepsTo(sig, buf, aseg + 1, f[0], f[1])
    <3>1. aseg = sig.anchorSegment + 0 /\ 0 \in Nat
      BY <1>1, <2>1
    <3> QED
      BY <1>6, <2>1, <2>2, <3>1, NextSegment
  <2>4. Follows(sig, buf, aseg + 1, f[0], at[aseg+1])
    <3>1. InReach(sig.gaps[aseg], at[aseg+1] - (at[aseg] + Len(sig.segments[aseg])))
      BY <2>1 DEF Placed
    <3>2. Fits(sig, buf, aseg + 1, at[aseg+1])
      BY <1>3, <2>1
    <3> QED
      BY <1>4, <1>5, <2>1, <3>1, <3>2 DEF Follows
  <2>5. f[1] # None
    BY <1>6, <2>3, <2>4 DEF StepsTo
  <2> QED
    BY <1>1, <1>4, <1>5, <1>8, <2>5
<1>9. steps = 0 \/ steps = 1
  BY <1>1, <1>2
<1> QED
  BY <1>7, <1>8, <1>9

(***************************************************************************)
(* The walk from the anchor back to the start of the pattern.              *)
(***************************************************************************)
BackwardStep(sig, buf, j, before) ==
  LET k == sig.anchorSegment - j
  IN  IF before = None THEN None ELSE FindBackward(buf, sig.segments[k], before, sig.gaps[k])

BackwardEquation(f, sig, buf, start) ==
  f = [j \in 0..(sig.anchorSegment - 1) |->
         IF j = 0 THEN start ELSE BackwardStep(sig, buf, j, f[j-1])]

\* Before segment k + 1, which is at before, segment k fits at pos.
Precedes(sig, buf, k, before, pos) ==
  /\ Fits(sig, buf, k, pos)
  /\ InReach(sig.gaps[k], before - (pos + Len(sig.segments[k])))

\* e is a place of segment k that precedes, if there is one.
StepsBack(sig, buf, k, before, e) ==
  /\ e \in Ends
  /\ e # None => before # None /\ Precedes(sig, buf, k, before, e)
  /\ before # None /\ (\E pos : Precedes(sig, buf, k, before, pos)) => e # None

LEMMA BackwardStepFinds ==
  ASSUME NEW sig, NEW n \in Nat, NEW buf, Walkable(sig, n, buf), NEW j \in Nat,
         NEW k \in Nat, k >= 1, k + 1 <= n, k = sig.anchorSegment - j, NEW before \in Ends
  PROVE  StepsBack(sig, buf, k, before, BackwardStep(sig, buf, j, before))
<1>1. PICK seg : seg = sig.segments[k]
  OBVIOUS
<1>2. PICK gap : gap = sig.gaps[k]
  OBVIOUS
<1>3. Len(seg) \in Nat /\ IsGapRange(gap) /\ Len(buf) \in Nat
  <2>1. k \in 1..n /\ k \in 1..(n-1)
    OBVIOUS
  <2> QED
    BY <1>1, <1>2, <2>1, SegmentFacts
<1>4. PICK e : e = BackwardStep(sig, buf, j, before)
  OBVIOUS
<1>5. e = IF before = None THEN None ELSE FindBackward(buf, seg, before, gap)
  BY <1>1, <1>2, <1>4 DEF BackwardStep
<1>6. CASE before = None
  BY <1>4, <1>5, <1>6 DEF Ends, StepsBack
<1>7. CASE before # None
  <2>1. before \in Nat
    BY <1>7 DEF Ends
  <2>2. /\ e # None => /\ e \in Nat /\ MatchesAt(seg, buf, e)
                       /\ InReach(gap, before - (e + Len(seg)))
        /\ (\E p \in Nat : /\ MatchesAt(seg, buf, p)
                           /\ InReach(gap, before - (p + Len(seg)))) => e # None
    BY <1>3, <1>5, <1>7, <2>1, BackwardFound
  <2>3. e \in Ends
    BY <2>2 DEF Ends
  <2>4. e # None => Precedes(sig, buf, k, before, e)
    BY <1>1, <1>2, <1>3, <2>2 DEF Precedes, Fits, Sized
  <2>5. (\E pos : Precedes(sig, buf, k, before, pos)) => e # None
    BY <1>1, <1>2, <2>2 DEF Precedes, Fits
  <2> QED
    BY <1>4, <1>7, <2>3, <2>4, <2>5 DEF StepsBack
<1> QED
  BY <1>6, <1>7

LEMMA BackwardExists ==
  ASSUME NEW sig, NEW n \in Nat, NEW buf, Walkable(sig, n, buf), NEW start \in Nat
  PROVE  \E f : BackwardEquation(f, sig, buf, start)
<1>1. PICK aseg \in Nat : aseg = sig.anchorSegment /\ aseg <= n /\ aseg >= 1
  BY SegmentFacts
<1>2. PICK steps \in Nat : steps = sig.anchorSegment - 1 /\ steps + 1 = aseg
  BY <1>1
<1>3. start \in Ends
  BY DEF Ends
<1> DEFINE step == [q \in (1..steps) \X Ends |-> BackwardStep(sig, buf, q[1], q[2])]
<1>4. \A j \in 1..steps, s \in Ends : step[<<j, s>>] = BackwardStep(sig, buf, j, s)
  OBVIOUS
<1> HIDE DEF step
<1>5. Stays(step, steps, Ends)
  <2>1. ASSUME NEW j \in 1..steps, NEW s \in Ends PROVE BackwardStep(sig, buf, j, s) \in Ends
    <3>1. PICK k \in Nat : k = aseg - j /\ k >= 1 /\ k + 1 <= n
      BY <1>1, <1>2
    <3>2. k = sig.anchorSegment - j /\ j \in Nat
      BY <1>1, <3>1
    <3>3. StepsBack(sig, buf, k, s, BackwardStep(sig, buf, j, s))
      BY <3>1, <3>2, BackwardStepFinds
    <3> QED
      BY <3>3 DEF StepsBack
  <2> QED
    BY <1>4, <2>1 DEF Stays
<1>6. PICK f : Unfolds(f, steps, Ends, start, step)
  BY <1>3, <1>5, Recursion
<1>7. ASSUME NEW j \in 0..steps
      PROVE  f[j] = IF j = 0 THEN start ELSE BackwardStep(sig, buf, j, f[j-1])
  <2>1. CASE j = 0
    BY <1>6, <2>1 DEF Unfolds
  <2>2. CASE j \in 1..steps
    <3>1. f[j-1] \in Ends /\ f[j] = step[<<j, f[j-1]>>] /\ j # 0
      BY <1>6, <2>2 DEF Unfolds
    <3> QED
      BY <1>4, <2>2, <3>1
  <2> QED
    BY <2>1, <2>2
<1>8. DOMAIN f = 0..steps /\ f = [j \in DOMAIN f |-> f[j]]
  BY <1>6 DEF Unfolds
<1>9. BackwardEquation(f, sig, buf, start)
  BY <1>2, <1>7, <1>8 DEF BackwardEquation
<1> QED
  BY <1>9

BackwardTrace(f, sig, buf, start, steps) ==
  /\ WalkBackward(sig, buf, start) = f[steps]
  /\ f[0] = start
  /\ \A j \in 1..steps : f[j] = BackwardStep(sig, buf, j, f[j-1])

LEMMA WalkBackwardUnfolds ==
  ASSUME NEW sig, NEW n \in Nat, NEW buf, Walkable(sig, n, buf), NEW start \in Nat
  PROVE  \E f : BackwardTrace(f, sig, buf, start, sig.anchorSegment - 1)
<1>1. PICK aseg \in Nat : aseg = sig.anchorSegment /\ aseg <= n /\ aseg >= 1
  BY SegmentFacts
<1>2. PICK steps \in Nat : steps = sig.anchorSegment - 1 /\ steps + 1 = aseg
  BY <1>1
<1> DEFINE f == CHOOSE h : BackwardEquation(h, sig, buf, start)
<1>3. BackwardEquation(f, sig, buf, start)
  BY BackwardExists
<1>4. WalkBackward(sig, buf, start) = f[steps]
  BY <1>2 DEF WalkBackward, BackwardEquation, BackwardStep
<1> HIDE DEF f
<1>5. \A j \in 0..steps : f[j] = IF j = 0 THEN start ELSE BackwardStep(sig, buf, j, f[j-1])
  BY <1>2, <1>3 DEF BackwardEquation
<1>6. f[0] = start
  <2>1. 0 \in 0..steps
    OBVIOUS
  <2> QED
    BY <1>5, <2>1
<1>7. \A j \in 1..steps : f[j] = BackwardStep(sig, buf, j, f[j-1])
  <2>1. \A j \in 1..steps : j \in 0..steps /\ j # 0
    OBVIOUS
  <2> QED
    BY <1>5, <2>1
<1> QED
  BY <1>2, <1>4, <1>6, <1>7 DEF BackwardTrace

\* A walk back that ends extends the placement to the first segment.
LEMMA BackwardPlaces ==
  ASSUME NEW sig, NEW n \in Nat, NEW buf, Walkable(sig, n, buf), NEW start \in Nat,
         NEW at, NEW last, Spans(at, sig, buf, sig.anchorSegment, n, start, last),
         WalkBackward(sig, buf, start) # None
  PROVE  \E all : Placed(all, sig, buf, 1, n)
<1>1. PICK aseg \in Nat : aseg = sig.anchorSegment /\ aseg <= n /\ aseg >= 1
  BY SegmentFacts
<1>2. PICK steps \in Nat : steps = sig.anchorSegment - 1 /\ steps + 1 = aseg
  BY <1>1
<1>3. PICK f : BackwardTrace(f, sig, buf, start, steps)
  BY <1>2, WalkBackwardUnfolds
<1>4. \A j \in 1..steps : f[j] = BackwardStep(sig, buf, j, f[j-1])
  BY <1>3 DEF BackwardTrace
<1> DEFINE Reaches(k, e) == e \in Nat /\ \E new : Spans(new, sig, buf, k, n, e, last)
           T == {j \in Nat : j <= steps => f[j] = None \/ Reaches(aseg - j, f[j])}
<1>5. 0 \in T
  <2>1. aseg - 0 = aseg /\ f[0] = start
    BY <1>3 DEF BackwardTrace
  <2>2. Reaches(aseg, start)
    BY <1>1
  <2> QED
    BY <2>1, <2>2
<1>6. ASSUME NEW j \in Nat, j \in T PROVE j + 1 \in T
  <2> SUFFICES ASSUME j + 1 <= steps, f[j+1] # None PROVE Reaches(aseg - (j + 1), f[j+1])
    OBVIOUS
  <2>1. PICK k \in Nat : k = aseg - (j + 1) /\ k >= 1 /\ k + 1 <= n /\ k + 1 = aseg - j
    BY <1>1, <1>2
  <2>2. j + 1 \in 1..steps /\ (j + 1) - 1 = j /\ k = sig.anchorSegment - (j + 1) /\ j + 1 \in Nat
    BY <1>1, <2>1
  <2>3. f[j] \in Ends
    BY <1>6 DEF Ends
  <2>4. f[j+1] = BackwardStep(sig, buf, j + 1, f[j])
    BY <1>4, <2>2
  <2>5. StepsBack(sig, buf, k, f[j], f[j+1])
    BY <2>1, <2>2, <2>3, <2>4, BackwardStepFinds
  <2>6. f[j] # None /\ Precedes(sig, buf, k, f[j], f[j+1])
    BY <2>5 DEF StepsBack
  <2>7. PICK new : Spans(new, sig, buf, k + 1, n, f[j], last)
    BY <1>6, <2>1, <2>6
  <2>8. /\ Fits(sig, buf, k, f[j+1])
        /\ InReach(sig.gaps[k], f[j] - (f[j+1] + Len(sig.segments[k])))
    BY <2>6 DEF Precedes
  <2>9. \E more : Spans(more, sig, buf, k, n, f[j+1], last)
    BY <2>1, <2>7, <2>8, PlaceLeft
  <2> QED
    BY <2>1, <2>8, <2>9 DEF Fits
<1> HIDE DEF T
<1>7. steps \in T
  BY <1>5, <1>6, EveryNumber
<1>8. Reaches(aseg - steps, f[steps])
  BY <1>3, <1>7 DEF T, BackwardTrace
<1>9. aseg - steps = 1
  BY <1>2
<1> QED
  BY <1>8, <1>9 DEF Spans

\* With one segment before the anchor at most, the walk back misses no placement.
LEMMA BackwardMisses ==
  ASSUME NEW sig, NEW n \in Nat, NEW buf, Walkable(sig, n, buf), sig.anchorSegment <= 2,
         NEW at, Placed(at, sig, buf, 1, n)
  PROVE  WalkBackward(sig, buf, at[sig.anchorSegment]) # None
<1>0. Len(buf) \in Nat /\ Sized(buf) /\ \A k \in 1..n : Sized(sig.segments[k])
  BY SegmentFacts
<1>1. PICK aseg \in Nat : aseg = sig.anchorSegment /\ aseg <= n /\ aseg >= 1 /\ aseg <= 2
  BY SegmentFacts
<1>2. PICK steps \in Nat : steps = sig.anchorSegment - 1 /\ steps + 1 = aseg
  BY <1>1
<1>3. \A k \in 1..n : at[k] \in Nat /\ Fits(sig, buf, k, at[k])
  BY <1>0 DEF Placed, Fits
<1>4. PICK start \in Nat : start = at[aseg]
  <2>1. aseg \in 1..n
    BY <1>1
  <2> QED
    BY <1>3, <2>1
<1>5. PICK f : BackwardTrace(f, sig, buf, start, steps)
  BY <1>2, WalkBackwardUnfolds
<1>6. f[0] = start /\ start \in Ends /\ start # None
  BY <1>5 DEF BackwardTrace, Ends, None
<1>7. CASE steps = 0
  BY <1>1, <1>4, <1>5, <1>6, <1>7 DEF BackwardTrace
<1>8. CASE steps = 1
  <2>1. /\ 1 \in 1..steps /\ 1 - 1 = 0 /\ aseg = 2 /\ 1 + 1 <= n /\ 1 = aseg - 1 /\ 1 \in Nat
        /\ 1 >= 1 /\ 1 \in 1..n /\ 1 \in 1..(n-1) /\ 1 + 1 = 2
    BY <1>1, <1>2, <1>8
  <2>2. f[1] = BackwardStep(sig, buf, 1, f[0])
    BY <1>5, <2>1 DEF BackwardTrace
  <2>3. StepsBack(sig, buf, 1, start, f[1])
    <3>1. 1 = sig.anchorSegment - 1
      BY <1>1, <2>1
    <3> QED
      BY <1>6, <2>1, <2>2, <3>1, BackwardStepFinds
  <2>4. Precedes(sig, buf, 1, start, at[1])
    <3>1. InReach(sig.gaps[1], at[2] - (at[1] + Len(sig.segments[1])))
      BY <2>1 DEF Placed
    <3>2. Fits(sig, buf, 1, at[1])
      BY <1>3, <2>1
    <3> QED
      BY <1>4, <2>1, <3>1, <3>2 DEF Precedes
  <2>5. f[1] # None
    BY <1>6, <2>3, <2>4 DEF StepsBack
  <2> QED
    BY <1>1, <1>4, <1>5, <1>8, <2>5 DEF BackwardTrace
<1>9. steps = 0 \/ steps = 1
  BY <1>1, <1>2
<1> QED
  BY <1>7, <1>8, <1>9

(***************************************************************************)
(* What the engine finds against what a pattern means.                     *)
(***************************************************************************)
LEMMA OccursIsPlaced ==
  ASSUME NEW p, NEW n, NEW buf, IsPattern(p), IsSignature(Parse(p), n)
  PROVE  Occurs(p, buf) <=> \E at : Placed(at, Parse(p), buf, 1, n)
<1>1. Parse(p).segments = SplitOnGaps(p).segments /\ Parse(p).gaps = SplitOnGaps(p).gaps
  BY DEF Parse
<1>2. PICK segments, gaps : segments = SplitOnGaps(p).segments /\ gaps = SplitOnGaps(p).gaps
  OBVIOUS
<1>3. Len(segments) = n
  BY <1>1, <1>2 DEF IsSignature, IsSplit
<1>4. ASSUME NEW at
      PROVE  Placed(at, Parse(p), buf, 1, n) <=>
               /\ at \in [1..n -> 0..Len(buf)]
               /\ \A k \in 1..n : MatchesAt(segments[k], buf, at[k])
               /\ \A k \in 1..(n-1) :
                     at[k+1] - (at[k] + Len(segments[k])) \in gaps[k].min..gaps[k].max
  BY <1>1, <1>2 DEF Placed, InReach
<1>5. Occurs(p, buf) <=>
        \E at \in [1..n -> 0..Len(buf)] :
            /\ \A k \in 1..n : MatchesAt(segments[k], buf, at[k])
            /\ \A k \in 1..(n-1) :
                  at[k+1] - (at[k] + Len(segments[k])) \in gaps[k].min..gaps[k].max
  BY <1>2, <1>3 DEF Occurs
<1> QED
  BY <1>4, <1>5

\* A verified anchor is the anchor of a whole occurrence.
LEMMA VerifiedOccurs ==
  ASSUME NEW p, NEW n \in Nat, NEW buf, IsPattern(p), Walkable(Parse(p), n, buf),
         NEW pos \in Nat, Verify(Parse(p), buf, pos) # None
  PROVE  Occurs(p, buf)
<1> PICK sig : sig = Parse(p)
  OBVIOUS
<1>0. Walkable(sig, n, buf)
  OBVIOUS
<1>1. PICK aseg \in 1..n : aseg = sig.anchorSegment
  BY <1>0, SegmentFacts
<1>2. PICK start : start = pos - sig.anchorOffset
  OBVIOUS
<1>3. /\ ~(start < 0) /\ MatchesAt(sig.segments[aseg], buf, start)
      /\ WalkForward(sig, buf, start) # None /\ WalkBackward(sig, buf, start) # None
  BY <1>1, <1>2 DEF Verify
<1>4. start \in Nat
  BY <1>0, <1>2, <1>3 DEF Walkable, IsSignature
<1>5. Fits(sig, buf, sig.anchorSegment, start)
  <2>1. Sized(buf) /\ Sized(sig.segments[aseg])
    BY <1>0, SegmentFacts
  <2> QED
    BY <1>1, <1>3, <1>4, <2>1 DEF Fits
<1>6. PICK at, last : Spans(at, sig, buf, sig.anchorSegment, n, start, last)
  BY <1>0, <1>3, <1>5, ForwardPlaces
<1>7. PICK all : Placed(all, sig, buf, 1, n)
  BY <1>0, <1>3, <1>4, <1>6, BackwardPlaces
<1> QED
  BY <1>0, <1>7, OccursIsPlaced DEF Walkable

\* An occurrence of a decided pattern has an anchor that is verified.
LEMMA OccurrenceVerifies ==
  ASSUME NEW p, NEW n \in Nat, NEW buf, IsPattern(p), Walkable(Parse(p), n, buf),
         Decided(p), Occurs(p, buf)
  PROVE  \E pos \in AnchorHits(Parse(p), buf) : Verify(Parse(p), buf, pos) # None
<1> PICK sig : sig = Parse(p)
  OBVIOUS
<1>0. Walkable(sig, n, buf)
  OBVIOUS
<1>1. PICK aseg \in Nat : aseg = sig.anchorSegment /\ aseg >= 1 /\ aseg <= n
  BY <1>0, SegmentFacts
<1>2. aseg <= 2 /\ n <= aseg + 1
  BY <1>0, <1>1, SegmentFacts DEF Decided
<1>3. PICK at : Placed(at, sig, buf, 1, n)
  BY <1>0, OccursIsPlaced DEF Walkable
<1>4. WalkForward(sig, buf, at[aseg]) # None
  BY <1>0, <1>1, <1>2, <1>3, ForwardMisses
<1>5. WalkBackward(sig, buf, at[aseg]) # None
  BY <1>0, <1>1, <1>2, <1>3, BackwardMisses
<1>6. aseg \in 1..n
  BY <1>1
<1>7. PICK start \in Nat : start = at[aseg] /\ MatchesAt(sig.segments[aseg], buf, start)
  <2>1. Len(buf) \in Nat
    BY <1>0, SegmentFacts
  <2> QED
    BY <1>3, <1>6, <2>1 DEF Placed
<1>8. PICK seg, lit : seg = sig.segments[aseg] /\ lit = sig.anchorLiteral
  OBVIOUS
<1>21. PICK o \in Nat : o = sig.anchorOffset
  BY <1>0 DEF Walkable, IsSignature
<1>22. PICK m \in Nat : m = Len(lit)
  BY <1>0, <1>8 DEF Walkable, IsSignature
<1>23. PICK len \in Nat : len = Len(seg)
  BY <1>0, <1>6, <1>8, SegmentFacts
<1>24. DOMAIN lit = 1..m /\ o + m <= len /\ \A i \in 1..m : lit[i] = seg[o + i]
  BY <1>0, <1>1, <1>8, <1>21, <1>22, <1>23 DEF Walkable, IsSignature
<1>25. DOMAIN seg = 1..len
  BY <1>0, <1>6, <1>8, <1>23, LenProperties DEF Walkable, IsSignature, IsSplit
<1>9. PICK pos \in Nat : pos = start + o
  OBVIOUS
<1>10. PICK size \in Nat : size = Len(buf)
  BY <1>0, SegmentFacts
<1>11. start + len <= size
  BY <1>7, <1>8, <1>10, <1>23 DEF MatchesAt
<1>12. MatchesAt(lit, buf, pos)
  <2>1. pos + m <= size
    BY <1>9, <1>11, <1>24
  <2>2. ASSUME NEW i \in 1..m PROVE lit[i] = Wildcard \/ buf[pos + i] = lit[i].byte
    <3>1. o + i \in 1..len /\ start + (o + i) = pos + i
      BY <1>9, <1>24
    <3>2. seg[o + i] = Wildcard \/ buf[start + (o + i)] = seg[o + i].byte
      BY <1>7, <1>8, <1>25, <3>1 DEF MatchesAt
    <3> QED
      BY <1>24, <3>1, <3>2
  <2> QED
    BY <1>10, <1>22, <1>24, <2>1, <2>2 DEF MatchesAt
<1>13. pos \in AnchorHits(sig, buf)
  <2>1. pos \in 0..Len(buf)
    BY <1>9, <1>10, <1>11, <1>24
  <2> QED
    BY <1>8, <1>12, <2>1 DEF AnchorHits
<1>14. Verify(sig, buf, pos) # None
  <2>1. pos - sig.anchorOffset = start /\ ~(start < 0)
    BY <1>9, <1>21
  <2> QED
    BY <1>1, <1>4, <1>5, <1>7, <2>1 DEF Verify
<1> QED
  BY <1>13, <1>14

\* What occurs in the first bytes of a file occurs in the file.
LEMMA OccursInWhole ==
  ASSUME NEW p, NEW n \in Nat, NEW data \in Seq(Nat), NEW k \in 0..Len(data),
         IsPattern(p), IsSignature(Parse(p), n),
         Occurs(p, SubSeq(data, 1, k))
  PROVE  Occurs(p, data)
<1>1. PICK size \in Nat : size = Len(data)
  BY LenProperties
<1>2. PICK buf : buf = SubSeq(data, 1, k)
  OBVIOUS
<1>3. Len(buf) = k /\ \A i \in 1..k : buf[i] = data[i]
  <2>1. k \in Nat /\ 0 + k <= Len(data) /\ 0 + 1 = 1 /\ 0 + k = k /\ \A i \in 1..k : 0 + i = i
    BY <1>1
  <2> QED
    BY <1>2, <2>1, Piece
<1>4. PICK at : Placed(at, Parse(p), buf, 1, n)
  BY <1>2, OccursIsPlaced
<1>5. ASSUME NEW j \in 1..n PROVE MatchesAt(Parse(p).segments[j], data, at[j])
  <2>1. PICK pos \in Nat : pos = at[j]
    <3>1. at \in [1..n -> 0..k]
      BY <1>3, <1>4 DEF Placed
    <3>2. at[j] \in 0..k
      BY <3>1
    <3> QED
      BY <3>2
  <2>7. PICK seg : seg = Parse(p).segments[j]
    OBVIOUS
  <2>8. PICK S : seg \in Seq(S)
    BY <2>7 DEF IsSignature, IsSplit
  <2>2. PICK len \in Nat : len = Len(seg) /\ DOMAIN seg = 1..len
    BY <2>8, LenProperties
  <2>3. MatchesAt(seg, buf, pos)
    BY <1>4, <2>1, <2>7 DEF Placed
  <2>4. pos + len <= k
    BY <1>3, <2>2, <2>3 DEF MatchesAt
  <2>5. ASSUME NEW i \in 1..len PROVE seg[i] = Wildcard \/ data[pos + i] = seg[i].byte
    <3>1. pos + i \in 1..k
      BY <2>4
    <3> QED
      BY <1>3, <2>2, <2>3, <3>1 DEF MatchesAt
  <2>6. pos + len <= Len(data)
    BY <1>1, <2>4
  <2> QED
    BY <2>1, <2>2, <2>5, <2>6, <2>7 DEF MatchesAt
<1>6. at \in [1..n -> 0..Len(data)]
  <2>1. 0..Len(buf) \subseteq 0..Len(data)
    BY <1>1, <1>3
  <2> QED
    BY <1>4, <2>1 DEF Placed
<1>7. Placed(at, Parse(p), data, 1, n)
  BY <1>4, <1>5, <1>6 DEF Placed
<1> QED
  BY <1>7, OccursIsPlaced

\* The patterns of a database that load_ndb accepts.
Parsed(p) == IsPattern(p) /\ \E n \in Nat : IsSignature(Parse(p), n)

LEMMA PatternsParse ==
  ASSUME NEW d \in Databases, LoadsNdb(d.patterns)
  PROVE  \A p \in d.patterns : Parsed(p)
<1> SUFFICES ASSUME NEW p \in d.patterns PROVE Parsed(p)
  OBVIOUS
<1>1. IsPattern(p)
  BY DatabasesAssumption DEF IsPattern
<1>2. ParseOk(p)
  BY DEF LoadsNdb
<1>3. PICK n : IsSignature(Parse(p), n)
  BY <1>1, <1>2, ParseShape
<1>4. n \in Nat
  BY <1>3 DEF IsSignature, IsSplit
<1> QED
  BY <1>1, <1>3, <1>4 DEF Parsed

\* What a detection means, under the reference meaning of a pattern.
Real(d, data) ==
  \/ \E p \in d.patterns : Occurs(p, data)
  \/ \E k \in 0..Len(data) : HashHit(LoadHdb(d.hashes), SubSeq(data, 1, k))

LEMMA DetectedIsReal ==
  ASSUME NEW d \in Databases, LoadsNdb(d.patterns), NEW data \in Seq(Nat), NEW k \in 0..Len(data),
         ScanBuffer(Engine(d.patterns, d.hashes), SubSeq(data, 1, k))
  PROVE  Real(d, data)
<1> PICK buf : buf = SubSeq(data, 1, k)
  OBVIOUS
<1>1. CASE HashHit(LoadHdb(d.hashes), buf)
  BY <1>1 DEF Real
<1>2. CASE \E p \in d.patterns : \E pos \in AnchorHits(Parse(p), buf) : Verify(Parse(p), buf, pos) # None
  <2>1. PICK p \in d.patterns : \E pos \in AnchorHits(Parse(p), buf) : Verify(Parse(p), buf, pos) # None
    BY <1>2
  <2>2. PICK pos \in AnchorHits(Parse(p), buf) : Verify(Parse(p), buf, pos) # None
    BY <2>1
  <2>3. IsPattern(p) /\ \E n \in Nat : IsSignature(Parse(p), n)
    BY PatternsParse DEF Parsed
  <2>4. PICK n \in Nat : IsSignature(Parse(p), n)
    BY <2>3
  <2>5. Len(buf) \in Nat
    <3>1. Len(data) \in Nat
      BY LenProperties
    <3>2. k \in Nat /\ 0 + k <= Len(data) /\ 0 + 1 = 1 /\ 0 + k = k
      BY <3>1
    <3> QED
      BY <3>2, Piece
  <2>6. Walkable(Parse(p), n, buf) /\ pos \in Nat
    BY <2>4, <2>5 DEF Walkable, AnchorHits
  <2>7. Occurs(p, buf)
    BY <2>2, <2>3, <2>6, VerifiedOccurs
  <2>8. Occurs(p, data)
    BY <2>3, <2>4, <2>7, OccursInWhole
  <2> QED
    BY <2>8 DEF Real
<1> QED
  BY <1>1, <1>2 DEF ScanBuffer, Engine

LEMMA CarriedIsDetected ==
  ASSUME NEW d \in Databases, LoadsNdb(d.patterns), NEW data \in Seq(Nat),
         \/ \E p \in d.patterns : Decided(p) /\ Occurs(p, data)
         \/ HashHit(LoadHdb(d.hashes), data)
  PROVE  ScanBuffer(Engine(d.patterns, d.hashes), SubSeq(data, 1, Len(data)))
<1>1. SubSeq(data, 1, Len(data)) = data
  <2>1. PICK size \in Nat : size = Len(data)
    BY LenProperties
  <2>2. \A i \in 1..size : data[i] \in Nat
    BY <2>1, ElementOfSeq
  <2> PICK buf : buf = SubSeq(data, 1, size)
    OBVIOUS
  <2>3. /\ 0 \in Nat /\ size \in Nat /\ 0 + size <= Len(data) /\ 0 + 1 = 1 /\ 0 + size = size
        /\ \A i \in 1..size : 0 + i = i
    BY <2>1
  <2>4. Len(buf) = size /\ DOMAIN buf = 1..size /\ \A i \in 1..size : buf[i] = data[i]
    BY <2>3, Piece
  <2>5. buf \in Seq(Nat)
    <3>1. \A i \in 1..size : i >= 1 /\ i <= Len(data)
      BY <2>1
    <3> QED
      BY <2>1, <2>2, <2>3, SubSeqProperties
  <2> QED
    BY <2>1, <2>4, <2>5, SeqEqual
<1>2. CASE HashHit(LoadHdb(d.hashes), data)
  BY <1>1, <1>2 DEF ScanBuffer, Engine
<1>3. CASE \E p \in d.patterns : Decided(p) /\ Occurs(p, data)
  <2>1. PICK p \in d.patterns : Decided(p) /\ Occurs(p, data)
    BY <1>3
  <2>2. IsPattern(p) /\ \E n \in Nat : IsSignature(Parse(p), n)
    BY PatternsParse DEF Parsed
  <2>3. PICK n \in Nat : Walkable(Parse(p), n, data)
    BY <2>2, LenProperties DEF Walkable
  <2>4. \E pos \in AnchorHits(Parse(p), data) : Verify(Parse(p), data, pos) # None
    BY <2>1, <2>2, <2>3, OccurrenceVerifies
  <2> QED
    BY <1>1, <2>4 DEF ScanBuffer, Engine
<1> QED
  BY <1>2, <1>3

(***************************************************************************)
(* What lies under a node.                                                 *)
(***************************************************************************)
\* The nodes of a file, and members that are nodes.
IsFile ==
  /\ IsFiniteSet(Nodes) /\ 1 \in Nodes /\ Nodes \subseteq Nat \ {0}
  /\ \A x \in Nodes : /\ Range(Members(x)) \subseteq Nodes
                      /\ Members(x) \in Seq(Nodes) /\ Data(x) \in Seq(Nat)

LEMMA DocIsFile ==
  ASSUME doc \in Docs
  PROVE  IsFile
<1>1. /\ doc.nodes \in Seq(Range(doc.nodes)) /\ doc.nodes # <<>>
      /\ \A n \in DOMAIN doc.nodes : /\ doc.nodes[n].data \in Seq(Nat)
                                     /\ doc.nodes[n].members \in Seq(DOMAIN doc.nodes)
  BY DocsAssumption
<1>2. PICK size \in Nat : size = Len(doc.nodes) /\ Nodes = 1..size /\ size # 0
  <2>1. Len(doc.nodes) \in Nat /\ DOMAIN doc.nodes = 1..Len(doc.nodes)
    BY <1>1, LenProperties
  <2>2. Len(doc.nodes) # 0
    BY <1>1, EmptySeq
  <2> QED
    BY <2>1, <2>2 DEF Nodes
<1>3. IsFiniteSet(1..size)
  BY FS_Interval
<1>4. 1 \in 1..size /\ 1..size \subseteq Nat \ {0}
  BY <1>2
<1>5. ASSUME NEW x \in Nodes
      PROVE  /\ Range(Members(x)) \subseteq Nodes
             /\ Members(x) \in Seq(Nodes) /\ Data(x) \in Seq(Nat)
  <2>1. Members(x) \in Seq(Nodes) /\ Data(x) \in Seq(Nat)
    BY <1>1 DEF Members, Data, Nodes
  <2>2. \A i \in DOMAIN Members(x) : Members(x)[i] \in Nodes
    BY <2>1, LenProperties, ElementOfSeq
  <2> QED
    BY <2>1, <2>2 DEF Range
<1> QED
  BY <1>2, <1>3, <1>4, <1>5 DEF IsFile

\* Layer after layer of the members that pass.
Grown(S, P) == S \cup (P \cap UNION {Range(Members(x)) : x \in S})

Layers(f, n, first, P) ==
  /\ f[0] = first
  /\ \A k \in 1..n : f[k] = Grown(f[k-1], P)

UnderEquation(f, top, P) ==
  f = [k \in 0..Cardinality(Nodes) |-> IF k = 0 THEN {top} ELSE Grown(f[k-1], P)]

LEMMA UnderLayers ==
  ASSUME IsFile, NEW top \in Nodes, NEW P \in SUBSET Nodes, NEW n \in Nat, n = Cardinality(Nodes)
  PROVE  \E f : Layers(f, n, {top}, P) /\ Under(top, P) = f[n]
<1> DEFINE step == [q \in (1..n) \X SUBSET Nodes |-> Grown(q[2], P)]
<1>1. \A k \in 1..n, S \in SUBSET Nodes : step[<<k, S>>] = Grown(S, P)
  OBVIOUS
<1>2. \A S \in SUBSET Nodes : Grown(S, P) \in SUBSET Nodes
  BY DEF Grown
<1> HIDE DEF step
<1>3. Stays(step, n, SUBSET Nodes)
  BY <1>1, <1>2 DEF Stays
<1>4. PICK g : Unfolds(g, n, SUBSET Nodes, {top}, step)
  BY <1>3, Recursion
<1>5. ASSUME NEW k \in 0..n
      PROVE  g[k] = IF k = 0 THEN {top} ELSE Grown(g[k-1], P)
  <2>1. CASE k = 0
    BY <1>4, <2>1 DEF Unfolds
  <2>2. CASE k \in 1..n
    <3>1. g[k-1] \in SUBSET Nodes /\ g[k] = step[<<k, g[k-1]>>] /\ k # 0
      BY <1>4, <2>2 DEF Unfolds
    <3> QED
      BY <1>1, <2>2, <3>1
  <2> QED
    BY <2>1, <2>2
<1>6. DOMAIN g = 0..n /\ g = [k \in DOMAIN g |-> g[k]]
  BY <1>4 DEF Unfolds
<1>7. UnderEquation(g, top, P)
  BY <1>5, <1>6 DEF UnderEquation
<1> DEFINE f == CHOOSE h : UnderEquation(h, top, P)
<1>8. UnderEquation(f, top, P)
  BY <1>7
<1>9. Under(top, P) = f[n]
  BY DEF Under, UnderEquation, Grown
<1> HIDE DEF f
<1>10. \A k \in 0..n : f[k] = IF k = 0 THEN {top} ELSE Grown(f[k-1], P)
  BY <1>8 DEF UnderEquation
<1>11. f[0] = {top}
  <2>1. 0 \in 0..n
    OBVIOUS
  <2> QED
    BY <1>10, <2>1
<1>12. \A k \in 1..n : f[k] = Grown(f[k-1], P)
  <2>1. \A k \in 1..n : k \in 0..n /\ k # 0
    OBVIOUS
  <2> QED
    BY <1>10, <2>1
<1> QED
  BY <1>9, <1>11, <1>12 DEF Layers

\* What holds of a node, and of the members that pass wherever it holds, holds under it.
LEMMA UnderInduction ==
  ASSUME IsFile, NEW top \in Nodes, NEW P \in SUBSET Nodes, NEW T, top \in T,
         \A x \in Nodes : x \in T => P \cap Range(Members(x)) \subseteq T
  PROVE  Under(top, P) \subseteq T \cap Nodes
<1>1. PICK n \in Nat : n = Cardinality(Nodes)
  BY FS_CardinalityType DEF IsFile
<1>2. PICK f : Layers(f, n, {top}, P) /\ Under(top, P) = f[n]
  BY <1>1, UnderLayers
<1> DEFINE Within == {k \in Nat : k <= n => f[k] \subseteq T \cap Nodes}
<1>3. 0 \in Within
  BY <1>2 DEF Layers
<1>4. ASSUME NEW k \in Nat, k \in Within PROVE k + 1 \in Within
  <2> SUFFICES ASSUME k + 1 <= n PROVE f[k+1] \subseteq T \cap Nodes
    OBVIOUS
  <2>1. k + 1 \in 1..n /\ (k + 1) - 1 = k
    OBVIOUS
  <2>2. f[k+1] = Grown(f[k], P)
    BY <1>2, <2>1 DEF Layers
  <2>3. f[k] \subseteq T \cap Nodes
    BY <1>4
  <2> QED
    BY <2>2, <2>3 DEF Grown
<1> HIDE DEF Within
<1>5. n \in Within
  BY <1>3, <1>4, EveryNumber
<1> QED
  BY <1>2, <1>5 DEF Within

Below(n) == Under(n, Nodes)

\* Below a node lie the node, and the members of what lies below it.
LEMMA BelowClosed ==
  ASSUME IsFile, NEW top \in Nodes
  PROVE  /\ Below(top) \subseteq Nodes /\ top \in Below(top)
         /\ \A x \in Below(top) : Range(Members(x)) \subseteq Below(top)
<1>1. PICK n \in Nat : n = Cardinality(Nodes)
  BY FS_CardinalityType DEF IsFile
<1>2. PICK f : Layers(f, n, {top}, Nodes) /\ Below(top) = f[n]
  BY <1>1, UnderLayers DEF Below
<1>3. ASSUME NEW d \in Nat, d + 1 <= n
      PROVE  f[d + 1] = Grown(f[d], Nodes)
  <2>1. d + 1 \in 1..n /\ (d + 1) - 1 = d
    BY <1>3
  <2> QED
    BY <1>2, <2>1 DEF Layers
<1> DEFINE Within == {d \in Nat : d <= n => f[d] \subseteq Nodes /\ top \in f[d]}
           Closed(d) == Grown(f[d], Nodes) = f[d]
<1>4. \A d \in Nat : d \in Within
  <2>1. 0 \in Within
    BY <1>2 DEF Layers
  <2>2. ASSUME NEW d \in Nat, d \in Within PROVE d + 1 \in Within
    BY <1>3, <2>2 DEF Grown
  <2> HIDE DEF Within
  <2> QED
    BY <2>1, <2>2, EveryNumber
<1>5. \A d \in 0..n : Closed(d) => Closed(n)
  <2> SUFFICES ASSUME NEW d \in 0..n, Closed(d) PROVE Closed(n)
    OBVIOUS
  <2> DEFINE Same == {e \in Nat : d + e <= n => f[d + e] = f[d]}
  <2>1. 0 \in Same
    OBVIOUS
  <2>2. ASSUME NEW e \in Nat, e \in Same PROVE e + 1 \in Same
    <3> SUFFICES ASSUME d + (e + 1) <= n PROVE f[d + (e + 1)] = f[d]
      OBVIOUS
    <3>1. f[d + e] = f[d]
      BY <2>2
    <3>2. d + e \in Nat /\ (d + e) + 1 <= n /\ d + (e + 1) = (d + e) + 1
      OBVIOUS
    <3>3. f[(d + e) + 1] = Grown(f[d + e], Nodes)
      BY <1>3, <3>2
    <3> QED
      BY <3>1, <3>2, <3>3
  <2> HIDE DEF Same
  <2>3. n - d \in Same
    BY <2>1, <2>2, EveryNumber
  <2>4. f[n] = f[d]
    <3>1. d + (n - d) = n
      OBVIOUS
    <3>2. f[d + (n - d)] = f[d]
      BY <2>3, <3>1 DEF Same
    <3> QED
      BY <3>1, <3>2
  <2> QED
    BY <2>4
<1> HIDE DEF Closed
<1>6. Closed(n)
  <2> SUFFICES ASSUME ~Closed(n) PROVE FALSE
    OBVIOUS
  <2>1. \A d \in 0..n : ~Closed(d)
    BY <1>5
  <2> DEFINE Large == {d \in Nat : d <= n => /\ IsFiniteSet(f[d])
                                            /\ Cardinality(f[d]) >= d + 1}
  <2>2. 0 \in Large
    <3>1. f[0] = {top}
      BY <1>2 DEF Layers
    <3>2. IsFiniteSet({top}) /\ Cardinality({top}) = 1
      BY FS_Singleton
    <3>3. IsFiniteSet(f[0]) /\ Cardinality(f[0]) >= 0 + 1
      BY <3>1, <3>2
    <3> QED
      BY <3>3
  <2>3. ASSUME NEW d \in Nat, d \in Large PROVE d + 1 \in Large
    <3> SUFFICES ASSUME d + 1 <= n
                 PROVE  IsFiniteSet(f[d + 1]) /\ Cardinality(f[d + 1]) >= (d + 1) + 1
      OBVIOUS
    <3>1. IsFiniteSet(f[d]) /\ Cardinality(f[d]) >= d + 1 /\ d \in 0..n
      BY <2>3
    <3>2. f[d] \subseteq f[d + 1] /\ f[d + 1] # f[d]
      <4>1. Grown(f[d], Nodes) # f[d]
        BY <2>1, <3>1 DEF Closed
      <4>2. f[d] \subseteq Grown(f[d], Nodes)
        BY DEF Grown
      <4> QED
        BY <1>3, <4>1, <4>2
    <3>3. IsFiniteSet(f[d + 1])
      <4>1. f[d + 1] \subseteq Nodes
        BY <1>4
      <4> QED
        BY <4>1, FS_Subset DEF IsFile
    <3>4. /\ Cardinality(f[d]) <= Cardinality(f[d + 1])
          /\ Cardinality(f[d + 1]) # Cardinality(f[d])
          /\ Cardinality(f[d]) \in Nat /\ Cardinality(f[d + 1]) \in Nat
      BY <3>1, <3>2, <3>3, FS_Subset, FS_CardinalityType
    <3> QED
      BY <3>1, <3>3, <3>4
  <2> HIDE DEF Large
  <2>4. n \in Large
    BY <2>2, <2>3, EveryNumber
  <2>5. Cardinality(f[n]) >= n + 1 /\ IsFiniteSet(f[n])
    BY <2>4 DEF Large
  <2>6. Cardinality(f[n]) <= n /\ Cardinality(f[n]) \in Nat
    <3>1. f[n] \subseteq Nodes
      BY <1>4
    <3> QED
      BY <1>1, <2>5, <3>1, FS_Subset, FS_CardinalityType DEF IsFile
  <2> QED
    BY <2>5, <2>6
<1>7. f[n] \subseteq Nodes /\ top \in f[n]
  BY <1>4
<1>8. Grown(f[n], Nodes) = f[n]
  BY <1>6 DEF Closed
<1>9. ASSUME NEW x \in f[n] PROVE Range(Members(x)) \subseteq f[n]
  <2>1. Range(Members(x)) \subseteq Nodes
    BY <1>7 DEF IsFile
  <2> QED
    BY <1>8, <2>1 DEF Grown
<1> QED
  BY <1>2, <1>7, <1>9

(***************************************************************************)
(* One extraction: what it charges and what it hands out.                  *)
(***************************************************************************)
Entries == {c \in [node : Nodes, kept : Nat] : c.kept <= Len(Data(c.node))}
Entry(n) == [node |-> n, kept |-> Len(Data(n))]
Budgets == [depth : Nat, entries : Nat, total : Nat]

LEMMA EntryFacts ==
  ASSUME IsFile, NEW n \in Nodes
  PROVE  /\ Len(Data(n)) \in Nat /\ Entry(n) \in Entries
         /\ \A k \in 0..Len(Data(n)) : [node |-> n, kept |-> k] \in Entries
<1>1. PICK size \in Nat : size = Len(Data(n))
  BY LenProperties DEF IsFile
<1>2. ASSUME NEW k \in 0..size PROVE [node |-> n, kept |-> k] \in Entries
  <2>1. k \in Nat /\ k <= size
    OBVIOUS
  <2> QED
    BY <1>1, <2>1 DEF Entries
<1> QED
  BY <1>1, <1>2 DEF Entry

SumEquation(f, out) ==
  f = [i \in 0..Len(out) |-> IF i = 0 THEN 0 ELSE f[i-1] + out[i].kept]

SumTrace(f, out, n) ==
  /\ SumKept(out) = f[n] /\ f[0] = 0
  /\ \A i \in 1..n : f[i] = f[i-1] + out[i].kept

LEMMA SumUnfolds ==
  ASSUME NEW out \in Seq(Entries), NEW n \in Nat, n = Len(out)
  PROVE  /\ \A i \in 1..n : out[i].kept \in Nat
         /\ \E f : SumTrace(f, out, n)
<1>1. \A i \in 1..n : out[i].kept \in Nat
  BY ElementOfSeq DEF Entries
<1> DEFINE step == [q \in (1..n) \X Nat |-> q[2] + out[q[1]].kept]
<1>2. \A k \in 1..n, s \in Nat : step[<<k, s>>] = s + out[k].kept
  OBVIOUS
<1> HIDE DEF step
<1>3. Stays(step, n, Nat)
  <2>1. ASSUME NEW k \in 1..n, NEW s \in Nat PROVE step[<<k, s>>] \in Nat
    <3>1. out[k].kept \in Nat
      BY <1>1
    <3> QED
      BY <1>2, <3>1
  <2> QED
    BY <2>1 DEF Stays
<1>4. PICK g : Unfolds(g, n, Nat, 0, step)
  BY <1>3, Recursion
<1>5. ASSUME NEW i \in 0..n PROVE g[i] = IF i = 0 THEN 0 ELSE g[i-1] + out[i].kept
  <2>1. CASE i = 0
    BY <1>4, <2>1 DEF Unfolds
  <2>2. CASE i \in 1..n
    <3>1. g[i-1] \in Nat /\ g[i] = step[<<i, g[i-1]>>] /\ i # 0
      BY <1>4, <2>2 DEF Unfolds
    <3> QED
      BY <1>2, <2>2, <3>1
  <2> QED
    BY <2>1, <2>2
<1>6. DOMAIN g = 0..n /\ g = [k \in DOMAIN g |-> g[k]]
  BY <1>4 DEF Unfolds
<1>7. SumEquation(g, out)
  BY <1>5, <1>6 DEF SumEquation
<1> DEFINE f == CHOOSE h : SumEquation(h, out)
<1>8. SumEquation(f, out)
  BY <1>7
<1>9. SumKept(out) = f[n]
  BY DEF SumKept, SumEquation
<1> HIDE DEF f
<1>10. \A k \in 0..n : f[k] = IF k = 0 THEN 0 ELSE f[k-1] + out[k].kept
  BY <1>8 DEF SumEquation
<1>11. f[0] = 0
  <2>1. 0 \in 0..n
    OBVIOUS
  <2> QED
    BY <1>10, <2>1
<1>12. \A k \in 1..n : f[k] = f[k-1] + out[k].kept
  <2>1. \A k \in 1..n : k \in 0..n /\ k # 0
    OBVIOUS
  <2> QED
    BY <1>10, <2>1
<1> QED
  BY <1>1, <1>9, <1>11, <1>12 DEF SumTrace

LEMMA SumOfNone ==
  SumKept(<<>>) = 0
<1>1. <<>> \in Seq(Entries) /\ Len(<<>>) = 0 /\ 0 \in Nat
  OBVIOUS
<1>2. PICK f : SumTrace(f, <<>>, 0)
  BY <1>1, SumUnfolds
<1> QED
  BY <1>2 DEF SumTrace

LEMMA SumOfAppend ==
  ASSUME NEW out \in Seq(Entries), NEW c \in Entries
  PROVE  SumKept(out) \in Nat /\ SumKept(Append(out, c)) = SumKept(out) + c.kept
<1>1. PICK n \in Nat : n = Len(out)
  BY LenProperties
<1>2. PICK more : more = Append(out, c)
  OBVIOUS
<1>3. /\ more \in Seq(Entries) /\ Len(more) = n + 1 /\ more[n + 1] = c
      /\ \A i \in 1..n : more[i] = out[i]
  BY <1>1, <1>2, AppendProperties
<1>4. PICK f : SumTrace(f, out, n)
  BY <1>1, SumUnfolds
<1>5. PICK g : SumTrace(g, more, n + 1)
  BY <1>3, SumUnfolds
<1>6. \A i \in 1..n : out[i].kept \in Nat
  BY <1>1, SumUnfolds
<1> DEFINE Agree == {i \in Nat : i <= n => f[i] \in Nat /\ g[i] = f[i]}
<1>7. 0 \in Agree
  BY <1>4, <1>5 DEF SumTrace
<1>8. ASSUME NEW i \in Nat, i \in Agree PROVE i + 1 \in Agree
  <2> SUFFICES ASSUME i + 1 <= n PROVE f[i+1] \in Nat /\ g[i+1] = f[i+1]
    OBVIOUS
  <2>1. i + 1 \in 1..n /\ i + 1 \in 1..(n + 1) /\ (i + 1) - 1 = i
    OBVIOUS
  <2>2. f[i+1] = f[i] + out[i+1].kept /\ g[i+1] = g[i] + more[i+1].kept
    BY <1>4, <1>5, <2>1 DEF SumTrace
  <2>3. f[i] \in Nat /\ g[i] = f[i] /\ more[i+1] = out[i+1] /\ out[i+1].kept \in Nat
    BY <1>3, <1>6, <1>8, <2>1
  <2> QED
    BY <2>2, <2>3
<1> HIDE DEF Agree
<1>9. n \in Agree
  BY <1>7, <1>8, EveryNumber
<1>10. f[n] \in Nat /\ g[n] = f[n]
  BY <1>9 DEF Agree
<1>11. g[n + 1] = g[n] + c.kept
  <2>1. n + 1 \in 1..(n + 1) /\ (n + 1) - 1 = n
    OBVIOUS
  <2> QED
    BY <1>3, <1>5, <2>1 DEF SumTrace
<1>12. SumKept(out) = f[n] /\ SumKept(more) = g[n + 1]
  BY <1>4, <1>5 DEF SumTrace
<1> QED
  BY <1>2, <1>10, <1>11, <1>12

\* What charging n chunks may do to a budget.
Charges(old, new, got) ==
  /\ new \in Budgets /\ new.depth = old.depth
  /\ new.total >= old.total + got
  /\ got = 0 \/ old.total + got <= limits.max_total_uncompressed

LEMMA ChargedFacts ==
  ASSUME limits \in GuardLimits, NEW old \in Budgets, NEW n \in Nat
  PROVE  /\ Charged(old, n).got \in 0..n
         /\ Charged(old, n).failed \in BOOLEAN
         /\ Charged(old, n).failed \/ Charged(old, n).got = n
         /\ Charges(old, Charged(old, n).budget, Charged(old, n).got)
<1>1. PICK most \in Nat, all \in Nat : /\ most = limits.max_entries
                                       /\ all = limits.max_total_uncompressed
  BY DEF GuardLimits
<1>2. PICK x \in Nat, y \in Nat, z \in Nat : x = old.depth /\ y = old.entries /\ z = old.total
  BY DEF Budgets
<1>3. PICK room \in Nat : room = Room(old) /\ (room = 0 \/ z + room <= all)
  <2> DEFINE r == IF most - y < all - z THEN most - y ELSE all - z
  <2>1. r \in Int /\ r <= all - z
    OBVIOUS
  <2>2. Room(old) = IF r > 0 THEN r ELSE 0
    BY <1>1, <1>2 DEF Room
  <2> HIDE DEF r
  <2>3. Room(old) \in Nat /\ (Room(old) = 0 \/ z + Room(old) <= all)
    BY <2>1, <2>2
  <2> QED
    BY <2>3
<1>4. PICK got \in 0..n : got = IF n <= room THEN n ELSE room
  OBVIOUS
<1>5. PICK failed : failed = (got < n)
  OBVIOUS
<1>15. failed \in BOOLEAN /\ (failed <=> got < n)
  <2>1. CASE got < n
    <3>1. (got < n) = TRUE
      BY <2>1
    <3>2. failed = TRUE
      BY <1>5, <3>1
    <3> QED
      BY <2>1, <3>2
  <2>2. CASE ~(got < n)
    <3>1. (got < n) = FALSE
      BY <2>2
    <3>2. failed = FALSE
      BY <1>5, <3>1
    <3> QED
      BY <2>2, <3>2
  <2> QED
    BY <2>1, <2>2
<1>6. got = 0 \/ z + got <= all
  BY <1>3, <1>4
<1>7. PICK one \in Nat : one = IF failed THEN 1 ELSE 0
  OBVIOUS
<1>8. PICK extra \in Nat : extra = IF failed /\ y + got + 1 <= most THEN 1 ELSE 0
  OBVIOUS
<1>9. PICK r : r = Charged(old, n)
  OBVIOUS
<1>10. /\ r.got = got /\ r.failed = failed
       /\ r.budget = [old EXCEPT !.entries = @ + got + one, !.total = @ + got + extra]
  BY <1>1, <1>2, <1>3, <1>4, <1>5, <1>7, <1>8, <1>9 DEF Charged
<1>11. r.budget = [depth |-> x, entries |-> y + got + one, total |-> z + got + extra]
  BY <1>2, <1>10 DEF Budgets
<1>12. y + got + one \in Nat /\ z + got + extra \in Nat /\ z + got + extra >= z + got
  OBVIOUS
<1>13. Charges(old, r.budget, r.got)
  BY <1>1, <1>2, <1>6, <1>10, <1>11, <1>12 DEF Charges, Budgets
<1>14. r.failed \in BOOLEAN /\ (r.failed \/ r.got = n)
  <2>1. CASE got < n
    BY <1>10, <1>15, <2>1
  <2>2. CASE got = n
    BY <1>10, <1>15, <2>2
  <2> QED
    BY <2>1, <2>2
<1> QED
  BY <1>9, <1>10, <1>13, <1>14

Extractions == [budget : Budgets, out : Seq(Entries), hit : BOOLEAN, err : BOOLEAN]

Reads(x, next, c, m) == \E got \in 0..Len(Data(m)) :
  /\ ~x.hit /\ ~x.err
  /\ next.out = Append(x.out, [node |-> m, kept |-> got])
  /\ Charges(x.budget, next.budget, got)
  /\ next.hit \/ (Whole(c) /\ m \in Unflawed => got = Len(Data(m)))

\* What one member may do to an extraction.
Progress(x, next, c, m) ==
  /\ next \in Extractions
  /\ \/ next = x /\ (x.hit \/ x.err \/ m \notin Unflawed)
     \/ (next.hit \/ next.err) /\ next.budget = x.budget /\ next.out = x.out
     \/ Reads(x, next, c, m)

LEMMA MemberFacts ==
  ASSUME IsFile, limits \in GuardLimits, NEW c, NEW fmt, NEW m \in Nodes, NEW x \in Extractions
  PROVE  Progress(x, ExtractMember(c, fmt, x, m), c, m)
<1>1. PICK old \in Budgets, out \in Seq(Entries), hit \in BOOLEAN, err \in BOOLEAN :
         x = [budget |-> old, out |-> out, hit |-> hit, err |-> err]
  BY DEF Extractions
<1>2. PICK next : next = ExtractMember(c, fmt, x, m)
  OBVIOUS
<1>3. CASE x.hit \/ x.err \/ PassedOver(fmt, m)
  <2>1. next = x
    BY <1>2, <1>3 DEF ExtractMember
  <2>2. x.hit \/ x.err \/ m \notin Unflawed
    BY <1>3 DEF PassedOver, Unflawed
  <2> QED
    BY <1>2, <2>1, <2>2 DEF Progress
<1>4. CASE ~(x.hit \/ x.err \/ PassedOver(fmt, m)) /\ Refused(fmt, m)
  <2>1. next = [x EXCEPT !.hit = TRUE]
    BY <1>2, <1>4 DEF ExtractMember
  <2>2. next = [budget |-> old, out |-> out, hit |-> TRUE, err |-> err]
    BY <1>1, <2>1
  <2>3. next \in Extractions /\ next.hit /\ next.budget = x.budget /\ next.out = x.out
    BY <1>1, <2>2 DEF Extractions
  <2> QED
    BY <1>2, <2>3 DEF Progress
<1>5. CASE ~(x.hit \/ x.err \/ PassedOver(fmt, m)) /\ ~Refused(fmt, m) /\ Derailed(fmt, m)
  <2>1. next = [x EXCEPT !.err = TRUE]
    BY <1>2, <1>5 DEF ExtractMember
  <2>2. next = [budget |-> old, out |-> out, hit |-> hit, err |-> TRUE]
    BY <1>1, <2>1
  <2>3. next \in Extractions /\ next.err /\ next.budget = x.budget /\ next.out = x.out
    BY <1>1, <2>2 DEF Extractions
  <2> QED
    BY <1>2, <2>3 DEF Progress
<1>6. CASE ~(x.hit \/ x.err \/ PassedOver(fmt, m)) /\ ~Refused(fmt, m) /\ ~Derailed(fmt, m)
  <2>1. PICK size \in Nat : size = Len(Data(m))
    BY EntryFacts
  <2>2. PICK n \in 0..size : n = Readable(c, fmt, m)
    <3>1. size \div 2 \in 0..size
      OBVIOUS
    <3>2. Readable(c, fmt, m) \in {0, size \div 2, size}
      BY <2>1 DEF Readable
    <3> QED
      BY <2>1, <3>1, <3>2
  <2>3. Whole(c) /\ m \in Unflawed => n = size
    BY <2>1, <2>2 DEF Readable, Unflawed
  <2>4. PICK r : r = Charged(old, n)
    OBVIOUS
  <2>5. /\ r.got \in 0..n /\ r.failed \in BOOLEAN
        /\ r.failed \/ r.got = n
        /\ Charges(old, r.budget, r.got)
    BY <2>2, <2>4, ChargedFacts
  <2>6. PICK got \in 0..size : got = r.got
    BY <2>2, <2>5
  <2>7. PICK e \in Entries : e = [node |-> m, kept |-> got]
    BY <2>1, EntryFacts
  <2>8. next = [x EXCEPT !.budget = r.budget, !.hit = r.failed, !.out = Append(@, e)]
    BY <1>1, <1>2, <1>6, <2>2, <2>4, <2>6, <2>7 DEF ExtractMember
  <2>9. next = [budget |-> r.budget, out |-> Append(out, e), hit |-> r.failed, err |-> err]
    BY <1>1, <2>8
  <2>10. next \in Extractions
    <3>1. Append(out, e) \in Seq(Entries)
      BY AppendProperties
    <3> QED
      BY <2>5, <2>9, <3>1 DEF Extractions, Charges
  <2>11. /\ next.out = Append(x.out, [node |-> m, kept |-> got])
         /\ next.hit = r.failed /\ next.budget = r.budget /\ x.budget = old
         /\ ~x.hit /\ ~x.err
    BY <1>1, <1>6, <2>7, <2>9
  <2>12. next.hit \/ (Whole(c) /\ m \in Unflawed => got = Len(Data(m)))
    BY <2>1, <2>3, <2>5, <2>6, <2>11
  <2>13. Reads(x, next, c, m)
    BY <2>1, <2>5, <2>6, <2>11, <2>12 DEF Reads
  <2> QED
    BY <1>2, <2>10, <2>13 DEF Progress
<1> QED
  BY <1>3, <1>4, <1>5, <1>6

WithinBudget(x, old) ==
  /\ x.budget.depth = old.depth
  /\ old.total + SumKept(x.out) <= x.budget.total
  /\ SumKept(x.out) = 0 \/ old.total + SumKept(x.out) <= limits.max_total_uncompressed

Lists(out, m) == \E k \in DOMAIN out : out[k] = Entry(m)

\* The first i members are extracted starting from the budget old.
Extracted(x, old, c, i) ==
  /\ x \in Extractions /\ WithinBudget(x, old)
  /\ \/ x.hit \/ x.err \/ ~Whole(c)
     \/ \A j \in 1..i : Members(c.node)[j] \in Unflawed => Lists(x.out, Members(c.node)[j])

LEMMA ExtractedMore ==
  ASSUME IsFile, limits \in GuardLimits, NEW c \in Entries, NEW old \in Budgets,
         NEW i \in Nat, NEW m \in Nodes, m = Members(c.node)[i + 1],
         NEW x, Extracted(x, old, c, i), NEW next, Progress(x, next, c, m)
  PROVE  Extracted(next, old, c, i + 1)
<1>0. /\ x \in Extractions /\ next \in Extractions
      /\ x.out \in Seq(Entries) /\ x.budget \in Budgets /\ x.hit \in BOOLEAN /\ x.err \in BOOLEAN
      /\ limits.max_total_uncompressed \in Nat
  BY DEF Extracted, Progress, Extractions, GuardLimits
<1>1. CASE next = x /\ (x.hit \/ x.err \/ m \notin Unflawed)
  <2>1. CASE x.hit \/ x.err \/ ~Whole(c)
    BY <1>1, <2>1 DEF Extracted
  <2>2. CASE ~(x.hit \/ x.err \/ ~Whole(c))
    <3>1. \A j \in 1..i : Members(c.node)[j] \in Unflawed => Lists(x.out, Members(c.node)[j])
      BY <2>2 DEF Extracted
    <3>2. \A j \in 1..(i + 1) : j \in 1..i \/ j = i + 1
      OBVIOUS
    <3>3. \A j \in 1..(i + 1) : Members(c.node)[j] \in Unflawed => Lists(x.out, Members(c.node)[j])
      BY <1>1, <2>2, <3>1, <3>2
    <3> QED
      BY <1>1, <3>3 DEF Extracted
  <2> QED
    BY <2>1, <2>2
<1>2. CASE (next.hit \/ next.err) /\ next.budget = x.budget /\ next.out = x.out
  BY <1>0, <1>2 DEF Extracted, WithinBudget
<1>3. CASE Reads(x, next, c, m)
  <2>1. PICK got \in 0..Len(Data(m)) :
          /\ ~x.hit /\ ~x.err
          /\ next.out = Append(x.out, [node |-> m, kept |-> got])
          /\ Charges(x.budget, next.budget, got)
          /\ next.hit \/ (Whole(c) /\ m \in Unflawed => got = Len(Data(m)))
    BY <1>3 DEF Reads
  <2>2. PICK out \in Seq(Entries) : out = x.out
    BY <1>0
  <2>3. PICK e \in Entries : e = [node |-> m, kept |-> got]
    BY EntryFacts
  <2>4. got \in Nat /\ e.kept = got
    <3>1. Len(Data(m)) \in Nat
      BY EntryFacts
    <3> QED
      BY <2>3, <3>1
  <2>5. next.out = Append(out, e)
    BY <2>1, <2>2, <2>3
  <2>6. PICK s \in Nat : s = SumKept(x.out) /\ SumKept(next.out) = s + got
    BY <2>2, <2>4, <2>5, SumOfAppend
  <2>7. WithinBudget(next, old)
    <3>1. PICK t \in Nat, u \in Nat, v \in Nat, all \in Nat :
             /\ t = old.total /\ u = x.budget.total /\ v = next.budget.total
             /\ all = limits.max_total_uncompressed
      BY <1>0, <2>1 DEF Budgets, Charges
    <3>2. t + s <= u /\ x.budget.depth = old.depth
      BY <2>6, <3>1 DEF Extracted, WithinBudget
    <3>3. v >= u + got /\ (got = 0 \/ u + got <= all) /\ next.budget.depth = x.budget.depth
      BY <2>1, <3>1 DEF Charges
    <3>4. s = 0 \/ t + s <= all
      BY <2>6, <3>1 DEF Extracted, WithinBudget
    <3>5. t + (s + got) <= v
      BY <2>4, <3>2, <3>3
    <3>6. s + got = 0 \/ t + (s + got) <= all
      <4>1. CASE got = 0
        BY <3>4, <4>1
      <4>2. CASE u + got <= all
        BY <2>4, <3>2, <4>2
      <4> QED
        BY <3>3, <4>1, <4>2
    <3> QED
      BY <2>6, <3>1, <3>2, <3>3, <3>5, <3>6 DEF WithinBudget
  <2>8. CASE next.hit \/ ~Whole(c)
    BY <1>0, <2>7, <2>8 DEF Extracted
  <2>9. CASE ~next.hit /\ Whole(c)
    <3>1. \A j \in 1..i : Members(c.node)[j] \in Unflawed => Lists(out, Members(c.node)[j])
      BY <2>1, <2>2, <2>9 DEF Extracted
    <3>2. PICK n \in Nat : n = Len(out)
      BY LenProperties
    <3>3. /\ DOMAIN out = 1..n /\ DOMAIN next.out = 1..(n + 1)
          /\ next.out[n + 1] = e /\ \A k \in 1..n : next.out[k] = out[k]
      <4>1. Append(out, e) \in Seq(Entries) /\ Len(Append(out, e)) = n + 1
        BY <3>2, AppendProperties
      <4> QED
        BY <2>5, <3>2, <4>1, AppendProperties, LenProperties
    <3>4. ASSUME NEW j \in 1..(i + 1), Members(c.node)[j] \in Unflawed
          PROVE  Lists(next.out, Members(c.node)[j])
      <4>1. CASE j = i + 1
        <5>1. e = Entry(m) /\ n + 1 \in 1..(n + 1)
          BY <2>1, <2>3, <2>9, <3>4, <4>1 DEF Entry
        <5> QED
          BY <3>3, <4>1, <5>1 DEF Lists
      <4>2. CASE j \in 1..i
        <5>1. PICK k \in DOMAIN out : out[k] = Entry(Members(c.node)[j])
          BY <3>1, <3>4, <4>2 DEF Lists
        <5>2. k \in 1..n /\ k \in 1..(n + 1)
          BY <3>3
        <5> QED
          BY <3>3, <5>1, <5>2 DEF Lists
      <4> QED
        BY <4>1, <4>2
    <3> QED
      BY <1>0, <2>7, <3>4 DEF Extracted
  <2> QED
    BY <2>8, <2>9
<1> QED
  BY <1>1, <1>2, <1>3 DEF Progress

ExtractEquation(f, c, old, members, fmt) ==
  f = [i \in 0..Len(members) |->
         IF i = 0 THEN [budget |-> old, out |-> <<>>, hit |-> FALSE, err |-> FALSE]
         ELSE ExtractMember(c, fmt, f[i-1], members[i])]

\* What an archive charges and hands out, and that it is flagged when a sound member is not.
Opened(x, c, old) ==
  /\ x \in Extractions /\ WithinBudget(x, old)
  /\ x.hit \/ x.err \/ ~Whole(c)
        \/ \A m \in Range(Members(c.node)) \cap Unflawed : Lists(x.out, m)

LEMMA ExtractFacts ==
  ASSUME IsFile, limits \in GuardLimits, NEW c \in Entries, NEW old \in Budgets
  PROVE  Opened(Extract(c, old), c, old)
<1> PICK result : result = Extract(c, old)
  OBVIOUS
<1> PICK fmt : fmt = doc.nodes[c.node].format
  OBVIOUS
<1>0. c.node \in Nodes /\ old.total \in Nat
  BY DEF Entries, Budgets
<1>1. PICK members \in Seq(Nodes) : members = Members(c.node)
  BY <1>0 DEF IsFile
<1>2. PICK n \in Nat : n = Len(members) /\ DOMAIN members = 1..n
  BY LenProperties
<1>3. \A i \in 1..n : members[i] \in Nodes
  BY <1>2, ElementOfSeq
<1> DEFINE base == [budget |-> old, out |-> <<>>, hit |-> FALSE, err |-> FALSE]
           shut == [budget |-> old, out |-> <<>>, hit |-> FALSE, err |-> TRUE]
<1>4. /\ base \in Extractions /\ base.budget = old /\ base.out = <<>>
      /\ shut \in Extractions /\ shut.budget = old /\ shut.out = <<>> /\ shut.err
  <2>1. <<>> \in Seq(Entries)
    OBVIOUS
  <2> QED
    BY <2>1 DEF Extractions
<1>5. WithinBudget(base, old) /\ WithinBudget(shut, old)
  <2>1. old.total + 0 <= old.total
    BY <1>0
  <2> QED
    BY <1>4, <2>1, SumOfNone DEF WithinBudget
<1>6. Extracted(base, old, c, 0)
  <2>1. \A j \in 1..0 : FALSE
    OBVIOUS
  <2> QED
    BY <1>4, <1>5, <2>1 DEF Extracted
<1>7. CASE Unopenable(c)
  <2>1. result = shut
    BY <1>7 DEF Extract
  <2> QED
    BY <1>4, <1>5, <2>1 DEF Opened
<1>8. CASE ~Unopenable(c)
  <2> DEFINE step == [q \in (1..n) \X Extractions |-> ExtractMember(c, fmt, q[2], members[q[1]])]
  <2>1. \A k \in 1..n, s \in Extractions : step[<<k, s>>] = ExtractMember(c, fmt, s, members[k])
    OBVIOUS
  <2> HIDE DEF step, base, shut
  <2>2. ASSUME NEW k \in 1..n, NEW s \in Extractions
        PROVE  Progress(s, ExtractMember(c, fmt, s, members[k]), c, members[k])
    <3>1. PICK m \in Nodes : m = members[k]
      BY <1>3
    <3>2. Progress(s, ExtractMember(c, fmt, s, m), c, m)
      BY MemberFacts
    <3> QED
      BY <3>1, <3>2
  <2>3. Stays(step, n, Extractions)
    <3>1. ASSUME NEW k \in 1..n, NEW s \in Extractions PROVE step[<<k, s>>] \in Extractions
      BY <2>1, <2>2 DEF Progress
    <3> QED
      BY <3>1 DEF Stays
  <2>4. PICK g : Unfolds(g, n, Extractions, base, step)
    BY <1>4, <2>3, Recursion
  <2>5. ASSUME NEW i \in 0..n
        PROVE  g[i] = IF i = 0 THEN base ELSE ExtractMember(c, fmt, g[i-1], members[i])
    <3>1. CASE i = 0
      BY <2>4, <3>1 DEF Unfolds
    <3>2. CASE i \in 1..n
      <4>1. i - 1 \in 0..n /\ i # 0
        BY <3>2
      <4>2. g \in [0..n -> Extractions] /\ g[i] = step[<<i, g[i-1]>>]
        BY <2>4, <3>2 DEF Unfolds
      <4>3. g[i-1] \in Extractions
        BY <4>1, <4>2
      <4> QED
        BY <2>1, <3>2, <4>1, <4>2, <4>3
    <3> QED
      BY <3>1, <3>2
  <2>6. DOMAIN g = 0..n /\ g = [k \in DOMAIN g |-> g[k]]
    BY <2>4 DEF Unfolds
  <2>7. ExtractEquation(g, c, old, members, fmt)
    BY <1>2, <2>5, <2>6 DEF ExtractEquation, base
  <2> DEFINE f == CHOOSE h : ExtractEquation(h, c, old, members, fmt)
  <2>8. ExtractEquation(f, c, old, members, fmt)
    BY <2>7
  <2>9. result = IF f[n].err THEN [f[n] EXCEPT !.out = <<>>] ELSE f[n]
    BY <1>1, <1>2, <1>8 DEF Extract, ExtractEquation
  <2> HIDE DEF f
  <2>10. \A i \in 0..n : f[i] = IF i = 0 THEN base ELSE ExtractMember(c, fmt, f[i-1], members[i])
    BY <1>2, <2>8 DEF ExtractEquation, base
  <2> DEFINE Good == {i \in Nat : i <= n => Extracted(f[i], old, c, i)}
  <2>11. 0 \in Good
    <3>1. 0 \in 0..n
      OBVIOUS
    <3>2. f[0] = base
      BY <2>10, <3>1
    <3> QED
      BY <1>6, <3>2
  <2>12. ASSUME NEW i \in Nat, i \in Good PROVE i + 1 \in Good
    <3> SUFFICES ASSUME i + 1 <= n PROVE Extracted(f[i+1], old, c, i + 1)
      OBVIOUS
    <3>1. i + 1 \in 0..n /\ i + 1 # 0 /\ (i + 1) - 1 = i /\ i + 1 \in 1..n
      OBVIOUS
    <3>2. f[i+1] = ExtractMember(c, fmt, f[i], members[i+1])
      BY <2>10, <3>1
    <3>3. Extracted(f[i], old, c, i)
      BY <2>12
    <3>4. PICK m \in Nodes : m = members[i+1]
      BY <1>3, <3>1
    <3>5. f[i] \in Extractions
      BY <3>3 DEF Extracted
    <3>6. Progress(f[i], f[i+1], c, m)
      BY <2>2, <3>1, <3>2, <3>4, <3>5
    <3> QED
      BY <1>1, <3>3, <3>4, <3>6, ExtractedMore
  <2> HIDE DEF Good
  <2>13. n \in Good
    BY <2>11, <2>12, EveryNumber
  <2>14. PICK last : last = f[n]
    OBVIOUS
  <2>15. Extracted(last, old, c, n)
    BY <2>13, <2>14 DEF Good
  <2>16. CASE ~last.err
    <3>1. result = last
      BY <2>9, <2>14, <2>16
    <3>2. CASE last.hit \/ ~Whole(c)
      BY <2>15, <3>1, <3>2 DEF Extracted, Opened
    <3>3. CASE \A j \in 1..n : members[j] \in Unflawed => Lists(last.out, members[j])
      <4>1. \A m \in Range(members) : \E j \in 1..n : m = members[j]
        BY <1>2 DEF Range
      <4>2. \A m \in Range(members) \cap Unflawed : Lists(last.out, m)
        BY <3>3, <4>1
      <4> QED
        BY <1>1, <2>15, <3>1, <4>2 DEF Extracted, Opened
    <3> QED
      BY <1>1, <2>15, <2>16, <3>2, <3>3 DEF Extracted
  <2>17. CASE last.err
    <3>1. result = [last EXCEPT !.out = <<>>]
      BY <2>9, <2>14, <2>17
    <3>2. PICK new \in Budgets, out \in Seq(Entries), hit \in BOOLEAN, err \in BOOLEAN :
             last = [budget |-> new, out |-> out, hit |-> hit, err |-> err]
      BY <2>15 DEF Extracted, Extractions
    <3>3. result = [budget |-> new, out |-> <<>>, hit |-> hit, err |-> err]
      BY <3>1, <3>2
    <3>4. <<>> \in Seq(Entries)
      OBVIOUS
    <3>5. result \in Extractions /\ result.err /\ result.out = <<>> /\ result.budget = last.budget
      BY <2>17, <3>2, <3>3, <3>4 DEF Extractions
    <3>6. WithinBudget(result, old)
      <4>1. SumKept(last.out) \in Nat /\ last.budget.total \in Nat
        <5>1. PICK s \in Seq(Entries) : s = last.out
          BY <3>2
        <5>2. SumKept(s) \in Nat
          BY SumOfAppend
        <5> QED
          BY <3>2, <5>1, <5>2 DEF Budgets
      <4>2. old.total + SumKept(last.out) <= last.budget.total /\ last.budget.depth = old.depth
        BY <2>15 DEF Extracted, WithinBudget
      <4>3. old.total + 0 <= last.budget.total
        BY <1>0, <4>1, <4>2
      <4> QED
        BY <3>5, <4>2, <4>3, SumOfNone DEF WithinBudget
    <3> QED
      BY <3>5, <3>6 DEF Opened
  <2> QED
    BY <2>16, <2>17
<1> QED
  BY <1>7, <1>8

(***************************************************************************)
(* The invariants of a scan.                                               *)
(***************************************************************************)
Frames == [node : Nodes, todo : Seq(Entries), hit : BOOLEAN]
Reports == [node : Nodes, verdict : Verdicts]

ScanTypes ==
  /\ doc \in Docs /\ database \in Databases /\ LoadsNdb(database.patterns) /\ limits \in Limits
  /\ call \in Entries \cup {NoCall}
  /\ stack \in Seq(Frames)
  /\ budget \in Budgets /\ handed \in Nat
  /\ reports \in Seq(Reports)
  /\ pc # "scan" => call = NoCall /\ stack = <<>>

\* What was handed out is on the running total, and an open archive is on the depth.
BudgetInv ==
  /\ handed <= budget.total /\ handed <= limits.max_total_uncompressed
  /\ Len(stack) <= budget.depth /\ Len(stack) <= limits.max_depth

Flagged(n) ==
  \/ \E i \in Of("limit") : n \in Below(reports[i].node)
  \/ \E i \in DOMAIN stack : stack[i].hit /\ n \in Below(stack[i].node)

Queued(n) ==
  \/ call = Entry(n)
  \/ \E i \in DOMAIN stack : Lists(stack[i].todo, n)

AccountedFor(n, W) == n \in W \/ Flagged(n) \/ Queued(n)

Scanned(n) == \E i \in DOMAIN reports : reports[i] = OwnReport(Entry(n))

MembersAccounted(n, W) ==
  \A m \in Range(Members(n)) \cap Unflawed : AccountedFor(m, W)

RootAccounted(W) ==
  \/ pc = "start" \/ error \/ (pc = "done" /\ reports = <<>>) \/ Of("skipped") # {}
  \/ AccountedFor(1, W)

\* W are the nodes scanned in full: each sound member of one of them is another, or
\* waits its turn, or lies under what is flagged.
Covers(W) ==
  /\ \A n \in W : Scanned(n) /\ MembersAccounted(n, W)
  /\ RootAccounted(W)

CoverInv == \E W \in SUBSET Nodes : Covers(W)

ScanInv == ScanTypes /\ BudgetInv /\ CoverInv /\ InfectedIsReal

LEMMA SameFile ==
  ASSUME doc' = doc, database' = database, limits' = limits
  PROVE  /\ Nodes' = Nodes /\ Entries' = Entries /\ Frames' = Frames /\ Reports' = Reports
         /\ Unflawed' = Unflawed
         /\ \A n : /\ Entry(n)' = Entry(n) /\ Below(n)' = Below(n) /\ Members(n)' = Members(n)
                   /\ Data(n)' = Data(n)
         /\ \A c : OwnReport(c)' = OwnReport(c)
<1>1. Nodes' = Nodes /\ Unflawed' = Unflawed
  BY DEF Nodes, Unflawed
<1>2. \A n : Entry(n)' = Entry(n) /\ Members(n)' = Members(n) /\ Data(n)' = Data(n)
  BY DEF Entry, Members, Data
<1>3. Entries' = Entries
  BY <1>1, <1>2 DEF Entries
<1>4. Frames' = Frames /\ Reports' = Reports
  BY <1>1, <1>3 DEF Frames, Reports
<1>5. \A c : OwnReport(c)' = OwnReport(c)
  BY <1>2 DEF OwnReport, Detected, Buffer
<1>6. \A n : Below(n)' = Below(n)
  BY DEF Below, Under, Nodes, Members
<1> QED
  BY <1>1, <1>2, <1>3, <1>4, <1>5, <1>6

SameJob == doc' = doc /\ database' = database /\ limits' = limits /\ entry' = entry

\* No step takes a report back.
ReportsKept == \A i \in DOMAIN reports : i \in DOMAIN reports' /\ reports'[i] = reports[i]

LEMMA TreeOfTypes ==
  ASSUME ScanTypes
  PROVE  /\ IsFile /\ limits \in GuardLimits /\ NoCall \notin Entries
         /\ Nodes \subseteq Nat \ {0} /\ 1 \in Nodes
<1>1. IsFile /\ limits \in GuardLimits
  BY DocIsFile, LimitsAssumption DEF ScanTypes
<1>2. NoCall \notin Entries
  BY <1>1 DEF IsFile, NoCall, Entries
<1> QED
  BY <1>1, <1>2 DEF IsFile

\* Going on with a scan whose reports are kept, and whose account of the nodes is.
LEMMA CoverKept ==
  ASSUME ScanTypes, SameJob, ReportsKept, pc = "scan", error' = error,
         NEW W \in SUBSET Nodes, Covers(W), NEW W2 \in SUBSET Nodes, W \subseteq W2,
         \A n \in Nodes : AccountedFor(n, W) => AccountedFor(n, W2)',
         \A n \in W2 \ W : Scanned(n)' /\ MembersAccounted(n, W2)'
  PROVE  CoverInv'
<1>1. /\ Nodes' = Nodes /\ Unflawed' = Unflawed /\ Unflawed \subseteq Nodes /\ 1 \in Nodes
      /\ \A n : Entry(n)' = Entry(n) /\ Members(n)' = Members(n)
      /\ \A c : OwnReport(c)' = OwnReport(c)
  BY SameFile, TreeOfTypes DEF SameJob, Unflawed
<1>2. ASSUME NEW n \in W PROVE Scanned(n)' /\ MembersAccounted(n, W2)'
  <2>1. Scanned(n) /\ MembersAccounted(n, W)
    BY DEF Covers
  <2>2. Scanned(n)'
    BY <1>1, <2>1 DEF Scanned, ReportsKept
  <2>3. MembersAccounted(n, W2)'
    BY <1>1, <2>1 DEF MembersAccounted
  <2> QED
    BY <2>2, <2>3
<1>3. RootAccounted(W2)'
  <2>1. RootAccounted(W)
    BY DEF Covers
  <2>2. CASE error
    BY <2>2 DEF RootAccounted
  <2>3. CASE Of("skipped") # {}
    BY <2>3 DEF RootAccounted, Of, ReportsKept
  <2>4. CASE AccountedFor(1, W)
    BY <1>1, <2>4 DEF RootAccounted
  <2> QED
    BY <2>1, <2>2, <2>3, <2>4 DEF RootAccounted
<1>4. Covers(W2)'
  BY <1>2, <1>3 DEF Covers
<1> QED
  BY <1>1, <1>4 DEF CoverInv

\* A flag outlives the steps that keep the reports and the open archive.
LEMMA FlagKept ==
  ASSUME SameJob, ReportsKept, NEW n,
         \A i \in DOMAIN stack : stack[i].hit /\ n \in Below(stack[i].node) => Flagged(n)',
         Flagged(n)
  PROVE  Flagged(n)'
<1>1. \A m : Below(m)' = Below(m)
  BY SameFile DEF SameJob
<1>2. CASE \E i \in Of("limit") : n \in Below(reports[i].node)
  <2>1. PICK i \in Of("limit") : n \in Below(reports[i].node)
    BY <1>2
  <2>2. i \in Of("limit")' /\ reports'[i] = reports[i]
    BY DEF Of, ReportsKept
  <2> QED
    BY <1>1, <2>1, <2>2 DEF Flagged
<1> QED
  BY <1>2 DEF Flagged

\* Appending one report keeps the others; a detection in it is a real one.
LEMMA ReportAdded ==
  ASSUME ScanTypes, NEW r \in Reports, reports' = Append(reports, r)
  PROVE  /\ reports' \in Seq(Reports) /\ ReportsKept
         /\ \E i \in DOMAIN reports' : reports'[i] = r
         /\ \A i \in DOMAIN reports' : i \in DOMAIN reports \/ reports'[i] = r
<1>1. PICK n \in Nat : n = Len(reports) /\ DOMAIN reports = 1..n
  BY LenProperties DEF ScanTypes
<1>2. /\ reports' \in Seq(Reports) /\ Len(reports') = n + 1 /\ reports'[n + 1] = r
      /\ \A i \in 1..n : reports'[i] = reports[i]
  BY <1>1, AppendProperties DEF ScanTypes
<1>3. DOMAIN reports' = 1..(n + 1)
  BY <1>2, LenProperties
<1>4. /\ \A i \in 1..n : i \in 1..(n + 1)
      /\ n + 1 \in 1..(n + 1)
      /\ \A i \in 1..(n + 1) : i \in 1..n \/ i = n + 1
  OBVIOUS
<1>5. ReportsKept
  BY <1>1, <1>2, <1>3, <1>4 DEF ReportsKept
<1>6. \E i \in DOMAIN reports' : reports'[i] = r
  BY <1>2, <1>3, <1>4
<1>7. \A i \in DOMAIN reports' : i \in DOMAIN reports \/ reports'[i] = r
  BY <1>1, <1>2, <1>3, <1>4
<1> QED
  BY <1>2, <1>5, <1>6, <1>7

LEMMA CallFacts ==
  ASSUME ScanTypes, call # NoCall
  PROVE  /\ pc = "scan" /\ call \in Entries /\ call.node \in Nodes
         /\ OwnReport(call) \in Reports /\ OwnReport(call).node = call.node
         /\ Report(call.node, "limit") \in Reports
         /\ Whole(call) <=> call = Entry(call.node)
<1>1. pc = "scan" /\ call \in Entries /\ call.node \in Nodes
  BY DEF ScanTypes, Entries
<1>2. OwnReport(call) \in Reports /\ OwnReport(call).node = call.node
      /\ Report(call.node, "limit") \in Reports
  BY <1>1 DEF OwnReport, Report, Reports, Verdicts
<1>3. PICK n \in Nodes, k \in Nat : call = [node |-> n, kept |-> k]
  BY <1>1 DEF Entries
<1>4. Whole(call) <=> call = Entry(call.node)
  BY <1>3 DEF Whole, Entry
<1> QED
  BY <1>1, <1>2, <1>4

\* What is reported as infected is.
IsReal(r) == r.verdict = "infected" => Real(database, Data(r.node))

LEMMA OwnIsReal ==
  ASSUME ScanTypes, call # NoCall
  PROVE  IsReal(OwnReport(call))
<1>1. call \in Entries /\ call.node \in Nodes
  BY CallFacts
<1>2. Data(call.node) \in Seq(Nat) /\ call.kept \in 0..Len(Data(call.node))
  <2>1. Data(call.node) \in Seq(Nat)
    BY <1>1, TreeOfTypes DEF IsFile
  <2>2. Len(Data(call.node)) \in Nat
    BY <2>1, LenProperties
  <2> QED
    BY <1>1, <2>1, <2>2 DEF Entries
<1>3. CASE Detected(call)
  <2>1. Real(database, Data(call.node))
    BY <1>2, <1>3, DetectedIsReal DEF Detected, Buffer, ScanTypes
  <2>2. OwnReport(call).node = call.node
    BY CallFacts
  <2> QED
    BY <2>1, <2>2 DEF IsReal
<1>4. CASE ~Detected(call)
  BY <1>4 DEF IsReal, OwnReport, Report
<1> QED
  BY <1>3, <1>4

LEMMA InfectedMeans ==
  InfectedIsReal <=> \A i \in DOMAIN reports : IsReal(reports[i])
BY DEF InfectedIsReal, IsReal, Real, Of

LEMMA RealKept ==
  ASSUME ScanTypes, SameJob, InfectedIsReal, ReportsKept,
         \A i \in DOMAIN reports' : i \in DOMAIN reports \/ IsReal(reports'[i])
  PROVE  InfectedIsReal'
<1>1. \A n : Data(n)' = Data(n)
  BY SameFile DEF SameJob
<1>2. \A s : IsReal(s)' <=> IsReal(s)
  BY <1>1 DEF IsReal, SameJob
<1>3. \A i \in DOMAIN reports : IsReal(reports[i])
  BY InfectedMeans
<1>4. \A i \in DOMAIN reports' : IsReal(reports'[i])
  BY <1>3 DEF ReportsKept
<1>5. (\A i \in DOMAIN reports : IsReal(reports[i]))'
  BY <1>2, <1>4
<1> QED
  BY <1>5, InfectedMeans DEF InfectedIsReal, IsReal, Real, Of

LEMMA ScanInvInit ==
  ASSUME Init
  PROVE  ScanInv
<1>1. limits \in GuardLimits
  BY LimitsAssumption DEF Init
<1>2. ScanTypes
  BY DEF ScanTypes, Init, Budgets, NewBudget
<1>3. BudgetInv
  BY <1>1 DEF BudgetInv, Init, NewBudget, GuardLimits
<1>4. Covers({})
  BY DEF Covers, RootAccounted, Init
<1>5. CoverInv
  <2>1. {} \in SUBSET Nodes
    OBVIOUS
  <2> QED
    BY <1>4, <2>1 DEF CoverInv
<1>6. InfectedIsReal
  BY DEF InfectedIsReal, Of, Init
<1> QED
  BY <1>2, <1>3, <1>5, <1>6 DEF ScanInv

\* The scan ends before it begins, with one report at most, and none of an infection.
LEMMA EndsEarly ==
  ASSUME ScanTypes, BudgetInv, SameJob, pc = "start", pc' = "done",
         UNCHANGED <<call, stack, budget, handed>>,
         NEW v \in {"limit", "skipped"}, reports' = <<>> \/ reports' = <<Report(1, v)>>
  PROVE  ScanInv'
<1>1. /\ Nodes' = Nodes /\ Reports' = Reports /\ Entries' = Entries /\ Frames' = Frames
      /\ \A n : Below(n)' = Below(n)
  BY SameFile DEF SameJob
<1>2. 1 \in Nodes /\ IsFile
  BY TreeOfTypes DEF IsFile
<1>3. call = NoCall /\ stack = <<>>
  BY DEF ScanTypes
<1>4. Report(1, v) \in Reports
  BY <1>2 DEF Report, Reports, Verdicts
<1>5. ScanTypes'
  <2>1. reports' \in Seq(Reports)
    <3>1. PICK r \in Reports : r = Report(1, v)
      BY <1>4
    <3>2. <<>> \in Seq(Reports) /\ <<r>> \in Seq(Reports)
      OBVIOUS
    <3> QED
      BY <3>1, <3>2
  <2>2. /\ doc' \in Docs /\ database' \in Databases /\ LoadsNdb(database'.patterns)
        /\ limits' \in Limits
    BY DEF ScanTypes, SameJob
  <2>3. /\ call' \in Entries' \cup {NoCall} /\ stack' \in Seq(Frames')
        /\ budget' \in Budgets /\ handed' \in Nat
    BY <1>1 DEF ScanTypes
  <2>4. call' = NoCall /\ stack' = <<>>
    BY <1>3
  <2> QED
    BY <1>1, <2>1, <2>2, <2>3, <2>4 DEF ScanTypes, NoCall, Budgets
<1>6. BudgetInv'
  BY DEF BudgetInv, SameJob
<1>7. RootAccounted({})'
  <2>1. CASE reports' = <<>>
    BY <2>1 DEF RootAccounted
  <2>2. CASE reports' = <<Report(1, v)>> /\ v = "skipped"
    <3>1. 1 \in Of("skipped")'
      BY <2>2 DEF Of, Report
    <3> QED
      BY <3>1 DEF RootAccounted
  <2>3. CASE reports' = <<Report(1, v)>> /\ v = "limit"
    <3>1. 1 \in Of("limit")' /\ reports'[1].node = 1
      BY <2>3 DEF Of, Report
    <3>2. 1 \in Below(1)
      BY <1>2, BelowClosed
    <3>3. Flagged(1)'
      BY <1>1, <3>1, <3>2 DEF Flagged
    <3> QED
      BY <3>3 DEF RootAccounted, AccountedFor
  <2> QED
    BY <2>1, <2>2, <2>3
<1>8. CoverInv'
  <2>1. Covers({})'
    BY <1>7 DEF Covers
  <2>2. {} \in SUBSET Nodes'
    OBVIOUS
  <2> QED
    BY <2>1, <2>2 DEF CoverInv
<1>9. InfectedIsReal'
  <2>1. Of("infected")' = {}
    BY DEF Of, Report
  <2> QED
    BY <2>1 DEF InfectedIsReal
<1> QED
  BY <1>5, <1>6, <1>8, <1>9 DEF ScanInv

LEMMA PathErrorKeeps ==
  ASSUME ScanInv, PathError
  PROVE  ScanInv'
<1>1. /\ SameJob /\ pc = "start" /\ pc' = "done" /\ UNCHANGED <<call, stack, budget, handed>>
      /\ reports' = <<>> \/ reports' = <<Report(1, "limit")>>
  BY DEF PathError, SameJob
<1> QED
  BY <1>1, EndsEarly DEF ScanInv

LEMMA SkipPathKeeps ==
  ASSUME ScanInv, SkipPath
  PROVE  ScanInv'
<1>1. /\ SameJob /\ pc = "start" /\ pc' = "done" /\ UNCHANGED <<call, stack, budget, handed>>
      /\ reports' = <<>> \/ reports' = <<Report(1, "skipped")>>
  BY DEF SkipPath, SameJob
<1> QED
  BY <1>1, EndsEarly DEF ScanInv

LEMMA BeginKeeps ==
  ASSUME ScanInv, Begin
  PROVE  ScanInv'
<1> USE DEF Begin
<1>0. SameJob /\ ScanTypes /\ UNCHANGED <<stack, budget, handed, reports, error>>
  BY DEF SameJob, ScanInv
<1>1. /\ Nodes' = Nodes /\ Reports' = Reports /\ Entries' = Entries /\ Frames' = Frames
      /\ \A n : Entry(n)' = Entry(n) /\ Data(n)' = Data(n)
  BY <1>0, SameFile DEF SameJob
<1>2. 1 \in Nodes /\ IsFile
  BY <1>0, TreeOfTypes DEF IsFile
<1>3. call' = Entry(1) /\ Entry(1) \in Entries
  BY <1>2, EntryFacts DEF Entry
<1>4. ScanTypes'
  <2>1. /\ doc' \in Docs /\ database' \in Databases /\ LoadsNdb(database'.patterns)
        /\ limits' \in Limits
    BY <1>0 DEF ScanTypes, SameJob
  <2>2. /\ call' \in Entries' \cup {NoCall} /\ stack' \in Seq(Frames')
        /\ budget' \in Budgets /\ handed' \in Nat /\ reports' \in Seq(Reports')
    BY <1>0, <1>1, <1>3 DEF ScanTypes
  <2>3. pc' = "scan"
    OBVIOUS
  <2> QED
    BY <2>1, <2>2, <2>3 DEF ScanTypes, NoCall, Budgets
<1>5. BudgetInv'
  BY <1>0 DEF BudgetInv, SameJob, ScanInv
<1>6. Queued(1)'
  BY <1>1, <1>3 DEF Queued
<1>7. RootAccounted({})'
  BY <1>6 DEF RootAccounted, AccountedFor
<1>8. CoverInv'
  <2>1. Covers({})'
    BY <1>7 DEF Covers
  <2>2. {} \in SUBSET Nodes'
    OBVIOUS
  <2> QED
    BY <2>1, <2>2 DEF CoverInv
<1>9. InfectedIsReal'
  BY <1>0, <1>1 DEF InfectedIsReal, Of, SameJob, ScanInv
<1> QED
  BY <1>4, <1>5, <1>8, <1>9 DEF ScanInv

LEMMA FinishKeeps ==
  ASSUME ScanInv, Finish
  PROVE  ScanInv'
<1> USE DEF Finish
<1>0. /\ SameJob /\ ScanTypes /\ UNCHANGED <<call, stack, budget, handed, reports, error>>
      /\ pc = "scan" /\ ReportsKept
  BY DEF SameJob, ScanInv, ReportsKept
<1>1. /\ Nodes' = Nodes /\ Reports' = Reports /\ Entries' = Entries /\ Frames' = Frames
      /\ \A n : Entry(n)' = Entry(n) /\ Data(n)' = Data(n) /\ Below(n)' = Below(n)
  BY <1>0, SameFile DEF SameJob
<1>4. ScanTypes'
  <2>1. /\ doc' \in Docs /\ database' \in Databases /\ LoadsNdb(database'.patterns)
        /\ limits' \in Limits
    BY <1>0 DEF ScanTypes, SameJob
  <2>2. /\ call' \in Entries' \cup {NoCall} /\ stack' \in Seq(Frames')
        /\ budget' \in Budgets /\ handed' \in Nat /\ reports' \in Seq(Reports')
    BY <1>0, <1>1 DEF ScanTypes
  <2>3. call' = NoCall /\ stack' = <<>>
    BY <1>0
  <2> QED
    BY <2>1, <2>2, <2>3 DEF ScanTypes, NoCall, Budgets
<1>5. BudgetInv'
  BY <1>0 DEF BudgetInv, SameJob, ScanInv
<1>8. CoverInv'
  <2>1. PICK W \in SUBSET Nodes : Covers(W)
    BY DEF ScanInv, CoverInv
  <2>2. ASSUME NEW n \in Nodes, AccountedFor(n, W) PROVE AccountedFor(n, W)'
    BY <1>0, <1>1, <2>2 DEF AccountedFor, Flagged, Queued, Lists, Of
  <2>3. \A n \in W \ W : Scanned(n)' /\ MembersAccounted(n, W)'
    OBVIOUS
  <2>4. W \subseteq W /\ error' = error
    BY <1>0
  <2> QED
    BY <1>0, <2>1, <2>2, <2>3, <2>4, CoverKept
<1>9. InfectedIsReal'
  BY <1>0, <1>1 DEF InfectedIsReal, Of, SameJob, ScanInv
<1> QED
  BY <1>4, <1>5, <1>8, <1>9 DEF ScanInv

LEMMA TypesKept ==
  ASSUME ScanTypes, SameJob, pc = "scan", pc' = "scan",
         call' \in Entries \cup {NoCall}, stack' \in Seq(Frames), budget' \in Budgets,
         handed' \in Nat, reports' \in Seq(Reports)
  PROVE  ScanTypes'
<1>1. Reports' = Reports /\ Entries' = Entries /\ Frames' = Frames
  BY SameFile DEF SameJob
<1>2. /\ doc' \in Docs /\ database' \in Databases /\ LoadsNdb(database'.patterns)
      /\ limits' \in Limits
  BY DEF ScanTypes, SameJob
<1> QED
  BY <1>1, <1>2 DEF ScanTypes, NoCall, Budgets

\* The node whose bytes, all of them, are scanned.
Current == {n \in Nodes : call = Entry(n)}

LEMMA CurrentFacts ==
  ASSUME ScanTypes, NEW n \in Current
  PROVE  call # NoCall /\ call.node = n /\ Whole(call) /\ n \in Nodes
<1>1. n \in Nodes /\ call = Entry(n)
  BY DEF Current
<1>2. Entry(n) \in Entries
  BY <1>1, EntryFacts, TreeOfTypes
<1>3. call # NoCall
  BY <1>1, <1>2, TreeOfTypes
<1>4. call.node = n
  BY <1>1 DEF Entry
<1> QED
  BY <1>1, <1>3, <1>4 DEF Whole, Entry

\* A buffer that is not taken for a container has no members.
LEMMA LeafIsBare ==
  ASSUME ScanTypes, ~IsContainer(call), NEW n \in Current
  PROVE  Range(Members(n)) = {}
<1>1. n \in Nodes /\ call.node = n /\ call.kept = Len(Data(n))
  BY CurrentFacts DEF Whole
<1>2. Data(n) \in Seq(Nat) /\ Members(n) \in Seq(Nodes)
  BY <1>1, TreeOfTypes DEF IsFile
<1>3. Members(n) # <<>> => doc.nodes[n].format \in Containers /\ Data(n) # <<>>
  BY <1>1, DocsAssumption DEF ScanTypes, Nodes, Members, Data
<1>4. Members(n) = <<>>
  <2> SUFFICES ASSUME Members(n) # <<>> PROVE FALSE
    OBVIOUS
  <2>1. call.kept = 0 \/ ~(call.kept > 0)
    BY <1>1, <1>3 DEF IsContainer
  <2>2. Len(Data(n)) \in Nat \ {0}
    BY <1>2, <1>3, EmptySeq
  <2> QED
    BY <1>1, <2>1, <2>2
<1> QED
  BY <1>4 DEF Range

LEMMA ScanLeafKeeps ==
  ASSUME ScanInv, ScanLeaf
  PROVE  ScanInv'
<1>0. /\ SameJob /\ ScanTypes /\ call # NoCall /\ ~IsContainer(call) /\ call' = NoCall
      /\ UNCHANGED <<pc, stack, budget, handed, error>>
      /\ reports' = Append(reports, OwnReport(call))
  BY DEF SameJob, ScanInv, ScanLeaf
<1>1. /\ Nodes' = Nodes
      /\ \A n : Entry(n)' = Entry(n) /\ Below(n)' = Below(n) /\ Members(n)' = Members(n)
      /\ \A c : OwnReport(c)' = OwnReport(c)
  BY <1>0, SameFile DEF SameJob
<1>2. pc = "scan" /\ OwnReport(call) \in Reports
  BY <1>0, CallFacts
<1>3. /\ reports' \in Seq(Reports) /\ ReportsKept
      /\ \E i \in DOMAIN reports' : reports'[i] = OwnReport(call)
      /\ \A i \in DOMAIN reports' : i \in DOMAIN reports \/ reports'[i] = OwnReport(call)
  BY <1>0, <1>2, ReportAdded
<1>4. ScanTypes'
  <2>1. /\ call' \in Entries \cup {NoCall} /\ stack' \in Seq(Frames) /\ budget' \in Budgets
        /\ handed' \in Nat /\ pc' = "scan"
    BY <1>0, <1>2 DEF ScanTypes
  <2> QED
    BY <1>0, <1>2, <1>3, <2>1, TypesKept
<1>5. BudgetInv'
  BY <1>0 DEF BudgetInv, SameJob, ScanInv
<1>6. CoverInv'
  <2>1. PICK W \in SUBSET Nodes : Covers(W)
    BY DEF ScanInv, CoverInv
  <2>2. PICK W2 \in SUBSET Nodes : W2 = W \cup Current
    BY DEF Current
  <2>3. ASSUME NEW n \in Nodes, AccountedFor(n, W) PROVE AccountedFor(n, W2)'
    <3>1. CASE n \in W
      BY <2>2, <3>1 DEF AccountedFor
    <3>2. CASE Flagged(n)
      <4>1. \A i \in DOMAIN stack : stack[i].hit /\ n \in Below(stack[i].node) => Flagged(n)'
        BY <1>0, <1>1 DEF Flagged
      <4>2. Flagged(n)'
        BY <1>0, <1>3, <3>2, <4>1, FlagKept
      <4> QED
        BY <4>2 DEF AccountedFor
    <3>3. CASE Queued(n)
      <4>1. CASE call = Entry(n)
        BY <2>2, <4>1 DEF Current, AccountedFor
      <4>2. CASE \E i \in DOMAIN stack : Lists(stack[i].todo, n)
        BY <1>0, <1>1, <4>2 DEF AccountedFor, Queued, Lists
      <4> QED
        BY <3>3, <4>1, <4>2 DEF Queued
    <3> QED
      BY <2>3, <3>1, <3>2, <3>3 DEF AccountedFor
  <2>4. ASSUME NEW n \in W2 \ W PROVE Scanned(n)' /\ MembersAccounted(n, W2)'
    <3>1. n \in Current /\ call = Entry(n)
      BY <2>2 DEF Current
    <3>2. Scanned(n)'
      BY <1>1, <1>3, <3>1 DEF Scanned
    <3>3. Range(Members(n)) = {}
      BY <1>0, <3>1, LeafIsBare
    <3>4. MembersAccounted(n, W2)'
      BY <1>1, <3>3 DEF MembersAccounted
    <3> QED
      BY <3>2, <3>4
  <2>5. W \subseteq W2
    BY <2>2
  <2> QED
    BY <1>0, <1>2, <1>3, <2>1, <2>5, <2>3, <2>4, CoverKept
<1>7. InfectedIsReal'
  <2>1. \A i \in DOMAIN reports' : i \in DOMAIN reports \/ IsReal(reports'[i])
    BY <1>0, <1>3, OwnIsReal
  <2> QED
    BY <1>0, <1>3, <2>1, RealKept DEF ScanInv
<1> QED
  BY <1>4, <1>5, <1>6, <1>7 DEF ScanInv

AddsReports(r, s) == reports' = reports \o <<r, s>>

LEMMA TwoReportsAdded ==
  ASSUME ScanTypes, NEW r \in Reports, NEW s \in Reports, AddsReports(r, s)
  PROVE  /\ reports' \in Seq(Reports) /\ ReportsKept
         /\ \E i \in DOMAIN reports' : reports'[i] = s
         /\ \A i \in DOMAIN reports' : i \in DOMAIN reports \/ reports'[i] = r \/ reports'[i] = s
<1>1. PICK n \in Nat : n = Len(reports) /\ DOMAIN reports = 1..n
  BY LenProperties DEF ScanTypes
<1>2. PICK two : two = <<r, s>>
  OBVIOUS
<1>9. two \in Seq(Reports) /\ Len(two) = 2 /\ two[1] = r /\ two[2] = s
  BY <1>2
<1>3. /\ reports' \in Seq(Reports) /\ Len(reports') = n + 2
      /\ \A i \in 1..(n + 2) : reports'[i] = IF i <= n THEN reports[i] ELSE two[i - n]
  <2>1. reports \in Seq(Reports) /\ reports' = reports \o two
    BY <1>2 DEF ScanTypes, AddsReports
  <2>2. /\ reports \o two \in Seq(Reports)
        /\ Len(reports \o two) = Len(reports) + Len(two)
        /\ \A i \in 1..(Len(reports) + Len(two)) :
              (reports \o two)[i] = IF i <= Len(reports) THEN reports[i] ELSE two[i - Len(reports)]
    BY <1>9, <2>1, ConcatProperties
  <2> QED
    BY <1>1, <1>9, <2>1, <2>2
<1>4. DOMAIN reports' = 1..(n + 2)
  BY <1>3, LenProperties
<1>5. ReportsKept
  <2>1. \A i \in 1..n : i \in 1..(n + 2) /\ i <= n
    OBVIOUS
  <2> QED
    BY <1>1, <1>3, <1>4, <2>1 DEF ReportsKept
<1>6. reports'[n + 2] = s
  <2>1. n + 2 \in 1..(n + 2) /\ ~(n + 2 <= n) /\ (n + 2) - n = 2
    OBVIOUS
  <2> QED
    BY <1>3, <1>9, <2>1
<1>7. ASSUME NEW i \in DOMAIN reports', i \notin DOMAIN reports
      PROVE  reports'[i] = r \/ reports'[i] = s
  <2>1. i \in 1..(n + 2) /\ ~(i <= n) /\ (i - n = 1 \/ i - n = 2)
    BY <1>1, <1>4, <1>7
  <2> QED
    BY <1>3, <1>9, <2>1
<1>8. n + 2 \in DOMAIN reports'
  BY <1>4
<1> QED
  BY <1>3, <1>5, <1>6, <1>7, <1>8

LEMMA RefuseArchiveKeeps ==
  ASSUME ScanInv, RefuseArchive
  PROVE  ScanInv'
<1> PICK flag : flag = Report(call.node, "limit")
  OBVIOUS
<1>0. /\ SameJob /\ ScanTypes /\ call # NoCall /\ call' = NoCall
      /\ UNCHANGED <<pc, stack, handed, error>> /\ budget' = Entered(budget)
      /\ reports' = reports \o <<OwnReport(call), flag>>
  BY DEF SameJob, ScanInv, RefuseArchive
<1>1. /\ Nodes' = Nodes
      /\ \A n : Entry(n)' = Entry(n) /\ Below(n)' = Below(n) /\ Members(n)' = Members(n)
  BY <1>0, SameFile DEF SameJob
<1>2. /\ pc = "scan" /\ OwnReport(call) \in Reports /\ flag \in Reports
      /\ flag.verdict = "limit" /\ flag.node = call.node
  BY <1>0, CallFacts DEF Report
<1>3. /\ reports' \in Seq(Reports) /\ ReportsKept
      /\ \E i \in DOMAIN reports' : reports'[i] = flag
      /\ \A i \in DOMAIN reports' :
            i \in DOMAIN reports \/ reports'[i] = OwnReport(call) \/ reports'[i] = flag
  <2>1. PICK own \in Reports : own = OwnReport(call)
    BY <1>2
  <2>2. AddsReports(own, flag) /\ flag \in Reports
    BY <1>0, <1>2, <2>1 DEF AddsReports
  <2>3. ScanTypes
    BY <1>0
  <2>4. /\ reports' \in Seq(Reports) /\ ReportsKept
        /\ \E i \in DOMAIN reports' : reports'[i] = flag
        /\ \A i \in DOMAIN reports' :
              i \in DOMAIN reports \/ reports'[i] = own \/ reports'[i] = flag
    BY <2>2, <2>3, TwoReportsAdded
  <2> QED
    BY <2>1, <2>4
<1>8. /\ budget' \in Budgets /\ budget'.depth = budget.depth + 1 /\ budget'.total = budget.total
      /\ budget.depth \in Nat
  <2>1. PICK depth \in Nat, entries \in Nat, total \in Nat :
          budget = [depth |-> depth, entries |-> entries, total |-> total]
    BY <1>0 DEF ScanTypes, Budgets
  <2>2. budget' = [depth |-> depth + 1, entries |-> entries, total |-> total]
    BY <1>0, <2>1 DEF Entered
  <2> QED
    BY <2>1, <2>2 DEF Budgets
<1>4. ScanTypes'
  <2>1. /\ call' \in Entries \cup {NoCall} /\ stack' \in Seq(Frames)
        /\ handed' \in Nat /\ pc' = "scan"
    BY <1>0, <1>2 DEF ScanTypes
  <2> QED
    BY <1>0, <1>2, <1>3, <1>8, <2>1, TypesKept
<1>5. BudgetInv'
  <2>1. Len(stack) \in Nat
    BY <1>0, LenProperties DEF ScanTypes
  <2> QED
    BY <1>0, <1>8, <2>1 DEF BudgetInv, SameJob, ScanInv
<1>6. CoverInv'
  <2>1. PICK W \in SUBSET Nodes : Covers(W)
    BY DEF ScanInv, CoverInv
  <2>3. ASSUME NEW n \in Nodes, AccountedFor(n, W) PROVE AccountedFor(n, W)'
    <3>1. CASE n \in W
      BY <3>1 DEF AccountedFor
    <3>2. CASE Flagged(n)
      <4>1. \A i \in DOMAIN stack : stack[i].hit /\ n \in Below(stack[i].node) => Flagged(n)'
        BY <1>0, <1>1 DEF Flagged
      <4>2. Flagged(n)'
        BY <1>0, <1>3, <3>2, <4>1, FlagKept
      <4> QED
        BY <4>2 DEF AccountedFor
    <3>3. CASE Queued(n)
      <4>1. CASE call = Entry(n)
        <5>1. n \in Current /\ call.node = n
          BY <1>0, <4>1, CurrentFacts DEF Current
        <5>2. n \in Below(n)
          BY <1>0, TreeOfTypes, BelowClosed
        <5>3. Flagged(n)'
          BY <1>1, <1>2, <1>3, <5>1, <5>2 DEF Flagged, Of
        <5> QED
          BY <5>3 DEF AccountedFor
      <4>2. CASE \E i \in DOMAIN stack : Lists(stack[i].todo, n)
        BY <1>0, <1>1, <4>2 DEF AccountedFor, Queued, Lists
      <4> QED
        BY <3>3, <4>1, <4>2 DEF Queued
    <3> QED
      BY <2>3, <3>1, <3>2, <3>3 DEF AccountedFor
  <2>4. \A n \in W \ W : Scanned(n)' /\ MembersAccounted(n, W)'
    OBVIOUS
  <2>5. W \subseteq W
    OBVIOUS
  <2> QED
    BY <1>0, <1>2, <1>3, <2>1, <2>3, <2>4, <2>5, CoverKept
<1>7. InfectedIsReal'
  <2>1. IsReal(OwnReport(call)) /\ IsReal(flag)
    BY <1>0, <1>2, OwnIsReal DEF IsReal
  <2>2. \A i \in DOMAIN reports' : i \in DOMAIN reports \/ IsReal(reports'[i])
    BY <1>3, <2>1
  <2> QED
    BY <1>0, <1>3, <2>2, RealKept DEF ScanInv
<1> QED
  BY <1>4, <1>5, <1>6, <1>7 DEF ScanInv

LEMMA OpenArchiveKeeps ==
  ASSUME ScanInv, OpenArchive
  PROVE  ScanInv'
<1> PICK x : x = Extract(call, Entered(budget))
  OBVIOUS
<1> PICK top : top = [node |-> call.node, todo |-> x.out, hit |-> x.hit \/ x.err]
  OBVIOUS
<1> PICK own : own = OwnReport(call)
  OBVIOUS
<1>0. /\ SameJob /\ ScanTypes /\ call # NoCall /\ call' = NoCall /\ EnterOk(budget)
      /\ UNCHANGED <<pc, error>> /\ budget' = x.budget /\ handed' = handed + SumKept(x.out)
      /\ stack' = Append(stack, top) /\ reports' = Append(reports, own)
  BY DEF SameJob, ScanInv, OpenArchive
<1>1. /\ Nodes' = Nodes /\ Unflawed' = Unflawed
      /\ \A n : Entry(n)' = Entry(n) /\ Below(n)' = Below(n) /\ Members(n)' = Members(n)
      /\ \A c : OwnReport(c)' = OwnReport(c)
  BY <1>0, SameFile DEF SameJob
<1>2. pc = "scan" /\ own \in Reports /\ call \in Entries /\ call.node \in Nodes
  BY <1>0, CallFacts
<1>3. /\ reports' \in Seq(Reports) /\ ReportsKept
      /\ \E i \in DOMAIN reports' : reports'[i] = own
      /\ \A i \in DOMAIN reports' : i \in DOMAIN reports \/ reports'[i] = own
  BY <1>0, <1>2, ReportAdded
<1>4. PICK old \in Budgets : /\ old = Entered(budget) /\ old.depth = budget.depth + 1
                           /\ old.total = budget.total
  <2>1. PICK depth \in Nat, entries \in Nat, total \in Nat :
          budget = [depth |-> depth, entries |-> entries, total |-> total]
    BY <1>0 DEF ScanTypes, Budgets
  <2>2. Entered(budget) = [depth |-> depth + 1, entries |-> entries, total |-> total]
    BY <2>1 DEF Entered
  <2> QED
    BY <2>1, <2>2 DEF Budgets
<1>5. Opened(x, call, old)
  BY <1>0, <1>2, <1>4, ExtractFacts, TreeOfTypes
<1>6. /\ x \in Extractions /\ x.out \in Seq(Entries) /\ x.budget \in Budgets
      /\ x.hit \in BOOLEAN /\ x.err \in BOOLEAN
  BY <1>5 DEF Opened, Extractions
<1>7. top \in Frames /\ top.node = call.node /\ top.todo = x.out /\ (top.hit <=> x.hit \/ x.err)
  BY <1>2, <1>6 DEF Frames
<1>8. PICK n \in Nat : n = Len(stack) /\ DOMAIN stack = 1..n
  BY <1>0, LenProperties DEF ScanTypes
<1>9. /\ stack' \in Seq(Frames) /\ Len(stack') = n + 1 /\ stack'[n + 1] = top
      /\ \A i \in 1..n : stack'[i] = stack[i]
  BY <1>0, <1>7, <1>8, AppendProperties DEF ScanTypes
<1>10. /\ DOMAIN stack' = 1..(n + 1) /\ n + 1 \in 1..(n + 1)
       /\ \A i \in 1..n : i \in 1..(n + 1)
  BY <1>9, LenProperties
<1>11. PICK sum \in Nat : sum = SumKept(x.out)
  BY <1>2, <1>6, SumOfAppend
<1>12. ScanTypes'
  <2>1. call' \in Entries \cup {NoCall} /\ budget' \in Budgets /\ handed' \in Nat /\ pc' = "scan"
    BY <1>0, <1>2, <1>6, <1>11 DEF ScanTypes
  <2> QED
    BY <1>0, <1>2, <1>3, <1>9, <2>1, TypesKept
<1>13. BudgetInv'
  <2>1. PICK most \in Nat, all \in Nat :
           most = limits.max_depth /\ all = limits.max_total_uncompressed
    BY <1>0, TreeOfTypes DEF GuardLimits
  <2>2. PICK depth \in Nat, total \in Nat, given \in Nat, spent \in Nat :
           /\ depth = budget.depth /\ total = budget.total /\ given = handed
           /\ spent = x.budget.total
    BY <1>0, <1>6 DEF ScanTypes, Budgets
  <2>3. x.budget.depth = depth + 1 /\ total + sum <= spent /\ (sum = 0 \/ total + sum <= all)
    BY <1>4, <1>5, <1>11, <2>1, <2>2 DEF Opened, WithinBudget
  <2>4. given <= total /\ given <= all /\ n <= depth /\ n <= most
    BY <1>8, <2>1, <2>2 DEF BudgetInv, ScanInv
  <2>5. depth + 1 <= most
    BY <1>0, <2>1, <2>2 DEF EnterOk
  <2>6. given + sum <= spent
    BY <2>3, <2>4
  <2>7. given + sum <= all
    <3>1. CASE sum = 0
      BY <2>4, <3>1
    <3>2. CASE total + sum <= all
      BY <2>4, <3>2
    <3> QED
      BY <2>3, <3>1, <3>2
  <2>8. n + 1 <= depth + 1 /\ n + 1 <= most
    BY <2>4, <2>5
  <2>9. /\ handed' = given + sum /\ budget'.total = spent /\ budget'.depth = depth + 1
        /\ Len(stack') = n + 1
        /\ limits'.max_depth = most /\ limits'.max_total_uncompressed = all
    BY <1>0, <1>9, <1>11, <2>1, <2>2, <2>3 DEF SameJob
  <2> QED
    BY <2>6, <2>7, <2>8, <2>9 DEF BudgetInv
<1>14. CoverInv'
  <2>1. PICK W \in SUBSET Nodes : Covers(W)
    BY DEF ScanInv, CoverInv
  <2>2. PICK W2 \in SUBSET Nodes : W2 = W \cup Current
    BY DEF Current
  <2>3. ASSUME NEW m \in Nodes, AccountedFor(m, W) PROVE AccountedFor(m, W2)'
    <3>1. CASE m \in W
      BY <2>2, <3>1 DEF AccountedFor
    <3>2. CASE Flagged(m)
      <4>1. \A i \in DOMAIN stack : stack[i].hit /\ m \in Below(stack[i].node) => Flagged(m)'
        BY <1>1, <1>8, <1>9, <1>10 DEF Flagged
      <4>2. Flagged(m)'
        BY <1>0, <1>3, <3>2, <4>1, FlagKept
      <4> QED
        BY <4>2 DEF AccountedFor
    <3>3. CASE Queued(m)
      <4>1. CASE call = Entry(m)
        BY <2>2, <4>1 DEF Current, AccountedFor
      <4>2. CASE \E i \in DOMAIN stack : Lists(stack[i].todo, m)
        BY <1>1, <1>8, <1>9, <1>10, <4>2 DEF AccountedFor, Queued, Lists
      <4> QED
        BY <3>3, <4>1, <4>2 DEF Queued
    <3> QED
      BY <2>3, <3>1, <3>2, <3>3 DEF AccountedFor
  <2>4. ASSUME NEW k \in W2 \ W PROVE Scanned(k)' /\ MembersAccounted(k, W2)'
    <3>1. k \in Current /\ call = Entry(k)
      BY <2>2 DEF Current
    <3>2. Scanned(k)'
      BY <1>1, <1>3, <3>1 DEF Scanned
    <3>3. k \in Nodes /\ call.node = k /\ Whole(call)
      BY <1>0, <3>1, CurrentFacts
    <3>4. ASSUME NEW m \in Range(Members(k)) \cap Unflawed PROVE AccountedFor(m, W2)'
      <4>1. CASE x.hit \/ x.err
        <5>1. m \in Below(k)
          BY <1>0, <3>3, TreeOfTypes, BelowClosed
        <5>2. Flagged(m)'
          BY <1>1, <1>7, <1>9, <1>10, <3>3, <4>1, <5>1 DEF Flagged
        <5> QED
          BY <5>2 DEF AccountedFor
      <4>2. CASE Lists(x.out, m)
        <5>1. Lists(top.todo, m)
          BY <1>7, <4>2
        <5>2. Queued(m)'
          BY <1>1, <1>9, <1>10, <5>1 DEF Queued, Lists
        <5> QED
          BY <5>2 DEF AccountedFor
      <4> QED
        BY <1>5, <3>3, <4>1, <4>2 DEF Opened
    <3>5. MembersAccounted(k, W2)'
      BY <1>1, <3>4 DEF MembersAccounted
    <3> QED
      BY <3>2, <3>5
  <2>5. W \subseteq W2
    BY <2>2
  <2> QED
    BY <1>0, <1>2, <1>3, <2>1, <2>5, <2>3, <2>4, CoverKept
<1>15. InfectedIsReal'
  <2>1. \A i \in DOMAIN reports' : i \in DOMAIN reports \/ IsReal(reports'[i])
    BY <1>0, <1>3, OwnIsReal
  <2> QED
    BY <1>0, <1>3, <2>1, RealKept DEF ScanInv
<1> QED
  BY <1>12, <1>13, <1>14, <1>15 DEF ScanInv

\* The innermost open archive, and those around it.
Inner(n) ==
  /\ Len(stack) = n + 1 /\ DOMAIN stack = 1..(n + 1)
  /\ Last(stack) = stack[n + 1] /\ stack[n + 1] \in Frames
  /\ Front(stack) \in Seq(Frames) /\ Len(Front(stack)) = n /\ DOMAIN Front(stack) = 1..n
  /\ \A i \in 1..n : Front(stack)[i] = stack[i]

LEMMA InnerExists ==
  ASSUME ScanTypes, stack # <<>>
  PROVE  \E n \in Nat : Inner(n)
<1>0. stack \in Seq(Frames)
  BY DEF ScanTypes
<1>1. PICK n \in Nat : Len(stack) = n + 1
  <2>1. Len(stack) \in Nat \ {0}
    BY <1>0, EmptySeq
  <2>2. Len(stack) - 1 \in Nat /\ Len(stack) = (Len(stack) - 1) + 1
    BY <2>1
  <2> QED
    BY <2>2
<1>2. DOMAIN stack = 1..(n + 1)
  BY <1>0, <1>1, LenProperties
<1>3. Last(stack) = stack[n + 1] /\ stack[n + 1] \in Frames
  <2>1. n + 1 \in 1..Len(stack)
    BY <1>1
  <2> QED
    BY <1>0, <1>1, <2>1, ElementOfSeq DEF Last
<1>4. PICK front : front = SubSeq(stack, 0 + 1, 0 + n)
  OBVIOUS
<1>5. Front(stack) = front
  <2>1. 0 + 1 = 1 /\ 0 + n = (n + 1) - 1
    OBVIOUS
  <2> QED
    BY <1>1, <1>4, <2>1 DEF Front
<1>6. Len(front) = n /\ DOMAIN front = 1..n /\ \A i \in 1..n : front[i] = stack[i]
  <2>1. 0 + n <= Len(stack) /\ 0 \in Nat /\ \A i \in 1..n : 0 + i = i
    BY <1>1
  <2> QED
    BY <1>0, <1>4, <2>1, Piece
<1>7. front \in Seq(Frames)
  <2>1. \A i \in 1..n : i \in 1..Len(stack)
    BY <1>1
  <2>2. \A i \in 1..n : stack[i] \in Frames
    BY <1>0, <2>1, ElementOfSeq
  <2>3. 0 + 1 = 1 /\ 0 + n = n /\ 1 \in Int /\ n \in Int
    OBVIOUS
  <2> QED
    BY <1>4, <2>2, <2>3, SubSeqProperties
<1> QED
  BY <1>1, <1>2, <1>3, <1>5, <1>6, <1>7 DEF Inner

LEMMA NextEntryKeeps ==
  ASSUME ScanInv, NextEntry
  PROVE  ScanInv'
<1>0. /\ SameJob /\ ScanTypes /\ call = NoCall /\ stack # <<>> /\ Last(stack).todo # <<>>
      /\ call' = Head(Last(stack).todo)
      /\ stack' = [stack EXCEPT ![Len(stack)].todo = Tail(@)]
      /\ UNCHANGED <<pc, budget, handed, reports, error>>
  BY DEF SameJob, ScanInv, NextEntry
<1>1. /\ Nodes' = Nodes
      /\ \A n : Entry(n)' = Entry(n) /\ Below(n)' = Below(n) /\ Data(n)' = Data(n)
  BY <1>0, SameFile DEF SameJob
<1>2. pc = "scan" /\ ReportsKept
  BY <1>0 DEF ScanTypes, ReportsKept
<1>3. PICK n \in Nat : Inner(n)
  BY <1>0, InnerExists
<1>4. PICK node \in Nodes, todo \in Seq(Entries), hit \in BOOLEAN :
         stack[n + 1] = [node |-> node, todo |-> todo, hit |-> hit]
  BY <1>3 DEF Inner, Frames
<1>18. PICK frame : frame = stack[n + 1]
  OBVIOUS
<1>5. /\ todo # <<>> /\ call' = Head(todo)
      /\ stack' = [stack EXCEPT ![n + 1] = [frame EXCEPT !.todo = Tail(todo)]]
  BY <1>0, <1>3, <1>4, <1>18 DEF Inner
<1>6. PICK rest : rest = Tail(todo)
  OBVIOUS
<1>7. PICK top : top = [node |-> node, todo |-> rest, hit |-> hit]
  OBVIOUS
<1>8. stack' = [stack EXCEPT ![n + 1] = top]
  <2>1. frame = [node |-> node, todo |-> todo, hit |-> hit]
    BY <1>4, <1>18
  <2>2. [frame EXCEPT !.todo = rest] = top
    BY <1>7, <2>1
  <2> QED
    BY <1>5, <1>6, <2>2
<1>9. /\ call' \in Entries /\ rest \in Seq(Entries)
      /\ Len(rest) = Len(todo) - 1 /\ \A i \in 1..Len(rest) : rest[i] = todo[i+1]
  BY <1>5, <1>6, HeadTailProperties
<1>10. top \in Frames /\ top.node = node /\ top.todo = rest /\ top.hit = hit
  BY <1>7, <1>9 DEF Frames
<1>11. stack \in Seq(Frames) /\ n + 1 \in 1..Len(stack)
  <2>1. stack \in Seq(Frames)
    BY <1>0 DEF ScanTypes
  <2> QED
    BY <1>3, <2>1 DEF Inner
<1>12. /\ stack' \in Seq(Frames) /\ Len(stack') = n + 1
       /\ \A j \in 1..(n + 1) : stack'[j] = IF j = n + 1 THEN top ELSE stack[j]
  <2>1. PICK i \in 1..Len(stack) : i = n + 1
    BY <1>11
  <2>2. /\ [stack EXCEPT ![i] = top] \in Seq(Frames)
        /\ Len([stack EXCEPT ![i] = top]) = Len(stack)
        /\ \A j \in 1..Len(stack) : [stack EXCEPT ![i] = top][j] = IF j = i THEN top ELSE stack[j]
    BY <1>10, <1>11, ExceptSeq
  <2> QED
    BY <1>3, <1>8, <2>1, <2>2 DEF Inner
<1>13. DOMAIN stack' = 1..(n + 1) /\ DOMAIN stack = 1..(n + 1)
  BY <1>3, <1>12, LenProperties DEF Inner
<1>14. ScanTypes'
  <2>1. /\ call' \in Entries \cup {NoCall} /\ budget' \in Budgets /\ handed' \in Nat /\ pc' = "scan"
        /\ reports' \in Seq(Reports)
    BY <1>0, <1>2, <1>9 DEF ScanTypes
  <2> QED
    BY <1>0, <1>2, <1>12, <2>1, TypesKept
<1>15. BudgetInv'
  BY <1>0, <1>3, <1>12 DEF BudgetInv, ScanInv, SameJob, Inner
<1>16. CoverInv'
  <2>1. PICK W \in SUBSET Nodes : Covers(W)
    BY DEF ScanInv, CoverInv
  <2>2. ASSUME NEW m \in Nodes, AccountedFor(m, W) PROVE AccountedFor(m, W)'
    <3>1. CASE m \in W
      BY <3>1 DEF AccountedFor
    <3>2. CASE Flagged(m)
      <4>1. ASSUME NEW i \in DOMAIN stack, stack[i].hit, m \in Below(stack[i].node)
            PROVE  Flagged(m)'
        <5>1. stack'[i].hit = stack[i].hit /\ stack'[i].node = stack[i].node
          BY <1>4, <1>10, <1>12, <1>13
        <5> QED
          BY <1>1, <1>13, <4>1, <5>1 DEF Flagged
      <4>2. Flagged(m)'
        BY <1>0, <1>2, <3>2, <4>1, FlagKept
      <4> QED
        BY <4>2 DEF AccountedFor
    <3>3. CASE Queued(m)
      <4>1. call # Entry(m)
        <5>1. Entry(m) \in Entries
          BY <1>0, TreeOfTypes, EntryFacts
        <5> QED
          BY <1>0, <5>1, TreeOfTypes
      <4>2. PICK i \in DOMAIN stack : Lists(stack[i].todo, m)
        BY <3>3, <4>1 DEF Queued
      <4>5. PICK list : list = stack[i].todo
        OBVIOUS
      <4>3. CASE i # n + 1
        <5>1. stack'[i] = stack[i] /\ i \in DOMAIN stack'
          BY <1>12, <1>13, <4>3
        <5>2. Lists(list, m)'
          BY <1>1, <4>2, <4>5 DEF Lists
        <5> QED
          BY <4>5, <5>1, <5>2 DEF AccountedFor, Queued
      <4>4. CASE i = n + 1
        <5>1. PICK j \in DOMAIN todo : todo[j] = Entry(m)
          BY <1>4, <4>2, <4>4 DEF Lists
        <5>2. PICK size \in Nat : size = Len(todo) /\ DOMAIN todo = 1..size
          BY LenProperties
        <5>3. CASE j = 1
          <6>1. call' = Entry(m)
            BY <1>5, <5>1, <5>3
          <6> QED
            BY <1>1, <6>1 DEF AccountedFor, Queued
        <5>4. CASE j # 1
          <6>1. j - 1 \in 1..(size - 1) /\ (j - 1) + 1 = j
            BY <5>2, <5>4
          <6>2. rest[j-1] = todo[j] /\ DOMAIN rest = 1..(size - 1)
            BY <1>9, <5>2, <6>1, LenProperties
          <6>3. Lists(rest, m)'
            BY <1>1, <5>1, <6>1, <6>2 DEF Lists
          <6>4. n + 1 \in DOMAIN stack' /\ stack'[n + 1].todo = rest
            BY <1>10, <1>12, <1>13
          <6> QED
            BY <6>3, <6>4 DEF AccountedFor, Queued
        <5> QED
          BY <5>3, <5>4
      <4> QED
        BY <4>3, <4>4
    <3> QED
      BY <2>2, <3>1, <3>2, <3>3 DEF AccountedFor
  <2>3. \A k \in W \ W : Scanned(k)' /\ MembersAccounted(k, W)'
    OBVIOUS
  <2>4. W \subseteq W
    OBVIOUS
  <2> QED
    BY <1>0, <1>2, <2>1, <2>2, <2>3, <2>4, CoverKept
<1>17. InfectedIsReal'
  BY <1>0, <1>1 DEF InfectedIsReal, Of, SameJob, ScanInv
<1> QED
  BY <1>14, <1>15, <1>16, <1>17 DEF ScanInv

LEMMA LeaveArchiveKeeps ==
  ASSUME ScanInv, LeaveArchive
  PROVE  ScanInv'
<1>0. /\ SameJob /\ ScanTypes /\ call = NoCall /\ stack # <<>> /\ Last(stack).todo = <<>>
      /\ reports' = IF Last(stack).hit THEN Append(reports, Report(Last(stack).node, "limit"))
                    ELSE reports
      /\ budget' = Left(budget) /\ stack' = Front(stack)
      /\ UNCHANGED <<pc, call, handed, error>>
  BY DEF SameJob, ScanInv, LeaveArchive
<1>1. /\ Nodes' = Nodes
      /\ \A n : Entry(n)' = Entry(n) /\ Below(n)' = Below(n) /\ Data(n)' = Data(n)
  BY <1>0, SameFile DEF SameJob
<1>2. pc = "scan"
  BY <1>0 DEF ScanTypes
<1>3. PICK n \in Nat : Inner(n)
  BY <1>0, InnerExists
<1>4. PICK node \in Nodes, todo \in Seq(Entries), hit \in BOOLEAN :
         stack[n + 1] = [node |-> node, todo |-> todo, hit |-> hit]
  BY <1>3 DEF Inner, Frames
<1>5. PICK flag \in Reports : flag = Report(node, "limit")
  BY DEF Report, Reports, Verdicts
<1>6. /\ todo = <<>> /\ reports' = IF hit THEN Append(reports, flag) ELSE reports
      /\ stack' \in Seq(Frames) /\ Len(stack') = n /\ DOMAIN stack' = 1..n
      /\ DOMAIN stack = 1..(n + 1) /\ \A i \in 1..n : stack'[i] = stack[i]
  BY <1>0, <1>3, <1>4, <1>5 DEF Inner
<1>7. /\ reports' \in Seq(Reports) /\ ReportsKept
      /\ hit => \E i \in DOMAIN reports' : reports'[i] = flag
      /\ \A i \in DOMAIN reports' : i \in DOMAIN reports \/ reports'[i] = flag
  <2>1. CASE hit
    BY <1>0, <1>5, <1>6, <2>1, ReportAdded
  <2>2. CASE ~hit
    BY <1>0, <1>6, <2>2 DEF ReportsKept, ScanTypes
  <2> QED
    BY <2>1, <2>2
<1>8. /\ budget' \in Budgets /\ budget'.total = budget.total
      /\ budget.depth \in Nat /\ (budget.depth > 0 => budget'.depth = budget.depth - 1)
  <2>1. PICK depth \in Nat, entries \in Nat, total \in Nat :
          budget = [depth |-> depth, entries |-> entries, total |-> total]
    BY <1>0 DEF ScanTypes, Budgets
  <2>2. PICK less \in Nat : less = IF depth > 0 THEN depth - 1 ELSE depth * 0
    OBVIOUS
  <2>3. budget' = [depth |-> less, entries |-> entries, total |-> total]
    BY <1>0, <2>1, <2>2 DEF Left
  <2>4. depth > 0 => less = depth - 1
    BY <2>2
  <2> QED
    BY <2>1, <2>3, <2>4 DEF Budgets
<1>9. ScanTypes'
  <2>1. /\ call' \in Entries \cup {NoCall} /\ handed' \in Nat /\ pc' = "scan"
    BY <1>0, <1>2 DEF ScanTypes
  <2> QED
    BY <1>0, <1>2, <1>6, <1>7, <1>8, <2>1, TypesKept
<1>10. BudgetInv'
  <2>1. PICK most \in Nat : most = limits.max_depth
    BY <1>0, TreeOfTypes DEF GuardLimits
  <2>2. n + 1 <= budget.depth /\ n + 1 <= most
    BY <1>3, <2>1 DEF BudgetInv, ScanInv, Inner
  <2>3. n <= budget'.depth /\ n <= most
    BY <1>8, <2>2
  <2> QED
    BY <1>0, <1>6, <1>8, <2>1, <2>3 DEF BudgetInv, ScanInv, SameJob
<1>11. CoverInv'
  <2>1. PICK W \in SUBSET Nodes : Covers(W)
    BY DEF ScanInv, CoverInv
  <2>2. ASSUME NEW m \in Nodes, AccountedFor(m, W) PROVE AccountedFor(m, W)'
    <3>1. CASE m \in W
      BY <3>1 DEF AccountedFor
    <3>2. CASE Flagged(m)
      <4>1. ASSUME NEW i \in DOMAIN stack, stack[i].hit, m \in Below(stack[i].node)
            PROVE  Flagged(m)'
        <5>1. CASE i \in 1..n
          BY <1>1, <1>6, <4>1, <5>1 DEF Flagged
        <5>2. CASE i = n + 1
          <6>1. hit /\ m \in Below(node)
            BY <1>4, <4>1, <5>2
          <6>2. PICK k \in DOMAIN reports' : reports'[k] = flag
            BY <1>7, <6>1
          <6>3. flag.verdict = "limit" /\ flag.node = node
            BY <1>5 DEF Report
          <6> QED
            BY <1>1, <6>1, <6>2, <6>3 DEF Flagged, Of
        <5> QED
          BY <1>6, <5>1, <5>2
      <4>2. Flagged(m)'
        BY <1>0, <1>7, <3>2, <4>1, FlagKept
      <4> QED
        BY <4>2 DEF AccountedFor
    <3>3. CASE Queued(m)
      <4>1. call # Entry(m)
        <5>1. Entry(m) \in Entries
          BY <1>0, TreeOfTypes, EntryFacts
        <5> QED
          BY <1>0, <5>1, TreeOfTypes
      <4>2. PICK i \in DOMAIN stack : Lists(stack[i].todo, m)
        BY <3>3, <4>1 DEF Queued
      <4>3. i # n + 1
        BY <1>4, <1>6, <4>2 DEF Lists
      <4>4. i \in 1..n /\ stack'[i] = stack[i]
        BY <1>6, <4>3
      <4>5. PICK list : list = stack[i].todo
        OBVIOUS
      <4>6. Lists(list, m)'
        BY <1>1, <4>2, <4>5 DEF Lists
      <4> QED
        BY <1>6, <4>4, <4>5, <4>6 DEF AccountedFor, Queued
    <3> QED
      BY <2>2, <3>1, <3>2, <3>3 DEF AccountedFor
  <2>3. \A k \in W \ W : Scanned(k)' /\ MembersAccounted(k, W)'
    OBVIOUS
  <2>4. W \subseteq W
    OBVIOUS
  <2> QED
    BY <1>0, <1>2, <1>7, <2>1, <2>2, <2>3, <2>4, CoverKept
<1>12. InfectedIsReal'
  <2>1. IsReal(flag)
    BY <1>5 DEF IsReal, Report
  <2>2. \A i \in DOMAIN reports' : i \in DOMAIN reports \/ IsReal(reports'[i])
    BY <1>7, <2>1
  <2> QED
    BY <1>0, <1>7, <2>2, RealKept DEF ScanInv
<1> QED
  BY <1>9, <1>10, <1>11, <1>12 DEF ScanInv

LEMMA ScanInvStays ==
  ASSUME ScanInv, UNCHANGED vars
  PROVE  ScanInv'
<1> USE DEF vars
<1>0. SameJob /\ UNCHANGED <<pc, call, stack, budget, handed, reports, error>>
  BY DEF SameJob
<1>1. /\ Nodes' = Nodes /\ Entries' = Entries /\ Frames' = Frames /\ Reports' = Reports
      /\ Unflawed' = Unflawed
      /\ \A n : /\ Entry(n)' = Entry(n) /\ Below(n)' = Below(n) /\ Members(n)' = Members(n)
                /\ Data(n)' = Data(n)
      /\ \A c : OwnReport(c)' = OwnReport(c)
  BY <1>0, SameFile DEF SameJob
<1>2. ScanTypes'
  BY <1>1 DEF ScanInv, ScanTypes, NoCall, Budgets
<1>3. BudgetInv'
  BY DEF ScanInv, BudgetInv
<1>4. \A v : Of(v)' = Of(v)
  BY DEF Of
<1>5. \A n : Flagged(n)' <=> Flagged(n)
  BY <1>1, <1>4 DEF Flagged
<1>6. \A n : Queued(n)' <=> Queued(n)
  BY <1>1 DEF Queued, Lists
<1>7. \A n : Scanned(n)' <=> Scanned(n)
  BY <1>1 DEF Scanned
<1>8. CoverInv'
  <2>1. PICK W \in SUBSET Nodes : Covers(W)
    BY DEF ScanInv, CoverInv
  <2>2. \A n : AccountedFor(n, W)' <=> AccountedFor(n, W)
    BY <1>5, <1>6 DEF AccountedFor
  <2>3. Covers(W)'
    BY <1>1, <1>4, <1>7, <2>1, <2>2 DEF Covers, MembersAccounted, RootAccounted
  <2> QED
    BY <1>1, <2>3 DEF CoverInv
<1>9. InfectedIsReal'
  BY <1>1, <1>4 DEF ScanInv, InfectedIsReal
<1> QED
  BY <1>2, <1>3, <1>8, <1>9 DEF ScanInv

LEMMA ScanInvNext ==
  ASSUME ScanInv, [Next]_vars
  PROVE  ScanInv'
<1> USE DEF Next
<1>1. CASE PathError
  BY <1>1, PathErrorKeeps
<1>2. CASE SkipPath
  BY <1>2, SkipPathKeeps
<1>3. CASE Begin
  BY <1>3, BeginKeeps
<1>4. CASE ScanLeaf
  BY <1>4, ScanLeafKeeps
<1>5. CASE RefuseArchive
  BY <1>5, RefuseArchiveKeeps
<1>6. CASE OpenArchive
  BY <1>6, OpenArchiveKeeps
<1>7. CASE NextEntry
  BY <1>7, NextEntryKeeps
<1>8. CASE LeaveArchive
  BY <1>8, LeaveArchiveKeeps
<1>9. CASE Finish
  BY <1>9, FinishKeeps
<1>10. CASE UNCHANGED vars
  BY <1>10, ScanInvStays
<1> QED
  BY <1>1, <1>2, <1>3, <1>4, <1>5, <1>6, <1>7, <1>8, <1>9, <1>10

\* When a scan is done, a sound node was scanned in full or lies under what is flagged.
LEMMA SoundAreCovered ==
  ASSUME ScanTypes, pc = "done", NEW W \in SUBSET Nodes, Covers(W), ~error, reports # <<>>,
         Of("skipped") = {}
  PROVE  \A n \in Sound : n \in Nodes /\ (n \in W \/ \E i \in Of("limit") : n \in Below(reports[i].node))
<1> DEFINE T == {n \in Nodes : n \in W \/ \E i \in Of("limit") : n \in Below(reports[i].node)}
<1>1. IsFile /\ 1 \in Nodes /\ Unflawed \in SUBSET Nodes
  BY TreeOfTypes DEF Unflawed
<1>2. call = NoCall /\ stack = <<>>
  BY DEF ScanTypes
<1>3. ASSUME NEW n \in Nodes, AccountedFor(n, W) PROVE n \in T
  <2>1. Entry(n) \in Entries
    BY <1>1, EntryFacts
  <2>2. ~Queued(n)
    BY <1>2, <2>1, TreeOfTypes DEF Queued
  <2> QED
    BY <1>2, <1>3, <2>2 DEF AccountedFor, Flagged
<1>4. 1 \in T
  <2>1. AccountedFor(1, W)
    BY DEF Covers, RootAccounted
  <2> QED
    BY <1>1, <1>3, <2>1
<1>5. ASSUME NEW x \in Nodes, x \in T PROVE Unflawed \cap Range(Members(x)) \subseteq T
  <2>1. CASE x \in W
    <3>1. MembersAccounted(x, W)
      BY <2>1 DEF Covers
    <3> HIDE DEF T
    <3> QED
      BY <1>1, <1>3, <3>1 DEF MembersAccounted
  <2>2. CASE \E i \in Of("limit") : x \in Below(reports[i].node)
    <3>1. PICK i \in Of("limit") : x \in Below(reports[i].node)
      BY <2>2
    <3>2. reports[i].node \in Nodes
      <4>1. i \in 1..Len(reports)
        BY LenProperties DEF Of, ScanTypes
      <4>2. reports[i] \in Reports
        BY <4>1, ElementOfSeq DEF ScanTypes
      <4> QED
        BY <4>2 DEF Reports
    <3>3. Range(Members(x)) \subseteq Below(reports[i].node)
      BY <1>1, <3>1, <3>2, BelowClosed
    <3>4. Range(Members(x)) \subseteq Nodes
      BY <1>1 DEF IsFile
    <3> QED
      BY <3>3, <3>4
  <2> QED
    BY <1>5, <2>1, <2>2
<1> HIDE DEF T
<1>6. Sound \subseteq T
  BY <1>1, <1>4, <1>5, UnderInduction DEF Sound
<1> QED
  BY <1>6 DEF T

LEMMA SafeClean ==
  ASSUME ScanInv
  PROVE  SafeIsClean
<1> SUFFICES ASSUME pc = "done", ExitCode = 0, reports # <<>>, Of("skipped") = {}, NEW n \in Sound
             PROVE  ~Carries(Data(n))
  BY DEF SafeIsClean
<1>0. ScanTypes
  BY DEF ScanInv
<1>1. ~error /\ Of("infected") = {} /\ Of("limit") = {}
  BY DEF ExitCode
<1>2. PICK W \in SUBSET Nodes : Covers(W)
  BY DEF ScanInv, CoverInv
<1>3. n \in W /\ n \in Nodes
  BY <1>0, <1>1, <1>2, SoundAreCovered
<1>4. PICK i \in DOMAIN reports : reports[i] = OwnReport(Entry(n))
  BY <1>2, <1>3 DEF Covers, Scanned
<1>5. ~Detected(Entry(n))
  BY <1>1, <1>4 DEF Of, OwnReport, Report
<1>6. Data(n) \in Seq(Nat)
  BY <1>0, <1>3, TreeOfTypes DEF IsFile
<1>7. Buffer(Entry(n)) = SubSeq(Data(n), 1, Len(Data(n)))
  BY DEF Buffer, Entry
<1> QED
  BY <1>0, <1>5, <1>6, <1>7, CarriedIsDetected DEF Carries, Detected, ScanTypes

LEMMA CutIsFlagged ==
  ASSUME ScanInv
  PROVE  UnscannedIsFlagged
<1> SUFFICES ASSUME pc = "done", Of("skipped") = {}, ~error, reports # <<>>, NEW n \in Sound
             PROVE  \/ \E i \in DOMAIN reports : reports[i].node = n
                    \/ \E i \in Of("limit") : n \in Under(reports[i].node, Nodes)
  BY DEF UnscannedIsFlagged
<1>0. ScanTypes
  BY DEF ScanInv
<1>1. PICK W \in SUBSET Nodes : Covers(W)
  BY DEF ScanInv, CoverInv
<1>2. n \in W \/ \E i \in Of("limit") : n \in Below(reports[i].node)
  BY <1>0, <1>1, SoundAreCovered
<1>3. ASSUME n \in W PROVE \E i \in DOMAIN reports : reports[i].node = n
  <2>1. PICK i \in DOMAIN reports : reports[i] = OwnReport(Entry(n))
    BY <1>1, <1>3 DEF Covers, Scanned
  <2>2. OwnReport(Entry(n)).node = n
    BY DEF OwnReport, Report, Entry
  <2> QED
    BY <2>1, <2>2
<1> QED
  BY <1>2, <1>3 DEF Below

\* The scans of the composition are among those of Spec.
LEMMA ScanPart ==
  MCSpec => Spec
<1>1. MCInit => Init
  BY DEF MCInit, ScanInit, AtRest
<1>2. [MCNext]_<<part, vars, guard, update, daemon>> => [Next]_vars
  BY DEF MCNext
<1> QED
  BY <1>1, <1>2, PTL DEF MCSpec, Spec

\* Whatever the file, its nesting, the limits and the accepted database: exit code 0
\* with nothing skipped means that no member the decoders can read holds what a decided
\* pattern or a digest describes, and a member is reported infected only if a pattern
\* occurs in it or its first bytes have a digest of the database
\* (Scanner::scan_bytes, HexSignature::verify).
THEOREM ScanVerdictIsExact ==
  Spec => []VerdictIsExact
<1>1. Init => ScanInv
  BY ScanInvInit
<1>2. ScanInv /\ [Next]_vars => ScanInv'
  BY ScanInvNext
<1>3. ScanInv => VerdictIsExact
  BY SafeClean DEF VerdictIsExact, ScanInv
<1> QED
  BY <1>1, <1>2, <1>3, PTL DEF Spec

\* Whatever the file: the extractors hand out no more than max_total_uncompressed over
\* the whole recursion, no more than max_depth archives are open at one time, and a
\* sound member that was never scanned lies under a flagged archive (GuardBudget,
\* Scanner::scan_bytes).
THEOREM ScanLimitsHold ==
  Spec => []LimitsHold
<1>1. Init => ScanInv
  BY ScanInvInit
<1>2. ScanInv /\ [Next]_vars => ScanInv'
  BY ScanInvNext
<1>3. ScanInv => LimitsHold
  BY CutIsFlagged DEF LimitsHold, ScanInv, BudgetInv, HandedOutBounded, NestingBounded
<1> QED
  BY <1>1, <1>2, <1>3, PTL DEF Spec
=============================================================================
