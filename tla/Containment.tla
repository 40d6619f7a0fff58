---------------------------- MODULE Containment ----------------------------
(***************************************************************************)
(* The end of the pipeline: the orchestrator's loop takes one verdict at a *)
(* time through the review gate and the response policy, then blocks the   *)
(* host over nsm's control socket, rewrites rustwall's configuration and   *)
(* signals rustwall.  The orchestrator, nsm, rustwall and an operator who  *)
(* edits the same configuration are separate processes; a step ends where  *)
(* one of the others can act.                                              *)
(***************************************************************************)
EXTENDS Integers, Sequences, FiniteSets

CONSTANTS
    Hosts,
    Slash32,      \* per host h, the hosts that the alias entry "h/32" matches: for an
                  \* IPv6 host a whole network
    V4,           \* the hosts with an IPv4 address
    Allowlist,    \* ResponsePolicy.allowlist
    MaxActions,   \* max_actions_per_window
    Window,       \* window
    Capacity,     \* of the verdict channel
    Outcomes,     \* what nsm makes of a BLOCK of an IPv4 address
    EditKinds,    \* what an operator's edits may leave behind
    MaxVerdicts, MaxEdits, MaxClock,   \* bounds of the model, and of the number of
    MaxExits,                         \* exits of nsm and rustwall and
    MaxRestarts                       \* restarts of the orchestrator

\* An outcome of BlockOutcome, or the error of a full map.
BlockReplies == {"Blocked", "Allowlisted", "RateLimited", "Error"}

\* A file both programs accept, one only rustwall's validate rejects, no TOML.
FileKinds == {"valid", "rejected", "unparseable"}

ASSUME ContainmentAssumption ==
    /\ Slash32 \in [Hosts -> SUBSET Hosts]
    /\ \A h \in V4 : Slash32[h] = {h}
    /\ \A h \in Hosts : h \in Slash32[h]
    /\ \A h \in Hosts \ V4 : Slash32[h] \intersect V4 = {}
    /\ V4 \subseteq Hosts /\ Allowlist \subseteq Hosts
    /\ MaxActions \in Nat \ {0} /\ Window \in Nat \ {0} /\ Capacity \in Nat \ {0}
    /\ Outcomes \subseteq BlockReplies
    /\ EditKinds \subseteq FileKinds
    /\ {MaxVerdicts, MaxEdits, MaxExits, MaxRestarts, MaxClock} \subseteq Nat

VARIABLES
    clock,
    inbox,        \* the verdict channel: hosts
    task,         \* the loop of handle_verdicts: where it is and what it has found out
    confirmed,    \* confirmed_hosts
    actioned,     \* the keys of active_blocks
    recent,       \* recent_actions
    threats,      \* hosts tied to the known-threat anchor of the spectral graph
    nsm,          \* up; the hosts in its blocklist; the connection to it
    conf, tmp,    \* rustwall's configuration file and the temporary beside it
    wall,         \* rustwall: the rules in force, was the last file refused, a SIGHUP to
                  \* handle, still the known pid
    past          \* history: times of all actions, did the last one sync, bounds

containmentVars == <<clock, inbox, task, confirmed, actioned, recent, threats, nsm, conf, tmp, wall, past>>

Config == [alias: SUBSET Hosts, edit: Nat, kind: FileKinds]

NoFile == [alias |-> {}, edit |-> 0, kind |-> "unparseable"]

\* Who a configuration's asd_confirmed_malicious rule drops.
Dropped(config) == UNION {Slash32[h] : h \in config.alias}

\* Waiting for the next verdict.
AtReceive == [pc |-> "recv", host |-> "none", xdp |-> FALSE, fw |-> FALSE, doc |-> NoFile]

---------------------------------------------------------------------------
(* The verdict channel and the gates                                       *)

\* CorrelationEngine's try_send; a verdict for a full channel is dropped there.
Verdict(h) ==
    /\ past.verdicts < MaxVerdicts                           \* bound
    /\ inbox' = IF Len(inbox) < Capacity THEN Append(inbox, h) ELSE inbox
    /\ past' = [past EXCEPT !.verdicts = @ + 1]
    /\ UNCHANGED <<clock, task, confirmed, actioned, recent, threats, nsm, conf, tmp, wall>>

\* Mutant: every action counts for one instant only.
PrunedShort ==
    SubSeq(recent, Cardinality({i \in DOMAIN recent : recent[i] < clock}) + 1, Len(recent))

\* rate_limited: the actions still in the window.  They are kept in the order of their
\* times, so what retain leaves is the back of the list,
Pruned ==
    SubSeq(recent, Cardinality({i \in DOMAIN recent : clock - recent[i] >= Window}) + 1, Len(recent))

\* and whether they use up the limit.
RateLimited == Len(Pruned) >= MaxActions

\* The guards of ResponsePolicy::handle before the rate limit.
Withheld(h, severe) == ~severe \/ h \in Allowlist \/ h \in actioned

\* One verdict through handle_flow_prediction.  The gate clears it or queues it for
\* review (its label is never benign and its flow_id is new, so it is neither
\* dismissed nor refused); the policy withholds it or starts the action.
Receive(cleared, severe) ==
    /\ task.pc = "recv"
    /\ inbox # <<>>
    /\ inbox' = Tail(inbox)
    /\ \/ /\ ~cleared \/ Withheld(Head(inbox), severe)
          /\ UNCHANGED <<task, recent>>
       \/ /\ cleared /\ ~Withheld(Head(inbox), severe)
          /\ recent' = Pruned
          /\ task' = IF RateLimited THEN task
                     ELSE [task EXCEPT !.pc = "connect", !.host = Head(inbox)]
    /\ UNCHANGED <<clock, confirmed, actioned, threats, nsm, conf, tmp, wall, past>>

---------------------------------------------------------------------------
(* XDP enforcement over the control socket                                 *)

\* Mutant: a failed connection is tried again.
ConnectRetries ==
    /\ task.pc = "connect"
    /\ \/ /\ nsm.up
          /\ task' = [task EXCEPT !.pc = "await"]
          /\ nsm' = [nsm EXCEPT !.conn = "sent", !.closed = FALSE]
       \/ /\ ~nsm.up
          /\ UNCHANGED <<task, nsm>>
    /\ UNCHANGED <<clock, inbox, confirmed, actioned, recent, threats, conf, tmp, wall, past>>

\* round_trip: connects and writes the command, or fails when nobody listens.
Connect ==
    /\ task.pc = "connect"
    /\ \/ /\ nsm.up
          /\ task' = [task EXCEPT !.pc = "await"]
          /\ nsm' = [nsm EXCEPT !.conn = "sent", !.closed = FALSE]
       \/ /\ ~nsm.up
          /\ task' = [task EXCEPT !.pc = "load", !.xdp = FALSE]
          /\ UNCHANGED nsm
    /\ UNCHANGED <<clock, inbox, confirmed, actioned, recent, threats, conf, tmp, wall, past>>

\* nsm's connection task has read the line,
NsmRead ==
    /\ nsm.conn = "sent" /\ ~nsm.closed
    /\ nsm' = [nsm EXCEPT !.conn = "read"]
    /\ UNCHANGED <<clock, inbox, task, confirmed, actioned, recent, threats, conf, tmp, wall, past>>

\* What handle_control_command may answer: an IPv6 address does not parse.
Replies(h) == IF h \in V4 THEN Outcomes ELSE {"Error"}

\* and handles it.  It writes the reply and waits for the next line.
NsmReply ==
    /\ nsm.conn = "read" /\ ~nsm.closed
    /\ \E reply \in Replies(task.host) :
         nsm' = [nsm EXCEPT
                   !.conn = reply,
                   !.blocked = IF reply = "Blocked" THEN @ \union {task.host} ELSE @]
    /\ UNCHANGED <<clock, inbox, task, confirmed, actioned, recent, threats, conf, tmp, wall, past>>

\* A block ends with its TTL (XdpBlocklist has the details).
NsmLapse(h) ==
    /\ h \in nsm.blocked
    /\ nsm' = [nsm EXCEPT !.blocked = @ \ {h}]
    /\ UNCHANGED <<clock, inbox, task, confirmed, actioned, recent, threats, conf, tmp, wall, past>>

\* nsm exits or is killed: its connections are closed.
NsmExit ==
    /\ nsm.up
    /\ past.exits < MaxExits                                 \* bound
    /\ past' = [past EXCEPT !.exits = @ + 1]
    /\ nsm' = [nsm EXCEPT !.up = FALSE, !.closed = TRUE]
    /\ UNCHANGED <<clock, inbox, task, confirmed, actioned, recent, threats, conf, tmp, wall>>

\* It is started again, with its blocklist restored or, with no file for it, empty.
NsmStart ==
    /\ ~nsm.up
    /\ \E kept \in {nsm.blocked, {}} :
         nsm' = [nsm EXCEPT !.up = TRUE, !.blocked = kept]
    /\ UNCHANGED <<clock, inbox, task, confirmed, actioned, recent, threats, conf, tmp, wall, past>>

\* read_to_string returns when the connection is closed: with an error when the
\* command was never read, else with what had been written.  Any text that does
\* not begin with ERROR is a success, the empty one too.
ReadReply ==
    /\ task.pc = "await"
    /\ nsm.closed
    /\ task' = [task EXCEPT !.pc = "load", !.xdp = nsm.conn \notin {"sent", "Error"}]
    /\ nsm' = [nsm EXCEPT !.conn = "none"]
    /\ UNCHANGED <<clock, inbox, confirmed, actioned, recent, threats, conf, tmp, wall, past>>

---------------------------------------------------------------------------
(* Rule sync                                                               *)

\* upsert_alias and upsert_blocking_rule: the alias is replaced by the confirmed
\* hosts, the rest of the document stays.
Upserted(doc, hosts) == [doc EXCEPT !.alias = hosts]

\* The host is confirmed and the file loaded, or not: it may be no TOML.
LoadConfig ==
    /\ task.pc = "load"
    /\ confirmed' = confirmed \union {task.host}
    /\ task' = IF conf.kind = "unparseable"
               THEN [task EXCEPT !.pc = "record", !.fw = FALSE]
               ELSE [task EXCEPT !.pc = "write", !.doc = Upserted(conf, confirmed')]
    /\ UNCHANGED <<clock, inbox, actioned, recent, threats, nsm, conf, tmp, wall, past>>

WriteTmp ==
    /\ task.pc = "write"
    /\ tmp' = task.doc
    /\ task' = [task EXCEPT !.pc = "rename"]
    /\ UNCHANGED <<clock, inbox, confirmed, actioned, recent, threats, nsm, conf, wall, past>>

Rename ==
    /\ task.pc = "rename"
    /\ conf' = tmp
    /\ tmp' = NoFile
    /\ task' = [task EXCEPT !.pc = "signal"]
    /\ UNCHANGED <<clock, inbox, confirmed, actioned, recent, threats, nsm, wall, past>>

\* Mutant: the exit status of kill is not looked at.
SignalUnchecked ==
    /\ task.pc = "signal"
    /\ task' = [task EXCEPT !.pc = "record", !.fw = TRUE]
    /\ wall' = [wall EXCEPT !.hup = @ \/ wall.known]
    /\ UNCHANGED <<clock, inbox, confirmed, actioned, recent, threats, nsm, conf, tmp, past>>

\* kill -HUP reaches rustwall only while it has the pid of the configuration.
Signal ==
    /\ task.pc = "signal"
    /\ task' = [task EXCEPT !.pc = "record", !.fw = wall.known]
    /\ wall' = [wall EXCEPT !.hup = @ \/ wall.known]
    /\ UNCHANGED <<clock, inbox, confirmed, actioned, recent, threats, nsm, conf, tmp, past>>

\* The rest of execute, record_confirmed_threat, and of ResponsePolicy::handle.
Record ==
    /\ task.pc = "record"
    /\ task' = AtReceive
    /\ threats' = threats \union {task.host}
    /\ \/ /\ task.xdp \/ task.fw
          /\ recent' = Append(recent, clock)
          /\ actioned' = actioned \union {task.host}
          /\ past' = [past EXCEPT !.acts = Append(@, clock), !.synced = task.fw]
       \/ /\ ~task.xdp /\ ~task.fw
          /\ past' = [past EXCEPT !.synced = FALSE]
          /\ UNCHANGED <<recent, actioned>>
    /\ UNCHANGED <<clock, inbox, confirmed, nsm, conf, tmp, wall>>

---------------------------------------------------------------------------
(* rustwall, the operator, a restart of the orchestrator                   *)

\* The signal thread: Config::load, and the engine is replaced if that succeeds.
Reload ==
    /\ wall.hup
    /\ wall' = [wall EXCEPT !.hup = FALSE, !.refused = conf.kind # "valid",
                            !.rules = IF conf.kind = "valid" THEN conf ELSE @]
    /\ UNCHANGED <<clock, inbox, task, confirmed, actioned, recent, threats, nsm, conf, tmp, past>>

\* rustwall is restarted: it needs a valid file, and gets another pid.
WallRestart ==
    /\ past.exits < MaxExits                                 \* bound
    /\ conf.kind = "valid"
    /\ wall' = [rules |-> conf, refused |-> FALSE, hup |-> FALSE, known |-> FALSE]
    /\ past' = [past EXCEPT !.exits = @ + 1]
    /\ UNCHANGED <<clock, inbox, task, confirmed, actioned, recent, threats, nsm, conf, tmp>>

\* The operator changes another part of the file, in one write.
Edit(kind) ==
    /\ conf.edit < MaxEdits                                  \* bound
    /\ conf' = [conf EXCEPT !.edit = @ + 1, !.kind = kind]
    /\ UNCHANGED <<clock, inbox, task, confirmed, actioned, recent, threats, nsm, tmp, wall, past>>

\* The orchestrator's memory is gone.  nsm still handles a command it was sent.
OrchestratorRestart ==
    /\ past.restarts < MaxRestarts                           \* bound
    /\ past' = [past EXCEPT !.restarts = @ + 1, !.acts = <<>>, !.synced = FALSE]
    /\ inbox' = <<>> /\ task' = AtReceive
    /\ confirmed' = {} /\ actioned' = {} /\ recent' = <<>> /\ threats' = {}
    /\ \E more \in IF nsm.conn \in {"sent", "read"} /\ ~nsm.closed
                      /\ "Blocked" \in Replies(task.host)
                   THEN {{}, {task.host}} ELSE {{}} :
         nsm' = [nsm EXCEPT !.conn = "none", !.blocked = @ \union more]
    /\ UNCHANGED <<clock, conf, tmp, wall>>

ClockTick ==
    /\ clock < MaxClock                                     \* bound
    /\ clock' = clock + 1
    /\ UNCHANGED <<inbox, task, confirmed, actioned, recent, threats, nsm, conf, tmp, wall, past>>

---------------------------------------------------------------------------
ContainmentInit ==
    /\ clock = 0
    /\ inbox = <<>>
    /\ task = AtReceive
    /\ confirmed = {} /\ actioned = {} /\ recent = <<>> /\ threats = {}
    /\ nsm = [up |-> TRUE, blocked |-> {}, conn |-> "none", closed |-> FALSE]
    /\ conf = [alias |-> {}, edit |-> 0, kind |-> "valid"]
    /\ tmp = NoFile
    /\ wall = [rules |-> conf, refused |-> FALSE, hup |-> FALSE, known |-> TRUE]
    /\ past = [verdicts |-> 0, exits |-> 0, restarts |-> 0, acts |-> <<>>, synced |-> FALSE]

\* The steps of the orchestrator's task.
Step ==
    \/ \E cleared, severe \in BOOLEAN : Receive(cleared, severe)
    \/ Connect
    \/ ReadReply
    \/ LoadConfig
    \/ WriteTmp
    \/ Rename
    \/ Signal
    \/ Record

ContainmentNext ==
    \/ \E h \in Hosts : Verdict(h)
    \/ Step
    \/ NsmRead
    \/ NsmReply
    \/ \E h \in Hosts : NsmLapse(h)
    \/ NsmExit
    \/ NsmStart
    \/ Reload
    \/ WallRestart
    \/ \E kind \in EditKinds : Edit(kind)
    \/ OrchestratorRestart
    \/ ClockTick

ContainmentSpec == ContainmentInit /\ [][ContainmentNext]_containmentVars

\* The orchestrator's task, nsm's connection task and rustwall's signal thread run
\* whenever they can.
ContainmentFairness ==
    /\ WF_containmentVars(Step) /\ WF_containmentVars(NsmRead)
    /\ WF_containmentVars(NsmReply) /\ WF_containmentVars(Reload)

ContainmentFairSpec == ContainmentSpec /\ ContainmentFairness

---------------------------------------------------------------------------
(* Properties                                                              *)

\* Every variable has its type, and the policy never remembers more actions than a
\* window allows.
StateOK ==
    /\ clock \in 0..MaxClock
    /\ inbox \in Seq(Hosts) /\ Len(inbox) <= Capacity
    /\ task.pc \in {"recv", "connect", "await", "load", "write", "rename", "signal",
                    "record"}
    /\ task.pc # "recv" => task.host \in Hosts
    /\ task.xdp \in BOOLEAN /\ task.fw \in BOOLEAN /\ task.doc \in Config
    /\ confirmed \subseteq Hosts /\ actioned \subseteq Hosts /\ threats \subseteq Hosts
    /\ recent \in Seq(0..MaxClock) /\ Len(recent) <= MaxActions
    /\ nsm.blocked \subseteq Hosts
    /\ nsm.conn \in {"none", "sent", "read"} \union BlockReplies
    /\ conf \in Config /\ tmp \in Config /\ wall.rules \in Config


\* No block is ever of an allowlisted host: neither nsm nor rustwall's file and rules name
\* one.  What rustwall drops beyond the hosts it names are the IPv6 neighbours of an IPv6
\* host, which upsert_alias writes as a /32 too: an allowlisted host is dropped only if it
\* has such a neighbour among the confirmed hosts, and an IPv4 one never (the prefixes that
\* nsm blocks are XdpBlocklist's; ResponsePolicy::handle, upsert_alias).
AllowlistOnlyBeside ==
    LET named == conf.alias \union wall.rules.alias
    IN  \A h \in Allowlist :
          /\ h \notin nsm.blocked \union named
          /\ h \in Dropped(conf) \union Dropped(wall.rules)
               => h \notin V4 /\ \E g \in named \ (Allowlist \union V4) : h \in Slash32[g]

\* In the life of one orchestrator no window sees more actions than the limit,
\* although the times are pruned only when the limit is looked at, failed actions do
\* not count and an action's time is that of its end (ResponsePolicy::rate_limited).
ActionRate ==
    \A t \in 0..clock :
        Cardinality({i \in DOMAIN past.acts : past.acts[i] \in t..(t + Window - 1)})
            <= MaxActions

\* A successful sync is in force as soon as rustwall has handled its signals and
\* found the file valid, even when signals merge, rustwall is restarted or an operator
\* edits another part of the file meanwhile: the rename comes before the signal
\* (sync_confirmed_hosts, rustwall's signal thread).
SyncInForce ==
    past.synced /\ ~wall.hup /\ ~wall.refused /\ task.pc \notin {"signal", "record"}
        => wall.rules.alias = conf.alias

\* A verdict that is taken up is finished, whether nsm answers, refuses or is gone, the
\* file is broken or rustwall has another pid, unless the loop waits on a connection
\* that nsm keeps open (ContainmentExecutor::execute).
HandledUnlessNsmHolds ==
    task.pc # "recv" ~> (task.pc = "recv" \/ (task.pc = "await" /\ ~nsm.closed))

\* A verdict that is taken up is finished, so the next one has its turn.
HostsAreHandled ==
    \A h \in Hosts : (task.pc # "recv" /\ task.host = h) ~> (task.pc = "recv")

\* The policy's guards hold of what is done in the end, in nsm and in rustwall: no block is
\* of an allowlisted host, such a host is dropped only beside an IPv6 host that is blocked,
\* and no window sees too many actions (ResponsePolicy).
PolicyHolds == StateOK /\ AllowlistOnlyBeside /\ ActionRate

\* What a sync wrote is in force and stays: nothing that comes later, sync or edit,
\* takes a host out of the perimeter's alias that this orchestrator has confirmed
\* (sync_confirmed_hosts).
SyncHolds ==
    [][SyncInForce' /\ (conf.alias \intersect confirmed) \subseteq conf'.alias]_containmentVars
=============================================================================
