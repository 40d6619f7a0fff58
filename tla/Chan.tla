-------------------------------- MODULE Chan --------------------------------
(***************************************************************************)
(* rustwall's bounded channel: a mutex around a queue, two condition       *)
(* variables, an atomic count of senders and an atomic flag for the        *)
(* receiver.  The count and the flag change outside the mutex, so a call   *)
(* that has read one of them may act on an old value; a step here ends     *)
(* where another thread can get in between.  A thread in a critical        *)
(* section of one step never shows as the lock's owner.                    *)
(***************************************************************************)
EXTENDS Integers, Sequences, FiniteSets

CONSTANTS
    Senders,    \* handles that may exist, each used by a thread of its own
    Items,
    Capacity,   \* max_elements of bounded
    Spurious,   \* may a wait return without a notification?
    MaxCalls    \* bound of the model: calls of the send functions and spurious wakeups

ASSUME ChanAssumption ==
    /\ IsFiniteSet(Senders) /\ Senders # {}
    /\ Items # {}
    /\ "none" \notin Senders /\ "rx" \notin Senders
    /\ Capacity \in Nat \ {0}
    /\ Spurious \in BOOLEAN
    /\ MaxCalls \in Nat

VARIABLES
    lock,       \* who holds the mutex from one step to the next
    queue,
    tx,         \* sender_count, as the set of the handles it counts
    alive,      \* receiver_alive
    spc,        \* per sender, where its thread is
    call,       \* per sender, its call: which one, the item, deadline passed
    rpc,        \* where the receiver's thread is
    blocking,   \* the receiver's call is recv, not try_recv
    sent, got,  \* results, as in BoundedChannel
    calls       \* number of calls and spurious wakeups so far

vars == <<lock, queue, tx, alive, spc, call, rpc, blocking, sent, got, calls>>

NoItem(why) == [item |-> <<>>, why |-> why]

Modes == {"send", "try_send", "send_timeout"}

\* A sender with no call, or none whose item it still has.
NoCall == [mode |-> "send", item |-> CHOOSE item \in Items : TRUE, expired |-> FALSE]

\* Waiting on a condition variable.
ParkedSenders == {s \in Senders : spc[s] = "parked"}

---------------------------------------------------------------------------
(* Senders                                                                 *)

Call(s, mode, item) ==
    /\ spc[s] = "idle"
    /\ calls < MaxCalls                                      \* bound
    /\ calls' = calls + 1
    /\ spc' = [spc EXCEPT ![s] = "calling"]
    /\ call' = [call EXCEPT ![s] = [mode |-> mode, item |-> item, expired |-> FALSE]]
    /\ UNCHANGED <<lock, queue, tx, alive, rpc, blocking, sent, got>>

\* The lock is taken, at the start of the call or by a wait that returns, and the
\* flag is read.
CheckAlive(s) ==
    /\ spc[s] = "calling"
    /\ lock = "none"
    /\ \/ /\ alive
          /\ lock' = s
          /\ spc' = [spc EXCEPT ![s] = "checked"]
          /\ UNCHANGED <<sent, call>>
       \/ /\ ~alive
          /\ spc' = [spc EXCEPT ![s] = "idle"]
          /\ sent' = [sent EXCEPT ![s] = "Disconnected"]
          /\ call' = [call EXCEPT ![s] = NoCall]
          /\ UNCHANGED lock
    /\ UNCHANGED <<queue, tx, alive, rpc, blocking, got, calls>>

\* Mutant: off by one.
RoomLate == Len(queue) <= Capacity

Room == Len(queue) < Capacity

Push(s) ==
    /\ spc[s] = "checked"
    /\ Room
    /\ queue' = Append(queue, call[s].item)
    /\ lock' = "none"
    /\ spc' = [spc EXCEPT ![s] = "notify"]
    /\ call' = [call EXCEPT ![s] = NoCall]
    /\ sent' = [sent EXCEPT ![s] = "Ok"]
    /\ UNCHANGED <<tx, alive, rpc, blocking, got, calls>>

\* A full queue ends try_send, and send_timeout past its deadline.
GiveUp(s) ==
    /\ spc[s] = "checked"
    /\ ~Room
    /\ call[s].mode = "try_send" \/ call[s].expired
    /\ lock' = "none"
    /\ spc' = [spc EXCEPT ![s] = "idle"]
    /\ sent' = [sent EXCEPT ![s] =
                  IF call[s].mode = "try_send" THEN "Full" ELSE "Timeout"]
    /\ call' = [call EXCEPT ![s] = NoCall]
    /\ UNCHANGED <<queue, tx, alive, rpc, blocking, got, calls>>

\* not_full.wait or wait_timeout: releases the lock and sleeps, in one.
Park(s) ==
    /\ spc[s] = "checked"
    /\ ~Room
    /\ call[s].mode # "try_send" /\ ~call[s].expired
    /\ lock' = "none"
    /\ spc' = [spc EXCEPT ![s] = "parked"]
    /\ UNCHANGED <<queue, tx, alive, call, rpc, blocking, sent, got, calls>>

\* The deadline of a send_timeout passes; a wait returns then.
Expire(s) ==
    /\ spc[s] \in {"calling", "checked", "parked"}
    /\ call[s].mode = "send_timeout" /\ ~call[s].expired
    /\ call' = [call EXCEPT ![s].expired = TRUE]
    /\ spc' = [spc EXCEPT ![s] = IF @ = "parked" THEN "calling" ELSE @]
    /\ UNCHANGED <<lock, queue, tx, alive, rpc, blocking, sent, got, calls>>

WakeSender(s) ==
    /\ Spurious
    /\ spc[s] = "parked"
    /\ calls < MaxCalls                                      \* bound
    /\ calls' = calls + 1
    /\ spc' = [spc EXCEPT ![s] = "calling"]
    /\ UNCHANGED <<lock, queue, tx, alive, call, rpc, blocking, sent, got>>

\* Where not_empty.notify_one leaves the receiver.
Notified(pc) == IF pc = "parked" THEN "receiving" ELSE pc

\* Mutant: the notification is left out when the queue was not empty before.
NotifyNotEmptyFirst(s) ==
    /\ spc[s] = "notify"
    /\ spc' = [spc EXCEPT ![s] = "idle"]
    /\ rpc' = IF Len(queue) = 1 THEN Notified(rpc) ELSE rpc
    /\ UNCHANGED <<lock, queue, tx, alive, call, blocking, sent, got, calls>>

\* After the lock is released.
NotifyNotEmpty(s) ==
    /\ spc[s] = "notify"
    /\ spc' = [spc EXCEPT ![s] = "idle"]
    /\ rpc' = Notified(rpc)
    /\ UNCHANGED <<lock, queue, tx, alive, call, blocking, sent, got, calls>>

CloneSender(s, t) ==
    /\ spc[s] = "idle" /\ spc[t] = "none"
    /\ tx' = tx \union {t}
    /\ spc' = [spc EXCEPT ![t] = "idle"]
    /\ UNCHANGED <<lock, queue, alive, call, rpc, blocking, sent, got, calls>>

\* The count goes down; the last sender has more to do.
DropSender(s) ==
    /\ spc[s] = "idle"
    /\ tx' = tx \ {s}
    /\ spc' = [spc EXCEPT ![s] = IF tx = {s} THEN "dropping" ELSE "none"]
    /\ UNCHANGED <<lock, queue, alive, call, rpc, blocking, sent, got, calls>>

\* Mutant: the last sender notifies without the lock.
LastSenderUnlocked(s) ==
    /\ spc[s] = "dropping"
    /\ spc' = [spc EXCEPT ![s] = "none"]
    /\ rpc' = Notified(rpc)
    /\ UNCHANGED <<lock, queue, tx, alive, call, blocking, sent, got, calls>>

\* It takes the lock and wakes the receiver.
LastSender(s) ==
    /\ spc[s] = "dropping"
    /\ lock = "none"
    /\ spc' = [spc EXCEPT ![s] = "none"]
    /\ rpc' = Notified(rpc)
    /\ UNCHANGED <<lock, queue, tx, alive, call, blocking, sent, got, calls>>

---------------------------------------------------------------------------
(* The receiver                                                            *)

\* recv, try_recv; the iterator's next is recv.
RecvCall(recv) ==
    /\ rpc = "idle"
    /\ rpc' = "receiving"
    /\ blocking' = recv
    /\ UNCHANGED <<lock, queue, tx, alive, spc, call, sent, got, calls>>

Pop ==
    /\ rpc = "receiving"
    /\ lock = "none"
    /\ queue # <<>>
    /\ queue' = Tail(queue)
    /\ got' = [item |-> <<Head(queue)>>, why |-> "Ok"]
    /\ rpc' = "notify"
    /\ UNCHANGED <<lock, tx, alive, spc, call, blocking, sent, calls>>

\* Nothing to pop: the count is read under the lock.
CheckSenders ==
    /\ rpc = "receiving"
    /\ lock = "none"
    /\ queue = <<>>
    /\ \/ /\ tx = {}
          /\ rpc' = "idle"
          /\ got' = NoItem("Disconnected")
          /\ UNCHANGED lock
       \/ /\ tx # {} /\ ~blocking
          /\ rpc' = "idle"
          /\ got' = NoItem("Empty")
          /\ UNCHANGED lock
       \/ /\ tx # {} /\ blocking
          /\ rpc' = "checked"
          /\ lock' = "rx"
          /\ UNCHANGED got
    /\ UNCHANGED <<queue, tx, alive, spc, call, blocking, sent, calls>>

\* not_empty.wait
ParkReceiver ==
    /\ rpc = "checked"
    /\ rpc' = "parked"
    /\ lock' = "none"
    /\ UNCHANGED <<queue, tx, alive, spc, call, blocking, sent, got, calls>>

WakeReceiver ==
    /\ Spurious
    /\ rpc = "parked"
    /\ calls < MaxCalls                                      \* bound
    /\ calls' = calls + 1
    /\ rpc' = "receiving"
    /\ UNCHANGED <<lock, queue, tx, alive, spc, call, blocking, sent, got>>

\* Mutant: a sender is woken only when the queue was full before the pop.
WokenSendersIfFull ==
    IF ParkedSenders = {} \/ Len(queue) + 1 < Capacity
    THEN {{}} ELSE {{s} : s \in ParkedSenders}

\* The senders that not_full.notify_one may wake: one, if any waits.
WokenSenders ==
    IF ParkedSenders = {} THEN {{}} ELSE {{s} : s \in ParkedSenders}

\* not_full.notify_one, after the lock is released.
NotifyNotFull ==
    /\ rpc = "notify"
    /\ rpc' = "idle"
    /\ \E woken \in WokenSenders :
         spc' = [s \in Senders |-> IF s \in woken THEN "calling" ELSE spc[s]]
    /\ UNCHANGED <<lock, queue, tx, alive, call, blocking, sent, got, calls>>

\* Drop: the flag first,
DropReceiver ==
    /\ rpc = "idle"
    /\ alive' = FALSE
    /\ rpc' = "closing"
    /\ UNCHANGED <<lock, queue, tx, spc, call, blocking, sent, got, calls>>

\* then, with the lock, not_full.notify_all.
Close ==
    /\ rpc = "closing"
    /\ lock = "none"
    /\ rpc' = "closed"
    /\ spc' = [s \in Senders |-> IF spc[s] = "parked" THEN "calling" ELSE spc[s]]
    /\ UNCHANGED <<lock, queue, tx, alive, call, blocking, sent, got, calls>>

---------------------------------------------------------------------------
Init ==
    /\ lock = "none"
    /\ queue = <<>>
    /\ \E s \in Senders :
         /\ tx = {s}
         /\ spc = [t \in Senders |-> IF t = s THEN "idle" ELSE "none"]
    /\ alive = TRUE
    /\ call = [s \in Senders |-> NoCall]
    /\ rpc = "idle"
    /\ blocking = TRUE
    /\ sent = [s \in Senders |-> "None"]
    /\ got = NoItem("None")
    /\ calls = 0

SenderStep(s) ==
    \/ CheckAlive(s)
    \/ Push(s)
    \/ GiveUp(s)
    \/ Park(s)
    \/ NotifyNotEmpty(s)
    \/ LastSender(s)

ReceiverStep ==
    \/ Pop
    \/ CheckSenders
    \/ ParkReceiver
    \/ NotifyNotFull
    \/ Close

\* Every handle is gone: the program may stop.
Finished ==
    /\ rpc = "closed"
    /\ \A s \in Senders : spc[s] = "none"
    /\ UNCHANGED vars

Next ==
    \/ \E s \in Senders :
         \/ \E mode \in Modes, item \in Items : Call(s, mode, item)
         \/ SenderStep(s)
         \/ Expire(s)
         \/ WakeSender(s)
         \/ \E t \in Senders : CloneSender(s, t)
         \/ DropSender(s)
    \/ \E recv \in BOOLEAN : RecvCall(recv)
    \/ ReceiverStep
    \/ WakeReceiver
    \/ DropReceiver
    \/ Finished

Spec == Init /\ [][Next]_vars

\* A thread that can take its next step takes it, and the receiver's thread calls
\* recv again when a call has returned (the loop of sync_worker::spawn).
Fairness ==
    /\ \A s \in Senders : WF_vars(SenderStep(s))
    /\ WF_vars(ReceiverStep)
    /\ WF_vars(RecvCall(TRUE))

FairSpec == Spec /\ Fairness

---------------------------------------------------------------------------
(* Properties                                                              *)

\* Every variable has its type, the queue keeps within max_elements, and a thread
\* between two steps of a critical section is the one that holds the lock.
TypeOK ==
    /\ lock \in Senders \union {"none", "rx"}
    /\ queue \in Seq(Items) /\ Len(queue) <= Capacity
    /\ tx \subseteq Senders
    /\ alive \in BOOLEAN
    /\ spc \in [Senders -> {"none", "idle", "calling", "checked", "parked", "notify",
                            "dropping"}]
    /\ call \in [Senders -> [mode: Modes, item: Items, expired: BOOLEAN]]
    /\ rpc \in {"idle", "receiving", "checked", "parked", "notify", "closing",
                "closed"}
    /\ blocking \in BOOLEAN
    /\ sent \in [Senders -> {"None", "Ok", "Full", "Timeout", "Disconnected"}]
    /\ calls \in Nat
    /\ \A s \in Senders : spc[s] = "checked" <=> lock = s
    /\ rpc = "checked" <=> lock = "rx"

\* The receiver never sleeps through its reason to wake up: while it waits, an
\* item in the queue, or the end of the last sender, still has its notification
\* to come (Sender::send, Drop for Sender, Receiver::recv).
ReceiverWillWake ==
    rpc = "parked" =>
        /\ queue # <<>> => \E s \in Senders : spc[s] = "notify"
        /\ tx = {} => \E s \in Senders : spc[s] = "dropping"

\* Threads that are about to look at the queue again.
Looking == {s \in Senders : spc[s] \in {"calling", "checked"}}

\* No sender sleeps beside a free slot: while one waits and the receiver is there,
\* each free slot has a sender on its way to take it or a notification to come,
\* although notify_one wakes one sender only, another may take its slot and a
\* deadline may pass meanwhile.  When the receiver is gone nobody waits.
SendersWillWake ==
    ParkedSenders # {} =>
        /\ rpc # "closed"
        /\ alive => Capacity - Len(queue)
                        <= Cardinality(Looking) + (IF rpc = "notify" THEN 1 ELSE 0)

\* The receiver as BoundedChannel sees it.
Rx == IF rpc \in {"closing", "closed"} THEN rpc ELSE "open"

Abstract == INSTANCE BoundedChannel WITH rx <- Rx

\* The channel is a BoundedChannel: every call takes effect at one moment between
\* its start and its end, a push, a pop, a look at a full or an empty queue.
Linearizable == Abstract!Spec

\* A burst of calls ends: every call returns when the receiver goes on receiving
\* or goes away, and a sender that is dropped is gone (no wakeup is lost, no two
\* threads wait for each other).
CallsReturn ==
    \A s \in Senders : spc[s] \in {"calling", "dropping"} ~> spc[s] \in {"idle", "none"}

\* recv returns once every sender is gone.
ReceiverSeesTheEnd ==
    (rpc = "parked" /\ tx = {}) ~> (rpc \notin {"parked", "receiving", "checked"})

\* No one is stuck: every call of a sender returns, and the receiver of a channel whose
\* senders are gone comes to its end (Chan::send, recv and the drop of either side).
NoOneStuck == CallsReturn /\ ReceiverSeesTheEnd
=============================================================================
