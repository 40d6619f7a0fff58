--------------------------- MODULE BoundedChannel ---------------------------
(***************************************************************************)
(* What rustwall's channel promises its users, each call taking effect at  *)
(* one moment: a first-in first-out buffer with a hard ceiling, senders    *)
(* that come and go, a receiver that may go away.  A call fails only for   *)
(* the reason its result gives.                                            *)
(***************************************************************************)
EXTENDS Integers, Sequences

CONSTANTS
    Senders,    \* handles that may exist
    Items,
    Capacity    \* max_elements of bounded

VARIABLES
    queue,      \* items accepted and not yet received
    tx,         \* the sender handles that exist
    rx,         \* the receiver: "open", "closing" while its drop runs, "closed"
    sent,       \* per sender, the result of its last send
    got         \* the result of the last receive

vars == <<queue, tx, rx, sent, got>>

SendResults == {"None", "Ok", "Full", "Timeout", "Disconnected"}

\* What a receive returns: at most one item, and why there is none.
NoItem(why) == [item |-> <<>>, why |-> why]

Accept(s, item) ==
    /\ s \in tx
    /\ rx # "closed"
    /\ Len(queue) < Capacity
    /\ queue' = Append(queue, item)
    /\ sent' = [sent EXCEPT ![s] = "Ok"]
    /\ UNCHANGED <<tx, rx, got>>

Refuse(s, why) ==
    /\ s \in tx
    /\ \/ why = "Disconnected" /\ rx # "open"
       \/ why \in {"Full", "Timeout"} /\ Len(queue) >= Capacity
    /\ sent' = [sent EXCEPT ![s] = why]
    /\ UNCHANGED <<queue, tx, rx, got>>

Receive ==
    /\ rx = "open"
    /\ queue # <<>>
    /\ got' = [item |-> <<Head(queue)>>, why |-> "Ok"]
    /\ queue' = Tail(queue)
    /\ UNCHANGED <<tx, rx, sent>>

ReceiveNone(why) ==
    /\ rx = "open"
    /\ queue = <<>>
    /\ \/ why = "Disconnected" /\ tx = {}
       \/ why = "Empty" /\ tx # {}
    /\ got' = NoItem(why)
    /\ UNCHANGED <<queue, tx, rx, sent>>

Clone(s, t) ==
    /\ s \in tx /\ t \notin tx
    /\ tx' = tx \union {t}
    /\ UNCHANGED <<queue, rx, sent, got>>

DropSender(s) ==
    /\ s \in tx
    /\ tx' = tx \ {s}
    /\ UNCHANGED <<queue, rx, sent, got>>

DropReceiver ==
    /\ \/ rx = "open" /\ rx' = "closing"
       \/ rx = "closing" /\ rx' = "closed"
    /\ UNCHANGED <<queue, tx, sent, got>>

Init ==
    /\ queue = <<>>
    /\ \E s \in Senders : tx = {s}
    /\ rx = "open"
    /\ sent = [s \in Senders |-> "None"]
    /\ got = NoItem("None")

Next ==
    \/ \E s \in Senders, item \in Items : Accept(s, item)
    \/ \E s \in Senders, why \in SendResults : Refuse(s, why)
    \/ Receive
    \/ \E why \in {"Empty", "Disconnected"} : ReceiveNone(why)
    \/ \E s, t \in Senders : Clone(s, t)
    \/ \E s \in Senders : DropSender(s)
    \/ DropReceiver

Spec == Init /\ [][Next]_vars
=============================================================================
