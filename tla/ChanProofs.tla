----------------------------- MODULE ChanProofs -----------------------------
(***************************************************************************)
(* Theorems about Chan, for any number of senders, any capacity and with   *)
(* or without spurious wakeups.                                            *)
(***************************************************************************)
EXTENDS Chan, FiniteSetTheorems, TLAPS

---------------------------------------------------------------------------
(* Type correctness                                                        *)

\* What stands for no call is a call of the right type.
LEMMA NoCallType == NoCall \in [mode: Modes, item: Items, expired: BOOLEAN]
<1>1. (CHOOSE item \in Items : TRUE) \in Items
  BY ChanAssumption
<1> QED
  BY <1>1 DEF NoCall, Modes

\* Each step of a sender keeps the types, the capacity and the lock's owner.
LEMMA SenderType ==
    ASSUME TypeOK, NEW s \in Senders,
           \/ \E mode \in Modes, item \in Items : Call(s, mode, item)
           \/ SenderStep(s)
           \/ Expire(s)
           \/ WakeSender(s)
           \/ \E t \in Senders : CloneSender(s, t)
           \/ DropSender(s)
    PROVE  TypeOK'
<1> USE ChanAssumption DEF TypeOK
<1>1. ASSUME NEW mode \in Modes, NEW item \in Items, Call(s, mode, item) PROVE TypeOK'
  BY <1>1 DEF Call
<1>2. CASE CheckAlive(s)
  BY <1>2, NoCallType DEF CheckAlive
<1>3. CASE Push(s)
  BY <1>3, NoCallType DEF Push, Room
<1>4. CASE GiveUp(s)
  BY <1>4, NoCallType DEF GiveUp
<1>5. CASE Park(s)
  BY <1>5 DEF Park
<1>6. CASE NotifyNotEmpty(s)
  BY <1>6 DEF NotifyNotEmpty, Notified
<1>7. CASE LastSender(s)
  BY <1>7 DEF LastSender, Notified
<1>8. CASE Expire(s)
  BY <1>8 DEF Expire
<1>9. CASE WakeSender(s)
  BY <1>9 DEF WakeSender
<1>10. ASSUME NEW t \in Senders, CloneSender(s, t) PROVE TypeOK'
  BY <1>10 DEF CloneSender
<1>11. CASE DropSender(s)
  BY <1>11 DEF DropSender
<1> QED
  BY <1>1, <1>2, <1>3, <1>4, <1>5, <1>6, <1>7, <1>8, <1>9, <1>10, <1>11 DEF SenderStep

\* Each step of the receiver does.
LEMMA ReceiverType ==
    ASSUME TypeOK,
           \/ \E recv \in BOOLEAN : RecvCall(recv)
           \/ ReceiverStep
           \/ WakeReceiver
           \/ DropReceiver
    PROVE  TypeOK'
<1> USE ChanAssumption DEF TypeOK
<1>1. ASSUME NEW recv \in BOOLEAN, RecvCall(recv) PROVE TypeOK'
  BY <1>1 DEF RecvCall
<1>2. CASE Pop
  BY <1>2 DEF Pop
<1>3. CASE CheckSenders
  BY <1>3 DEF CheckSenders
<1>4. CASE ParkReceiver
  BY <1>4 DEF ParkReceiver
<1>5. CASE NotifyNotFull
  BY <1>5 DEF NotifyNotFull, WokenSenders, ParkedSenders
<1>6. CASE Close
  BY <1>6 DEF Close
<1>7. CASE WakeReceiver
  BY <1>7 DEF WakeReceiver
<1>8. CASE DropReceiver
  BY <1>8 DEF DropReceiver
<1> QED
  BY <1>1, <1>2, <1>3, <1>4, <1>5, <1>6, <1>7, <1>8 DEF ReceiverStep

\* Every reachable state is well-typed, the queue never exceeds its ceiling and the
\* lock has the owner the threads' positions say.
THEOREM ChanTypeCorrect == Spec => []TypeOK
<1>1. Init => TypeOK
  BY ChanAssumption, NoCallType DEF Init, TypeOK, Modes
<1>2. TypeOK /\ [Next]_vars => TypeOK'
  <2> SUFFICES ASSUME TypeOK, [Next]_vars PROVE TypeOK'
    OBVIOUS
  <2>1. CASE UNCHANGED vars
    BY <2>1 DEF vars, TypeOK
  <2>2. CASE Finished
    BY <2>1, <2>2 DEF Finished
  <2> QED
    BY <2>1, <2>2, SenderType, ReceiverType DEF Next
<1> QED
  BY <1>1, <1>2, PTL DEF Spec

---------------------------------------------------------------------------
(* Who is where                                                            *)

\* Positions, count and flag agree: a handle is counted until its drop begins, the
\* flag is down from the receiver's drop on, and nobody who found it up is still
\* in the critical section when the drop is done.
Consistent ==
    /\ \A s \in Senders : s \in tx <=> spc[s] \notin {"none", "dropping"}
    /\ alive <=> rpc \notin {"closing", "closed"}
    /\ rpc = "closed" => \A s \in Senders : spc[s] # "checked"

\* A sender's steps preserve Consistent.
LEMMA SenderConsistent ==
    ASSUME TypeOK, Consistent, NEW s \in Senders,
           \/ \E mode \in Modes, item \in Items : Call(s, mode, item)
           \/ SenderStep(s)
           \/ Expire(s)
           \/ WakeSender(s)
           \/ \E t \in Senders : CloneSender(s, t)
           \/ DropSender(s)
    PROVE  Consistent'
<1> USE DEF TypeOK, Consistent
<1>1. ASSUME NEW mode \in Modes, NEW item \in Items, Call(s, mode, item) PROVE Consistent'
  BY <1>1 DEF Call
<1>2. CASE CheckAlive(s)
  BY <1>2 DEF CheckAlive
<1>3. CASE Push(s)
  BY <1>3 DEF Push
<1>4. CASE GiveUp(s)
  BY <1>4 DEF GiveUp
<1>5. CASE Park(s)
  BY <1>5 DEF Park
<1>6. CASE NotifyNotEmpty(s)
  BY <1>6 DEF NotifyNotEmpty, Notified
<1>7. CASE LastSender(s)
  BY <1>7 DEF LastSender, Notified
<1>8. CASE Expire(s)
  BY <1>8 DEF Expire
<1>9. CASE WakeSender(s)
  BY <1>9 DEF WakeSender
<1>10. ASSUME NEW t \in Senders, CloneSender(s, t) PROVE Consistent'
  BY <1>10 DEF CloneSender
<1>11. CASE DropSender(s)
  BY <1>11 DEF DropSender
<1> QED
  BY <1>1, <1>2, <1>3, <1>4, <1>5, <1>6, <1>7, <1>8, <1>9, <1>10, <1>11 DEF SenderStep

\* The receiver's steps preserve Consistent.
LEMMA ReceiverConsistent ==
    ASSUME TypeOK, Consistent,
           \/ \E recv \in BOOLEAN : RecvCall(recv)
           \/ ReceiverStep
           \/ WakeReceiver
           \/ DropReceiver
    PROVE  Consistent'
<1> USE ChanAssumption DEF TypeOK, Consistent
<1>1. ASSUME NEW recv \in BOOLEAN, RecvCall(recv) PROVE Consistent'
  BY <1>1 DEF RecvCall
<1>2. CASE Pop
  BY <1>2 DEF Pop
<1>3. CASE CheckSenders
  BY <1>3 DEF CheckSenders
<1>4. CASE ParkReceiver
  BY <1>4 DEF ParkReceiver
<1>5. CASE NotifyNotFull
  BY <1>5 DEF NotifyNotFull, WokenSenders, ParkedSenders
<1>6. CASE Close
  BY <1>6 DEF Close
<1>7. CASE WakeReceiver
  BY <1>7 DEF WakeReceiver
<1>8. CASE DropReceiver
  BY <1>8 DEF DropReceiver
<1> QED
  BY <1>1, <1>2, <1>3, <1>4, <1>5, <1>6, <1>7, <1>8 DEF ReceiverStep

\* Positions, count and flag agree in every reachable state.
THEOREM AlwaysConsistent == Spec => []Consistent
<1>1. Init => Consistent
  BY DEF Init, Consistent
<1>2. TypeOK /\ Consistent /\ [Next]_vars => Consistent'
  <2> SUFFICES ASSUME TypeOK, Consistent, [Next]_vars PROVE Consistent'
    OBVIOUS
  <2>1. CASE UNCHANGED vars
    BY <2>1 DEF vars, Consistent
  <2>2. CASE Finished
    BY <2>1, <2>2 DEF Finished
  <2> QED
    BY <2>1, <2>2, SenderConsistent, ReceiverConsistent DEF Next
<1> QED
  BY <1>1, <1>2, ChanTypeCorrect, PTL DEF Spec

---------------------------------------------------------------------------
(* The receiver's wakeups                                                  *)

\* The receiver never sleeps through an item or through the end of the senders
\* (recv, send's notify after the unlock, the last sender's notify under the lock).
THEOREM NoLostWakeup == Spec => []ReceiverWillWake
<1> DEFINE Inv ==
      /\ ReceiverWillWake
      /\ rpc = "checked" => /\ queue = <<>>
                            /\ tx = {} => \E s \in Senders : spc[s] = "dropping"
<1>1. Init => Inv
  BY DEF Init, ReceiverWillWake
<1>2. TypeOK /\ Consistent /\ Inv /\ [Next]_vars => Inv'
  <2> SUFFICES ASSUME TypeOK, Consistent, Inv, [Next]_vars PROVE Inv'
    OBVIOUS
  <2> USE ChanAssumption DEF TypeOK, Consistent, ReceiverWillWake
  <2>1. ASSUME NEW s \in Senders, NEW mode \in Modes, NEW item \in Items,
               Call(s, mode, item)
        PROVE  Inv'
    BY <2>1 DEF Call
  <2>2. ASSUME NEW s \in Senders, CheckAlive(s) PROVE Inv'
    BY <2>2 DEF CheckAlive
  <2>3. ASSUME NEW s \in Senders, Push(s) PROVE Inv'
    <3>1. lock = s /\ rpc # "checked"
      BY <2>3 DEF Push
    <3>2. spc'[s] = "notify" /\ rpc' = rpc /\ tx' = tx
      BY <2>3 DEF Push
    <3>3. \A t \in Senders : spc[t] = "dropping" => spc'[t] = "dropping"
      BY <2>3 DEF Push
    <3> QED
      BY <3>1, <3>2, <3>3
  <2>4. ASSUME NEW s \in Senders, GiveUp(s) PROVE Inv'
    BY <2>4 DEF GiveUp
  <2>5. ASSUME NEW s \in Senders, Park(s) PROVE Inv'
    BY <2>5 DEF Park
  <2>6. ASSUME NEW s \in Senders, NotifyNotEmpty(s) PROVE Inv'
    BY <2>6 DEF NotifyNotEmpty, Notified
  <2>7. ASSUME NEW s \in Senders, LastSender(s) PROVE Inv'
    BY <2>7 DEF LastSender, Notified
  <2>8. ASSUME NEW s \in Senders, Expire(s) PROVE Inv'
    BY <2>8 DEF Expire
  <2>9. ASSUME NEW s \in Senders, WakeSender(s) PROVE Inv'
    BY <2>9 DEF WakeSender
  <2>10. ASSUME NEW s \in Senders, NEW t \in Senders, CloneSender(s, t) PROVE Inv'
    BY <2>10 DEF CloneSender
  <2>11. ASSUME NEW s \in Senders, DropSender(s) PROVE Inv'
    BY <2>11 DEF DropSender
  <2>12. ASSUME NEW recv \in BOOLEAN, RecvCall(recv) PROVE Inv'
    BY <2>12 DEF RecvCall
  <2>13. CASE Pop
    BY <2>13 DEF Pop
  <2>14. CASE CheckSenders
    BY <2>14 DEF CheckSenders
  <2>15. CASE ParkReceiver
    BY <2>15 DEF ParkReceiver
  <2>16. CASE NotifyNotFull
    BY <2>16 DEF NotifyNotFull
  <2>17. CASE Close
    BY <2>17 DEF Close
  <2>18. CASE WakeReceiver
    BY <2>18 DEF WakeReceiver
  <2>19. CASE DropReceiver
    BY <2>19 DEF DropReceiver
  <2>20. CASE UNCHANGED vars
    BY <2>20 DEF vars
  <2>21. CASE Finished
    BY <2>20, <2>21 DEF Finished
  <2> QED
    BY <2>1, <2>2, <2>3, <2>4, <2>5, <2>6, <2>7, <2>8, <2>9, <2>10, <2>11, <2>12,
       <2>13, <2>14, <2>15, <2>16, <2>17, <2>18, <2>19, <2>20, <2>21
       DEF Next, SenderStep, ReceiverStep
<1>3. Inv => ReceiverWillWake
  OBVIOUS
<1> QED
  BY <1>1, <1>2, <1>3, ChanTypeCorrect, AlwaysConsistent, PTL DEF Spec

---------------------------------------------------------------------------
(* The senders' wakeups                                                    *)

\* What the counting argument needs of the set of the senders that look at the
\* queue: it is finite, and it grows and shrinks by the sender that moved.
LEMMA LookingCounts ==
    ASSUME TypeOK, TypeOK'
    PROVE  /\ Cardinality(Looking) \in Nat /\ Cardinality(Looking)' \in Nat
           /\ Looking \subseteq Looking' => Cardinality(Looking) <= Cardinality(Looking)'
           /\ \A s \in Senders :
                /\ s \in Looking /\ Looking' = Looking \ {s}
                     => Cardinality(Looking)' = Cardinality(Looking) - 1
                /\ s \notin Looking /\ Looking' = Looking \union {s}
                     => Cardinality(Looking)' = Cardinality(Looking) + 1
<1>1. IsFiniteSet(Senders)
  BY ChanAssumption
<1>2. Looking \in SUBSET Senders /\ Looking' \in SUBSET Senders
  BY DEF Looking
<1>3. IsFiniteSet(Looking) /\ IsFiniteSet(Looking')
  BY <1>1, <1>2, FS_Subset
<1>4. Cardinality(Looking) \in Nat /\ Cardinality(Looking') \in Nat
  BY <1>3, FS_CardinalityType
<1>5. Looking \subseteq Looking' => Cardinality(Looking) <= Cardinality(Looking')
  BY <1>3, FS_Subset
<1>6. ASSUME NEW s \in Senders, s \in Looking
      PROVE  Cardinality(Looking \ {s}) = Cardinality(Looking) - 1
  BY <1>3, <1>6, FS_RemoveElement
<1>7. ASSUME NEW s \in Senders, s \notin Looking
      PROVE  Cardinality(Looking \union {s}) = Cardinality(Looking) + 1
  BY <1>3, <1>7, FS_AddElement
<1> QED
  BY <1>4, <1>5, <1>6, <1>7

\* Steps that leave queue, flag and receiver alone, wake or call senders and park
\* none, keep the senders' wakeups.
LEMMA MoreLooking ==
    ASSUME TypeOK, TypeOK', SendersWillWake,
           UNCHANGED <<queue, alive, rpc>>,
           Looking \subseteq Looking',
           ParkedSenders' \subseteq ParkedSenders
    PROVE  SendersWillWake'
<1>1. Cardinality(Looking) \in Nat /\ Cardinality(Looking)' \in Nat
      /\ Cardinality(Looking) <= Cardinality(Looking)'
  BY LookingCounts
<1>2. Capacity \in Nat /\ Len(queue) \in Nat
  BY ChanAssumption DEF TypeOK
<1>3. CASE ParkedSenders' = {}
  BY <1>3 DEF SendersWillWake
<1>4. CASE ParkedSenders' # {}
  <2>1. ParkedSenders # {}
    BY <1>4
  <2>2. rpc # "closed" /\ (alive => Capacity - Len(queue)
            <= Cardinality(Looking) + (IF rpc = "notify" THEN 1 ELSE 0))
    BY <2>1 DEF SendersWillWake
  <2> QED
    BY <1>1, <1>2, <2>2 DEF SendersWillWake
<1> QED
  BY <1>3, <1>4

\* No sender sleeps beside a free slot, and none sleeps when the receiver is gone:
\* notify_one wakes one sender for each pop and notify_all all of them at the end,
\* which is enough for any number of senders and any capacity.
THEOREM NoSenderForgotten == Spec => []SendersWillWake
<1>1. Init => SendersWillWake
  BY DEF Init, SendersWillWake, ParkedSenders
<1>2. TypeOK /\ TypeOK' /\ Consistent /\ SendersWillWake /\ [Next]_vars => SendersWillWake'
  <2> SUFFICES ASSUME TypeOK, TypeOK', Consistent, SendersWillWake, [Next]_vars
               PROVE  SendersWillWake'
    OBVIOUS
  <2>0. Capacity \in Nat /\ Len(queue) \in Nat /\ Len(queue)' \in Nat
    BY ChanAssumption DEF TypeOK
  <2>1. ASSUME NEW s \in Senders, NEW mode \in Modes, NEW item \in Items,
               Call(s, mode, item)
        PROVE  SendersWillWake'
    BY <2>1, MoreLooking DEF Call, Looking, ParkedSenders, TypeOK
  <2>2. ASSUME NEW s \in Senders, CheckAlive(s) PROVE SendersWillWake'
    <3>1. CASE alive
      BY <2>2, <3>1, MoreLooking DEF CheckAlive, Looking, ParkedSenders, TypeOK
    <3>2. CASE ~alive
      <4>1. ParkedSenders' \subseteq ParkedSenders /\ rpc' = rpc /\ alive' = alive
        BY <2>2, <3>2 DEF CheckAlive, ParkedSenders, TypeOK
      <4> QED
        BY <3>2, <4>1 DEF SendersWillWake
    <3> QED
      BY <3>1, <3>2 DEF TypeOK
  <2>3. ASSUME NEW s \in Senders, Push(s) PROVE SendersWillWake'
    <3>1. /\ Len(queue)' = Len(queue) + 1
          /\ rpc' = rpc /\ alive' = alive
          /\ ParkedSenders' = ParkedSenders
          /\ s \in Looking /\ Looking' = Looking \ {s}
      BY <2>3 DEF Push, ParkedSenders, Looking, TypeOK
    <3>2. Cardinality(Looking) \in Nat /\ Cardinality(Looking)' = Cardinality(Looking) - 1
      BY <3>1, LookingCounts
    <3>3. CASE ParkedSenders = {}
      BY <3>1, <3>3 DEF SendersWillWake
    <3>4. CASE ParkedSenders # {}
      <4>1. rpc # "closed" /\ (alive => Capacity - Len(queue)
                <= Cardinality(Looking) + (IF rpc = "notify" THEN 1 ELSE 0))
        BY <3>4 DEF SendersWillWake
      <4>2. alive' => Capacity - Len(queue)'
                <= Cardinality(Looking)' + (IF rpc' = "notify" THEN 1 ELSE 0)
        BY <2>0, <3>1, <3>2, <4>1
      <4> QED
        BY <3>1, <4>1, <4>2 DEF SendersWillWake
    <3> QED
      BY <3>3, <3>4
  <2>4. ASSUME NEW s \in Senders, GiveUp(s) \/ Park(s) PROVE SendersWillWake'
    <3>1. Capacity - Len(queue)' <= 0
      BY <2>0, <2>4 DEF GiveUp, Park, Room
    <3>2. Cardinality(Looking)' \in Nat
      BY LookingCounts
    <3>3. rpc' # "closed"
      BY <2>4 DEF GiveUp, Park, Consistent
    <3> QED
      BY <2>0, <3>1, <3>2, <3>3 DEF SendersWillWake
  <2>5. ASSUME NEW s \in Senders, NotifyNotEmpty(s) \/ LastSender(s) PROVE SendersWillWake'
    <3>1. /\ queue' = queue /\ alive' = alive
          /\ rpc' = "closed" => rpc = "closed"
          /\ rpc = "notify" => rpc' = "notify"
      BY <2>5 DEF NotifyNotEmpty, LastSender, Notified
    <3>2. Looking' = Looking /\ ParkedSenders' = ParkedSenders
      BY <2>5 DEF NotifyNotEmpty, LastSender, Looking, ParkedSenders, TypeOK
    <3>3. Cardinality(Looking) \in Nat
      BY LookingCounts
    <3> QED
      BY <2>0, <3>1, <3>2, <3>3 DEF SendersWillWake
  <2>6. ASSUME NEW s \in Senders, Expire(s) PROVE SendersWillWake'
    BY <2>6, MoreLooking DEF Expire, Looking, ParkedSenders, TypeOK
  <2>7. ASSUME NEW s \in Senders, WakeSender(s) PROVE SendersWillWake'
    BY <2>7, MoreLooking DEF WakeSender, Looking, ParkedSenders, TypeOK
  <2>8. ASSUME NEW s \in Senders, NEW t \in Senders, CloneSender(s, t)
        PROVE  SendersWillWake'
    BY <2>8, MoreLooking DEF CloneSender, Looking, ParkedSenders, TypeOK
  <2>9. ASSUME NEW s \in Senders, DropSender(s) PROVE SendersWillWake'
    BY <2>9, MoreLooking DEF DropSender, Looking, ParkedSenders, TypeOK
  <2>10. ASSUME RecvCall(TRUE) \/ RecvCall(FALSE) \/ CheckSenders \/ ParkReceiver
                \/ WakeReceiver
         PROVE  SendersWillWake'
    <3>1. /\ queue' = queue /\ alive' = alive /\ spc' = spc
          /\ rpc' # "closed" /\ rpc # "notify"
      BY <2>10 DEF RecvCall, CheckSenders, ParkReceiver, WakeReceiver
    <3>2. Looking' = Looking /\ ParkedSenders' = ParkedSenders
      BY <3>1 DEF Looking, ParkedSenders
    <3>3. Cardinality(Looking) \in Nat
      BY LookingCounts
    <3> QED
      BY <2>0, <3>1, <3>2, <3>3 DEF SendersWillWake
  <2>11. CASE Pop
    <3>1. /\ Len(queue)' = Len(queue) - 1 /\ alive' = alive
          /\ rpc # "notify" /\ rpc' = "notify"
      BY <2>11 DEF Pop, TypeOK
    <3>2. Looking' = Looking /\ ParkedSenders' = ParkedSenders
      BY <2>11 DEF Pop, Looking, ParkedSenders
    <3>3. Cardinality(Looking) \in Nat
      BY LookingCounts
    <3> QED
      BY <2>0, <3>1, <3>2, <3>3 DEF SendersWillWake
  <2>12. CASE NotifyNotFull
    <3>1. /\ queue' = queue /\ alive' = alive /\ rpc = "notify" /\ rpc' = "idle"
      BY <2>12 DEF NotifyNotFull
    <3>2. PICK woken \in WokenSenders :
            spc' = [s \in Senders |-> IF s \in woken THEN "calling" ELSE spc[s]]
      BY <2>12 DEF NotifyNotFull
    <3>3. CASE ParkedSenders = {}
      <4>1. ParkedSenders' = {}
        BY <3>2, <3>3 DEF WokenSenders, ParkedSenders
      <4> QED
        BY <4>1 DEF SendersWillWake
    <3>4. CASE ParkedSenders # {}
      <4>1. PICK s \in ParkedSenders : woken = {s}
        BY <3>2, <3>4 DEF WokenSenders
      <4>2. s \in Senders /\ s \notin Looking /\ Looking' = Looking \union {s}
        BY <3>2, <4>1 DEF ParkedSenders, Looking, TypeOK
      <4>3. /\ Cardinality(Looking) \in Nat
            /\ Cardinality(Looking)' = Cardinality(Looking) + 1
        BY <4>2, LookingCounts
      <4>4. alive => Capacity - Len(queue) <= Cardinality(Looking) + 1
        BY <3>1, <3>4 DEF SendersWillWake
      <4> QED
        BY <2>0, <3>1, <4>3, <4>4 DEF SendersWillWake
    <3> QED
      BY <3>3, <3>4
  <2>13. CASE Close
    <3>1. ParkedSenders' = {}
      BY <2>13 DEF Close, ParkedSenders
    <3> QED
      BY <3>1 DEF SendersWillWake
  <2>14. CASE DropReceiver
    <3>1. alive' = FALSE /\ rpc' = "closing"
      BY <2>14 DEF DropReceiver
    <3> QED
      BY <3>1 DEF SendersWillWake
  <2>15. CASE UNCHANGED vars
    BY <2>15, MoreLooking DEF vars, Looking, ParkedSenders
  <2>16. CASE Finished
    BY <2>15, <2>16 DEF Finished
  <2> QED
    BY <2>1, <2>2, <2>3, <2>4, <2>5, <2>6, <2>7, <2>8, <2>9, <2>10, <2>11, <2>12,
       <2>13, <2>14, <2>15, <2>16 DEF Next, SenderStep, ReceiverStep
<1> QED
  BY <1>1, <1>2, ChanTypeCorrect, AlwaysConsistent, PTL DEF Spec

---------------------------------------------------------------------------
(* The channel implements its abstract specification                       *)

\* A sender's step is a step of BoundedChannel or changes nothing it sees: the push
\* accepts, the flag found down and the full queue refuse.
LEMMA SenderRefines ==
    ASSUME TypeOK, Consistent, NEW s \in Senders,
           \/ \E mode \in Modes, item \in Items : Call(s, mode, item)
           \/ SenderStep(s)
           \/ Expire(s)
           \/ WakeSender(s)
           \/ \E t \in Senders : CloneSender(s, t)
           \/ DropSender(s)
    PROVE  [Abstract!Next]_Abstract!vars
<1> USE ChanAssumption
<1>1. ASSUME NEW mode \in Modes, NEW item \in Items, Call(s, mode, item)
      PROVE  UNCHANGED Abstract!vars
  BY <1>1 DEF Call, Abstract!vars, Rx
<1>2. CASE CheckAlive(s)
  <2>1. CASE alive
    BY <1>2, <2>1 DEF CheckAlive, Abstract!vars, Rx
  <2>2. CASE ~alive
    <3>1. Abstract!Refuse(s, "Disconnected")
      BY <1>2, <2>2 DEF CheckAlive, Abstract!Refuse, Rx, Consistent, TypeOK
    <3> QED
      BY <3>1 DEF Abstract!Next, Abstract!SendResults
  <2> QED
    BY <2>1, <2>2 DEF TypeOK
<1>3. CASE Push(s)
  <2>1. call[s].item \in Items
    BY DEF TypeOK
  <2>2. Abstract!Accept(s, call[s].item)
    BY <1>3 DEF Push, Room, Abstract!Accept, Rx, Consistent, TypeOK
  <2> QED
    BY <2>1, <2>2 DEF Abstract!Next
<1>4. CASE GiveUp(s)
  <2> DEFINE why == IF call[s].mode = "try_send" THEN "Full" ELSE "Timeout"
  <2>1. Abstract!Refuse(s, why)
    BY <1>4 DEF GiveUp, Room, Abstract!Refuse, Rx, Consistent, TypeOK
  <2>2. why \in Abstract!SendResults
    BY DEF Abstract!SendResults
  <2> QED
    BY <2>1, <2>2 DEF Abstract!Next
<1>5. CASE Park(s)
  BY <1>5 DEF Park, Abstract!vars, Rx
<1>6. CASE NotifyNotEmpty(s)
  BY <1>6 DEF NotifyNotEmpty, Notified, Abstract!vars, Rx
<1>7. CASE LastSender(s)
  BY <1>7 DEF LastSender, Notified, Abstract!vars, Rx
<1>8. CASE Expire(s)
  BY <1>8 DEF Expire, Abstract!vars, Rx
<1>9. CASE WakeSender(s)
  BY <1>9 DEF WakeSender, Abstract!vars, Rx
<1>10. ASSUME NEW t \in Senders, CloneSender(s, t) PROVE Abstract!Clone(s, t)
  BY <1>10 DEF CloneSender, Abstract!Clone, Rx, Consistent, TypeOK
<1>11. CASE DropSender(s)
  <2>1. Abstract!DropSender(s)
    BY <1>11 DEF DropSender, Abstract!DropSender, Rx, Consistent, TypeOK
  <2> QED
    BY <2>1 DEF Abstract!Next
<1>12. (\E t \in Senders : CloneSender(s, t)) => Abstract!Next
  BY <1>10 DEF Abstract!Next
<1> QED
  BY <1>1, <1>2, <1>3, <1>4, <1>5, <1>6, <1>7, <1>8, <1>9, <1>11, <1>12 DEF SenderStep

\* So is a step of the receiver: the pop receives, a look at an empty queue receives
\* nothing, and its drop has the two steps of BoundedChannel's.
LEMMA ReceiverRefines ==
    ASSUME TypeOK, Consistent,
           \/ \E recv \in BOOLEAN : RecvCall(recv)
           \/ ReceiverStep
           \/ WakeReceiver
           \/ DropReceiver
    PROVE  [Abstract!Next]_Abstract!vars
<1>1. ASSUME NEW recv \in BOOLEAN, RecvCall(recv) PROVE UNCHANGED Abstract!vars
  BY <1>1 DEF RecvCall, Abstract!vars, Rx
<1>2. CASE Pop
  <2>1. Abstract!Receive
    BY <1>2 DEF Pop, Abstract!Receive, Rx
  <2> QED
    BY <2>1 DEF Abstract!Next
<1>3. CASE CheckSenders
  <2>1. CASE tx = {}
    <3>1. Abstract!ReceiveNone("Disconnected")
      BY <1>3, <2>1 DEF CheckSenders, Abstract!ReceiveNone, Rx, NoItem, Abstract!NoItem
    <3> QED
      BY <3>1 DEF Abstract!Next
  <2>2. CASE tx # {} /\ ~blocking
    <3>1. Abstract!ReceiveNone("Empty")
      BY <1>3, <2>2 DEF CheckSenders, Abstract!ReceiveNone, Rx, NoItem, Abstract!NoItem
    <3> QED
      BY <3>1 DEF Abstract!Next
  <2>3. CASE tx # {} /\ blocking
    BY <1>3, <2>3 DEF CheckSenders, Abstract!vars, Rx
  <2> QED
    BY <2>1, <2>2, <2>3 DEF TypeOK
<1>4. CASE ParkReceiver
  BY <1>4 DEF ParkReceiver, Abstract!vars, Rx
<1>5. CASE NotifyNotFull
  BY <1>5 DEF NotifyNotFull, Abstract!vars, Rx
<1>6. CASE Close \/ DropReceiver
  <2>1. Abstract!DropReceiver
    BY <1>6 DEF Close, DropReceiver, Abstract!DropReceiver, Rx
  <2> QED
    BY <2>1 DEF Abstract!Next
<1>7. CASE WakeReceiver
  BY <1>7 DEF WakeReceiver, Abstract!vars, Rx
<1> QED
  BY <1>1, <1>2, <1>3, <1>4, <1>5, <1>6, <1>7 DEF ReceiverStep

\* The mutex, the condition variables and the two atomics give their users a
\* BoundedChannel: every call of chan.rs takes effect at one moment, items leave in
\* the order they entered, none is lost or doubled, and a call fails only for the
\* reason it returns.
THEOREM ChanImplementsBoundedChannel == Spec => Linearizable
<1>1. Init => Abstract!Init
  BY DEF Init, Abstract!Init, Rx, NoItem, Abstract!NoItem
<1>2. TypeOK /\ Consistent /\ [Next]_vars => [Abstract!Next]_Abstract!vars
  <2> SUFFICES ASSUME TypeOK, Consistent, [Next]_vars
               PROVE  [Abstract!Next]_Abstract!vars
    OBVIOUS
  <2>1. CASE UNCHANGED vars
    BY <2>1 DEF vars, Abstract!vars, Rx
  <2>2. CASE Finished
    BY <2>1, <2>2 DEF Finished
  <2> QED
    BY <2>1, <2>2, SenderRefines, ReceiverRefines DEF Next
<1> QED
  BY <1>1, <1>2, ChanTypeCorrect, AlwaysConsistent, PTL DEF Spec, Linearizable, Abstract!Spec
=============================================================================
