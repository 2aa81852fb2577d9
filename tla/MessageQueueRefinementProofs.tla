-------------------- MODULE MessageQueueRefinementProofs --------------------
(***************************************************************************)
(* MessageQueue implements QueueContract, for all constants: each step is  *)
(* a step of the contract or changes nothing the contract sees.            *)
(***************************************************************************)
EXTENDS MessageQueueRefinement, MessageQueueProofs

\* The handlers that touch neither the list nor the thread are subscriptions, a
\* stop, or invisible.
LEMMA OuterStep ==
    ASSUME TypeOK, Subscriptions \/ Administration, UNCHANGED coreVars
    PROVE  Contract!Stop \/ Contract!Subscription \/ UNCHANGED Contract!vars
<1> USE DEF coreVars, listVars, threadVars, messageVars, history, StillOwed
<1>1. CASE Subscriptions
  <2>1. UNCHANGED KeepRunning
    BY <1>1 DEF Subscriptions, SubscribeToQueueQuery, SubscribeToQueue,
                UnsubscribeFromQueue, Disconnect, RmServer_OnDisconnected, serverVars
  <2>2. subscribers' \subseteq Connections
    BY <1>1 DEF Subscriptions, SubscribeToQueueQuery, SubscribeToQueue,
                UnsubscribeFromQueue, Disconnect, RmServer_OnDisconnected,
                TypeOK, OuterTypeOK
  <2> QED
    BY <2>1, <2>2 DEF Contract!Subscription
<1>2. CASE Administration
  <2>1. UNCHANGED subscribers
    BY <1>2 DEF Administration, EnqueueMessage, PurgeQueue, DeleteQueue,
                DeleteQueue_Joined, Stop, StopQueue, StopQueue_Joined
  <2>2. KeepRunning' = FALSE \/ UNCHANGED KeepRunning
    BY <1>2 DEF Administration, EnqueueMessage, PurgeQueue, DeleteQueue,
                DeleteQueue_Joined, Stop, StopQueue, StopQueue_Joined, serverVars
  <2> QED
    BY <2>1, <2>2 DEF Contract!Stop, Contract!vars
<1> QED
  BY <1>1, <1>2

\* EnqueueMessage and PurgeQueue.
LEMMA ListStep ==
    ASSUME TypeOK, EnqueueMessage \/ PurgeQueue
    PROVE  Contract!Accept \/ Contract!Purge
<1> USE DEF threadVars, messageVars, history, serverVars, StillOwed
<1>1. CASE EnqueueMessage
  <2>1. TotalEnqueuedMessages' \in Messages
    BY <1>1, ListFacts, ConstantsAssumption DEF EnqueueMessage, Messages
  <2> QED
    BY <1>1, <2>1 DEF EnqueueMessage, Contract!Accept
<1>2. CASE PurgeQueue
  BY <1>2 DEF PurgeQueue, Contract!Purge
<1> QED
  BY <1>1, <1>2

\* Between offers, the recorded satisfied subscribers are those the contract
\* calls settled.
LEMMA SatisfiedIsSettled ==
    ASSUME TypeOK, Budget, Acknowledged, pc \in {"Loop", "Remove"},
           NEW m \in Messages, NEW c \in Connections
    PROVE  c \in satisfied[m] <=> Contract!Settled(m, c)
<1>1. c \in satisfied[m] => Contract!Settled(m, c)
  BY DEF Acknowledged, Settled, Contract!Settled
<1>2. c \in delivered[m] => c \in satisfied[m]
  BY DEF Acknowledged
<1>3. ASSUME MaxDeliveryAttempts > 0, calls[m][c] >= MaxDeliveryAttempts
      PROVE  c \in satisfied[m]
  <2>1. calls[m][c] \in Nat /\ attempts[m][c] \in Nat
    BY ConstantsAssumption DEF TypeOK, CoreTypeOK
  <2>2. c \notin satisfied[m] => /\ attempts[m][c] < MaxDeliveryAttempts
                                 /\ calls[m][c] = attempts[m][c]
    BY <1>3, <2>1 DEF Budget, Open
  <2> QED
    BY <1>3, <2>1, <2>2, ConstantsAssumption
<1> QED
  BY <1>1, <1>2, <1>3 DEF Contract!Settled

\* Scan is the beginning of a round, or an expiration.
LEMMA ScanStep ==
    ASSUME IInv, Scan
    PROVE  Contract!Take \/ Contract!Expire
<1> USE DEF IInv
<1>1. /\ pc = "Loop" /\ KeepRunning /\ topMessage = 0
      /\ successfulDeliveryAndConsume = FALSE
      /\ UNCHANGED <<successfulDeliveryAndConsume, subscriber>>
  BY DEF Scan, ThreadState, InFlight, Consumed, TypeOK, CoreTypeOK
<1>2. pc' # "Query"
  BY DEF Scan
<1>3. Contract!DropExpired
  <2>1. messages' \in IF Expires THEN Contract!Sublists(messages) ELSE {messages}
    BY DEF Scan, Sublists, Places, Contract!Sublists, Contract!Places
  <2> QED
    BY <1>1, <1>2, <2>1 DEF Scan, serverVars, history, Contract!DropExpired
<1>4. CASE pc' = "Deliver"
  <2>1. /\ subscribers # {} /\ messages' # <<>> /\ topMessage' = Head(messages')
    BY <1>1, <1>4 DEF Scan
  <2>2. topMessage' \in Messages /\ yetToBeDelivered' = subscribers \ satisfied[topMessage']
    BY <1>4, ScanTakesHead
  <2>3. yetToBeDelivered' = { c \in subscribers : ~Contract!Settled(topMessage', c) }
    <3>1. \A c \in subscribers : c \in Connections
      BY DEF TypeOK, OuterTypeOK
    <3>2. \A c \in subscribers :
             c \in satisfied[topMessage'] <=> Contract!Settled(topMessage', c)
      BY <1>1, <2>2, <3>1, SatisfiedIsSettled
    <3> QED
      BY <2>2, <3>2
  <2>4. StillOwed' = yetToBeDelivered'
    BY <1>1 DEF StillOwed
  <2> QED
    BY <1>3, <2>1, <2>3, <2>4 DEF Contract!Take
<1>5. CASE pc' # "Deliver"
  <2>1. UNCHANGED <<topMessage, yetToBeDelivered>>
    BY <1>5 DEF Scan
  <2> QED
    BY <1>1, <1>3, <2>1 DEF Contract!Expire, StillOwed
<1> QED
  BY <1>4, <1>5

\* DeliverMessage is an offer.
LEMMA OfferStep ==
    ASSUME IInv, NEW c \in Connections, DeliverMessage(c)
    PROVE  Contract!Offer(c)
<1>1. topMessage # 0 /\ pc = "Deliver" /\ pc' = "Query" /\ subscriber' = c
  BY DEF IInv, DeliverMessage, ThreadState, InFlight
<1>2. ~(FirstConsumed /\ successfulDeliveryAndConsume)
  BY DEF IInv, DeliverMessage, Consumed
<1>3. /\ StillOwed = yetToBeDelivered /\ c \in StillOwed
      /\ StillOwed' = yetToBeDelivered \ {c}
  BY <1>2 DEF DeliverMessage, StillOwed
<1> QED
  BY <1>1, <1>3 DEF DeliverMessage, Contract!Offer, Bump,
                    serverVars, listVars

\* A reply is an acknowledgement, a failure the end of the offer.
LEMMA ReplyStep ==
    ASSUME IInv,
           DeliveryFailed \/ \E consumed \in BOOLEAN : DeliveryReplied(consumed)
    PROVE  Contract!Fail \/ \E consumed \in BOOLEAN : Contract!Acknowledge(consumed)
<1>1. pc = "Query" /\ pc' # "Query" /\ subscriber # NoConnection
  BY DEF IInv, ThreadState, DeliveryFailed, DeliveryReplied
<1>2. CASE DeliveryFailed
  BY <1>1, <1>2 DEF DeliveryFailed, Contract!Fail, StillOwed, serverVars, listVars,
                    history
<1>3. ASSUME NEW b \in BOOLEAN, DeliveryReplied(b)
      PROVE  Contract!Acknowledge(b)
  <2>1. StillOwed' = IF FirstConsumed /\ b THEN {} ELSE StillOwed
    BY <1>1, <1>3 DEF IInv, Consumed, DeliveryReplied, StillOwed
  <2> QED
    BY <1>1, <1>3, <2>1 DEF DeliveryReplied, Contract!Acknowledge, serverVars, listVars
<1> QED
  BY <1>2, <1>3

\* The record of the outcome is invisible; an abandoned one ends the round.
LEMMA RecordStep ==
    ASSUME IInv, DeliverySettled \/ DeliveryAbandoned \/ DeliverDone \/ LoopExit
    PROVE  Contract!GiveUp \/ UNCHANGED Contract!vars
<1> USE DEF serverVars, listVars, history, StillOwed
<1>1. CASE DeliverySettled
  <2>1. pc = "Delivered" /\ pc' = "Deliver"
    BY <1>1 DEF DeliverySettled
  <2>2. UNCHANGED StillOwed
    BY <1>1 DEF DeliverySettled
  <2> QED
    BY <1>1, <2>1, <2>2 DEF DeliverySettled, Contract!vars
<1>2. CASE DeliveryAbandoned
  BY <1>2 DEF IInv, ThreadState, InFlight, DeliveryAbandoned, EndIteration,
              Contract!GiveUp
<1>3. CASE DeliverDone
  BY <1>3 DEF IInv, ThreadState, InFlight, DeliverDone, EndIteration,
              Contract!GiveUp, Contract!vars
<1>4. CASE LoopExit
  BY <1>4 DEF LoopExit, Contract!vars
<1> QED
  BY <1>1, <1>2, <1>3, <1>4

\* RemoveMessage ends the round: it removes the message in hand, which is first in
\* the list if it is there at all, exactly when the contract says it is done.
LEMMA RemoveStep ==
    ASSUME IInv, RemoveMessage
    PROVE  Contract!Finish
<1> USE DEF IInv
<1>1. /\ pc = "Remove" /\ pc' = "Loop" /\ topMessage # 0 /\ topMessage \in Messages
      /\ yetToBeDelivered = {} /\ StillOwed = {}
  BY InHand DEF RemoveMessage, ThreadState, InFlight, StillOwed
<1>2. topMessage' = 0 /\ StillOwed' = {}
  BY DEF RemoveMessage, EndIteration, StillOwed
<1>3. ShouldRemove <=> Contract!Done(topMessage)
  <2>1. FirstConsumed => (successfulDeliveryAndConsume <=> consumedBy[topMessage] # {})
    BY <1>1 DEF Consumed, InFlight
  <2>2. \A c \in subscribers : c \in Connections
    BY DEF TypeOK, OuterTypeOK
  <2>3. \A c \in subscribers :
           c \in satisfied[topMessage] <=> Contract!Settled(topMessage, c)
    BY <1>1, <2>2, SatisfiedIsSettled
  <2>4. YetToBeDelivered(topMessage) = {}
           <=> \A c \in subscribers : Contract!Settled(topMessage, c)
    BY <2>3 DEF YetToBeDelivered
  <2> QED
    BY <2>1, <2>4 DEF ShouldRemove, Contract!Done
<1>4. RemoveFirst(messages, topMessage) =
         IF messages # <<>> /\ Head(messages) = topMessage THEN Tail(messages)
                                                           ELSE messages
  <2>1. /\ messages \in Seq(Messages) /\ Len(messages) \in Nat
        /\ DOMAIN messages = 1..Len(messages)
        /\ \A i \in 1..Len(messages) : messages[i] \in Nat
        /\ topMessage \in Nat
    BY ListFacts
  <2>2. CASE messages # <<>> /\ Head(messages) = topMessage
    <3>1. Tail(messages) = SubSeq(messages, 2, Len(messages))
      BY <2>1, <2>2
    <3> QED
      BY <2>1, <2>2, <3>1, RemoveFirstOfHead
  <2>3. CASE messages = <<>> \/ Head(messages) # topMessage
    <3>1. ASSUME NEW i \in 1..Len(messages), messages[i] = topMessage
          PROVE  FALSE
      <4>1. /\ messages # <<>> /\ 1 \in DOMAIN messages
            /\ messages[1] \in Nat /\ messages[1] # topMessage
        BY <2>1, <2>3, <3>1
      <4>2. topMessage <= messages[1]
        BY <1>1, <4>1 DEF Oldest, InFlight
      <4>3. 1 < i
        BY <2>1, <3>1, <4>1
      <4>4. messages[1] < messages[i]
        BY <2>1, <4>1, <4>3 DEF QueueSorted
      <4> QED
        BY <2>1, <3>1, <4>1, <4>2, <4>4
    <3> QED
      BY <2>1, <2>3, <3>1, RemoveFirstOfAbsent
  <2> QED
    BY <2>2, <2>3
<1> QED
  BY <1>1, <1>2, <1>3, <1>4 DEF RemoveMessage, Contract!Finish, serverVars, history

-----------------------------------------------------------------------------
\* A new queue is a new contract.
LEMMA InitRefines == Init => Contract!Init
  BY DEF Init, Contract!Init, StillOwed

\* Every step is one of the contract, or invisible to it.
LEMMA StepRefines == IInv /\ [Next]_vars => [Contract!Next]_(Contract!vars)
<1> SUFFICES ASSUME IInv, [Next]_vars PROVE [Contract!Next]_(Contract!vars)
  OBVIOUS
<1>1. TypeOK
  BY DEF IInv
<1>2. CASE UNCHANGED vars
  BY <1>2 DEF vars, serverVars, listVars, threadVars, history, StillOwed, Contract!vars
<1>3. CASE EnqueueMessage \/ PurgeQueue
  BY <1>1, <1>3, ListStep DEF Contract!Next
<1>4. CASE (Subscriptions \/ Administration) /\ ~(EnqueueMessage \/ PurgeQueue)
  <2>1. UNCHANGED coreVars
    BY <1>4 DEF Subscriptions, SubscribeToQueueQuery, SubscribeToQueue,
                UnsubscribeFromQueue, Disconnect, RmServer_OnDisconnected,
                Administration, DeleteQueue, DeleteQueue_Joined, Stop, StopQueue,
                StopQueue_Joined, coreVars
  <2> QED
    BY <1>1, <1>4, <2>1, OuterStep DEF Contract!Next
<1>5. CASE DeliveryThreadProc
  <2>1. CASE Scan
    BY <2>1, ScanStep DEF Contract!Next
  <2>2. CASE \E c \in Connections : DeliverMessage(c)
    BY <2>2, OfferStep DEF Contract!Next
  <2>3. CASE DeliveryFailed \/ \E consumed \in BOOLEAN : DeliveryReplied(consumed)
    BY <2>3, ReplyStep DEF Contract!Next
  <2>4. CASE DeliverySettled \/ DeliveryAbandoned \/ DeliverDone \/ LoopExit
    BY <2>4, RecordStep DEF Contract!Next
  <2>5. CASE RemoveMessage
    BY <2>5, RemoveStep DEF Contract!Next
  <2> QED
    BY <1>5, <2>1, <2>2, <2>3, <2>4, <2>5 DEF DeliveryThreadProc
<1> QED
  BY <1>2, <1>3, <1>4, <1>5 DEF Next

\* MessageQueue implements QueueContract: what handlers, connections and the
\* delivery thread do together is what the contract allows.
THEOREM Implementation == Spec => ImplementsContract
<1>1. Spec => Contract!Init
  BY InitRefines DEF Spec
<1>2. Spec => [][Contract!Next]_(Contract!vars)
  BY StepRefines, Invariance, PTL DEF Spec
<1> QED
  BY <1>1, <1>2 DEF ImplementsContract, Contract!Spec
=============================================================================
