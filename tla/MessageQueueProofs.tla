------------------------- MODULE MessageQueueProofs -------------------------
(***************************************************************************)
(* Proofs about MessageQueue: IInv is an inductive invariant, and the      *)
(* safety properties the runs check follow from it, for every set of       *)
(* connections, both consumption schemes, every MaxDeliveryAttempts, with  *)
(* and without expiration.                                                 *)
(***************************************************************************)
EXTENDS MessageQueue, SequenceTheorems, TLAPS

-----------------------------------------------------------------------------
(* The three list operations of the code: Add, RemoveAll of the expired    *)
(* messages, and Remove of a message that is first or absent.              *)

\* The elements of t are in s, in the same order.
Within(t, s) ==
    \E at \in [DOMAIN t -> DOMAIN s] :
        /\ \A i \in DOMAIN t : t[i] = s[at[i]]
        /\ \A i, j \in DOMAIN t : i < j => at[i] < at[j]

\* What RemoveAll leaves has its elements from the list, in their order.
LEMMA SublistFacts ==
    ASSUME NEW S, NEW s \in Seq(S), NEW t \in Sublists(s)
    PROVE  t \in Seq(S) /\ Within(t, s)
<1>1. PICK at \in Places(Len(s)) : t = [i \in DOMAIN at |-> s[at[i]]]
  BY DEF Sublists
<1>2. PICK k \in 0..Len(s) : at \in [1..k -> 1..Len(s)]
  BY <1>1 DEF Places
<1>3. Len(s) \in Nat /\ k \in Nat /\ DOMAIN at = 1..k
  BY <1>2, LenProperties
<1>4. t = [i \in 1..k |-> s[at[i]]] /\ \A i \in 1..k : s[at[i]] \in S
  BY <1>1, <1>2, <1>3, ElementOfSeq
<1>5. t \in Seq(S) /\ Len(t) = k
  BY <1>3, <1>4
<1>6. \A i, j \in 1..k : i < j => at[i] < at[j]
  BY <1>1, <1>3 DEF Places
<1>7. DOMAIN t = 1..k /\ DOMAIN s = 1..Len(s)
  BY <1>4, LenProperties
<1> QED
  BY <1>2, <1>4, <1>5, <1>6, <1>7 DEF Within

\* RemoveAll may leave everything, nothing, or all but the first.
LEMMA SublistExamples ==
    ASSUME NEW S, NEW s \in Seq(S)
    PROVE  /\ s \in Sublists(s) /\ <<>> \in Sublists(s)
           /\ s # <<>> => Tail(s) \in Sublists(s)
<1>1. Len(s) \in Nat /\ s = [i \in 1..Len(s) |-> s[i]]
  BY LenProperties
<1>2. s \in Sublists(s)
  <2> DEFINE at == [i \in 1..Len(s) |-> i]
  <2>1. Len(s) \in 0..Len(s) /\ at \in [1..Len(s) -> 1..Len(s)]
    BY <1>1
  <2>2. at \in Places(Len(s))
    BY <2>1 DEF Places
  <2>3. s = [i \in DOMAIN at |-> s[at[i]]]
    BY <1>1
  <2> QED
    BY <2>2, <2>3 DEF Sublists
<1>3. <<>> \in Sublists(s)
  <2> DEFINE at == [i \in 1..0 |-> i]
  <2>1. 0 \in 0..Len(s) /\ at \in [1..0 -> 1..Len(s)]
    BY <1>1
  <2>2. at \in Places(Len(s))
    BY <2>1 DEF Places
  <2>3. <<>> = [i \in DOMAIN at |-> s[at[i]]]
    OBVIOUS
  <2> QED
    BY <2>2, <2>3 DEF Sublists
<1>4. ASSUME s # <<>> PROVE Tail(s) \in Sublists(s)
  <2> DEFINE n == Len(s) - 1
             at == [i \in 1..n |-> i + 1]
  <2>1. Len(s) >= 1 /\ n \in 0..Len(s)
    BY <1>1, <1>4, EmptySeq
  <2>2. at \in [1..n -> 1..Len(s)]
    BY <1>1, <2>1
  <2>3. at \in Places(Len(s))
    BY <1>1, <2>1, <2>2 DEF Places
  <2>4. Tail(s) = [i \in 1..n |-> s[i + 1]]
    <3>1. /\ Tail(s) \in Seq(S) /\ Len(Tail(s)) = n
          /\ \A i \in 1..n : Tail(s)[i] = s[i + 1]
      BY <1>1, <1>4
    <3>2. Tail(s) = [i \in 1..Len(Tail(s)) |-> Tail(s)[i]]
      BY <3>1, LenProperties
    <3> QED
      BY <3>1, <3>2
  <2>5. Tail(s) = [i \in DOMAIN at |-> s[at[i]]]
    BY <2>4
  <2> QED
    BY <2>3, <2>5 DEF Sublists
<1> QED
  BY <1>2, <1>3, <1>4

\* List.Remove of the first element leaves the tail.
LEMMA RemoveFirstOfHead ==
    ASSUME NEW S, NEW s \in Seq(S), s # <<>>
    PROVE  RemoveFirst(s, Head(s)) = SubSeq(s, 2, Len(s))
<1> DEFINE I == { i \in 1..Len(s) : s[i] = Head(s) }
<1>1. Len(s) \in Nat /\ Len(s) >= 1 /\ s[1] = Head(s)
  BY LenProperties, EmptySeq
<1>2. 1 \in I /\ \A i \in I : 1 <= i
  BY <1>1
<1>3. Min(I) = 1
  BY <1>2 DEF Min
<1>4. Min(I) - 1 = 0 /\ Min(I) + 1 = 2
  BY <1>3
<1>5. RemoveFirst(s, Head(s))
        = SubSeq(s, 1, Min(I) - 1) \o SubSeq(s, Min(I) + 1, Len(s))
  BY <1>1, <1>2 DEF RemoveFirst, RemoveAt, SelectInSeq
<1>6. RemoveFirst(s, Head(s)) = SubSeq(s, 1, 0) \o SubSeq(s, 2, Len(s))
  BY <1>4, <1>5, Zenon
<1>7. SubSeq(s, 1, 0) = <<>> /\ SubSeq(s, 2, Len(s)) \in Seq(S)
  BY <1>1
<1> QED
  BY <1>6, <1>7

\* List.Remove of something that is not in the list changes nothing.
LEMMA RemoveFirstOfAbsent ==
    ASSUME NEW S, NEW s \in Seq(S), NEW e, \A i \in 1..Len(s) : s[i] # e
    PROVE  RemoveFirst(s, e) = s
  BY DEF RemoveFirst

-----------------------------------------------------------------------------
(* Type correctness *)

\* One attempt counted stays a counter.
LEMMA BumpType ==
    ASSUME NEW n \in 0..AttemptCap
    PROVE  Bump(n) \in 0..AttemptCap
  BY ConstantsAssumption DEF Bump

\* A step of an entry of a table of counters keeps the table a table.
LEMMA BumpTableType ==
    ASSUME NEW f \in [Messages -> [Connections -> 0..AttemptCap]], NEW m, NEW c
    PROVE  [f EXCEPT ![m][c] = Bump(@)] \in [Messages -> [Connections -> 0..AttemptCap]]
<1>1. CASE m \in Messages /\ c \in Connections
  BY <1>1, BumpType
<1>2. CASE m \notin Messages \/ c \notin Connections
  BY <1>2
<1> QED
  BY <1>1, <1>2

\* Recording an attempt keeps the types of the per-message metrics.
LEMMA RecordAttemptType ==
    ASSUME TypeOK, NEW b \in BOOLEAN, RecordAttempt(b), NoConnection # subscriber
    PROVE  /\ attempts' \in [Messages -> [Connections -> 0..AttemptCap]]
           /\ satisfied' \in [Messages -> SUBSET Connections]
<1>1. subscriber \in Connections
  BY DEF TypeOK, CoreTypeOK
<1>2. attempts' = [attempts EXCEPT ![topMessage][subscriber] = Bump(@)]
  BY DEF RecordAttempt
<1>3. attempts' \in [Messages -> [Connections -> 0..AttemptCap]]
  BY <1>2, BumpTableType DEF TypeOK, CoreTypeOK
<1>4. satisfied' \in [Messages -> SUBSET Connections]
  BY <1>1 DEF TypeOK, CoreTypeOK, RecordAttempt
<1> QED
  BY <1>3, <1>4

-----------------------------------------------------------------------------
(* The steps of Next, with those that touch neither the list, nor the      *)
(* messages, nor the thread taken together.                                *)

coreVars == <<listVars, messageVars, threadVars, history>>

\* What a step can be, as far as the inductive invariant is concerned.
LEMMA StepCases ==
    ASSUME [Next]_vars
    PROVE  \/ UNCHANGED coreVars
           \/ EnqueueMessage \/ PurgeQueue
           \/ LoopExit \/ Scan \/ DeliverDone
           \/ \E c \in Connections : DeliverMessage(c)
           \/ \E consumed \in BOOLEAN : DeliveryReplied(consumed)
           \/ DeliveryFailed \/ DeliverySettled \/ DeliveryAbandoned
           \/ RemoveMessage
<1>1. CASE UNCHANGED vars
  BY <1>1 DEF vars, coreVars
<1>2. CASE Subscriptions
  BY <1>2 DEF Subscriptions, SubscribeToQueueQuery, SubscribeToQueue,
              UnsubscribeFromQueue, Disconnect, RmServer_OnDisconnected, coreVars
<1>3. CASE Administration
  BY <1>3 DEF Administration, DeleteQueue, DeleteQueue_Joined, Stop, StopQueue,
              StopQueue_Joined, coreVars
<1>4. CASE DeliveryThreadProc
  BY <1>4 DEF DeliveryThreadProc
<1> QED
  BY <1>1, <1>2, <1>3, <1>4 DEF Next

\* The list is a sequence of message numbers.
LEMMA ListFacts ==
    ASSUME TypeOK
    PROVE  /\ messages \in Seq(Messages) /\ Len(messages) \in Nat
           /\ DOMAIN messages = 1..Len(messages)
           /\ \A i \in DOMAIN messages : i \in Nat \ {0} /\ messages[i] \in Nat \ {0}
           /\ TotalEnqueuedMessages \in Nat /\ topMessage \in Nat
<1>1. messages \in Seq(Messages) /\ Len(messages) \in Nat
      /\ DOMAIN messages = 1..Len(messages)
  BY LenProperties DEF TypeOK, CoreTypeOK
<1>2. \A i \in DOMAIN messages : i \in Nat \ {0} /\ messages[i] \in Messages
  BY <1>1, ElementOfSeq
<1>3. Messages \subseteq Nat \ {0}
  BY ConstantsAssumption DEF Messages
<1>4. TotalEnqueuedMessages \in Nat /\ topMessage \in Nat
  BY <1>3, ConstantsAssumption DEF TypeOK, CoreTypeOK
<1> QED
  BY <1>1, <1>2, <1>3, <1>4

\* The list only ever loses messages, but for EnqueueMessage.
Dropped ==
    /\ messages' \in Sublists(messages)
    /\ TotalEnqueuedMessages' = TotalEnqueuedMessages

\* What is left of the list of a queue comes from it, in the order it had.
LEMMA DroppedList ==
    ASSUME TypeOK, Dropped
    PROVE  messages' \in Seq(Messages) /\ Within(messages', messages)
  BY ListFacts, SublistFacts DEF Dropped

\* No message that was not in the list comes into it.
LEMMA DroppedElements ==
    ASSUME TypeOK, Dropped
    PROVE  \A i \in DOMAIN messages' :
               i \in Nat \ {0} /\ \E j \in DOMAIN messages : messages'[i] = messages[j]
<1>1. messages' \in Seq(Messages)
  BY DroppedList
<1>2. \A i \in DOMAIN messages' : i \in Nat \ {0}
  BY <1>1, LenProperties
<1> QED
  BY <1>2, DroppedList DEF Within

\* PurgeQueue drops the whole list.
LEMMA PurgeDrops ==
    ASSUME TypeOK, PurgeQueue
    PROVE  Dropped
  BY ListFacts, SublistExamples DEF PurgeQueue, Dropped

\* Scan drops the expired messages.
LEMMA ScanDrops ==
    ASSUME TypeOK, Scan
    PROVE  Dropped
  BY ListFacts, SublistExamples DEF Scan, Dropped

\* RemoveMessage drops the first message or nothing: topMessage, when it is
\* still queued, is the first one.
LEMMA RemoveDrops ==
    ASSUME TypeOK, QueueSorted, ThreadState, Oldest, RemoveMessage
    PROVE  /\ Dropped
           /\ ShouldRemove => \A i \in DOMAIN messages' : messages'[i] # topMessage
<1>1. /\ messages \in Seq(Messages) /\ Len(messages) \in Nat
      /\ DOMAIN messages = 1..Len(messages)
      /\ \A i \in 1..Len(messages) : messages[i] \in Nat
      /\ topMessage \in Nat
  BY ListFacts
<1>2. \A i \in DOMAIN messages : topMessage <= messages[i]
  BY DEF RemoveMessage, Oldest, InFlight
<1>3. TotalEnqueuedMessages' = TotalEnqueuedMessages
  BY DEF RemoveMessage
<1>4. messages \in Sublists(messages)
  BY <1>1, SublistExamples
<1>5. CASE ~ShouldRemove
  BY <1>3, <1>4, <1>5 DEF RemoveMessage, Dropped
<1>6. CASE ShouldRemove /\ Queued(topMessage)
  <2>1. PICK i \in 1..Len(messages) : messages[i] = topMessage
    BY <1>1, <1>6 DEF Queued
  <2>2. i = 1
    <3>1. 1 \in DOMAIN messages /\ messages[1] \in Nat /\ topMessage <= messages[1]
      BY <1>1, <1>2, <2>1
    <3>2. 1 < i => messages[1] < messages[i]
      BY <1>1, <2>1, <3>1 DEF QueueSorted
    <3> QED
      BY <1>1, <2>1, <3>1, <3>2
  <2>3. messages # <<>> /\ Head(messages) = topMessage
    BY <1>1, <2>1, <2>2
  <2>4. messages' = Tail(messages)
    <3>1. Tail(messages) = SubSeq(messages, 2, Len(messages))
      BY <1>1, <2>3
    <3> QED
      BY <1>1, <1>6, <2>3, <3>1, RemoveFirstOfHead DEF RemoveMessage
  <2>5. Dropped
    BY <1>1, <1>3, <2>3, <2>4, SublistExamples DEF Dropped
  <2>6. \A j \in DOMAIN messages' : messages'[j] # topMessage
    <3> SUFFICES ASSUME NEW j \in DOMAIN messages' PROVE messages'[j] # topMessage
      OBVIOUS
    <3>1. j \in Nat /\ j >= 1 /\ j + 1 \in DOMAIN messages
          /\ messages'[j] = messages[j + 1]
      BY <1>1, <2>3, <2>4
    <3>2. 1 < j + 1
      BY <3>1
    <3>3. messages[1] < messages[j + 1]
      BY <1>1, <2>1, <2>2, <3>1, <3>2 DEF QueueSorted
    <3> QED
      BY <1>1, <2>1, <2>2, <3>1, <3>3
  <2> QED
    BY <2>5, <2>6
<1>7. CASE ShouldRemove /\ ~Queued(topMessage)
  <2>1. \A i \in 1..Len(messages) : messages[i] # topMessage
    BY <1>1, <1>7 DEF Queued
  <2>2. messages' = messages
    BY <1>1, <1>7, <2>1, RemoveFirstOfAbsent DEF RemoveMessage
  <2> QED
    BY <1>1, <1>3, <1>4, <2>1, <2>2 DEF Dropped
<1> QED
  BY <1>5, <1>6, <1>7

-----------------------------------------------------------------------------
(* Each part of IInv is preserved by every step.                           *)

\* Connections, handlers, server flags and subscribers keep their types.
LEMMA OuterTypeStep ==
    ASSUME TypeOK, [Next]_vars
    PROVE  OuterTypeOK'
<1> USE DEF TypeOK, OuterTypeOK, clientVars, serverVars
<1>1. CASE UNCHANGED vars
  BY <1>1 DEF vars
<1>2. ASSUME NEW c \in Connections, SubscribeToQueueQuery(c) \/ SubscribeToQueue(c)
      PROVE  OuterTypeOK'
  BY <1>2 DEF SubscribeToQueueQuery, SubscribeToQueue
<1>3. ASSUME NEW c \in Connections,
             UnsubscribeFromQueue(c) \/ Disconnect(c) \/ RmServer_OnDisconnected(c)
      PROVE  OuterTypeOK'
  BY <1>3 DEF UnsubscribeFromQueue, Disconnect, RmServer_OnDisconnected
<1>4. CASE Administration
  BY <1>4 DEF Administration, EnqueueMessage, PurgeQueue, DeleteQueue,
              DeleteQueue_Joined, Stop, StopQueue, StopQueue_Joined
<1>5. CASE DeliveryThreadProc
  BY <1>5 DEF DeliveryThreadProc, LoopExit, Scan, DeliverDone, DeliverMessage,
              DeliveryReplied, DeliveryFailed, DeliverySettled,
              DeliveryAbandoned, RemoveMessage
<1> QED
  BY <1>1, <1>2, <1>3, <1>4, <1>5 DEF Next, Subscriptions

\* The queue, its messages and the thread keep their types.
LEMMA CoreTypeStep ==
    ASSUME TypeOK, QueueSorted, ThreadState, Oldest, [Next]_vars
    PROVE  CoreTypeOK'
<1> USE DEF TypeOK, CoreTypeOK, listVars, messageVars, threadVars, history
<1>1. CASE UNCHANGED coreVars
  BY <1>1 DEF coreVars
<1>2. CASE EnqueueMessage
  <2>1. TotalEnqueuedMessages' \in Messages /\ TotalEnqueuedMessages' \in 0..MaxEnqueued
    BY <1>2, ConstantsAssumption DEF EnqueueMessage, Messages
  <2> QED
    BY <1>2, <2>1, AppendProperties DEF EnqueueMessage
<1>3. CASE PurgeQueue
  BY <1>3 DEF PurgeQueue
<1>4. CASE LoopExit
  BY <1>4 DEF LoopExit
<1>5. CASE Scan
  <2>1. messages' \in Seq(Messages)
    BY <1>5, ScanDrops, DroppedList
  <2>2. messages' # <<>> => Head(messages') \in Messages
    BY <2>1, HeadTailProperties
  <2>3. yetToBeDelivered' \subseteq Connections
    BY <1>5 DEF Scan, YetToBeDelivered, OuterTypeOK
  <2> QED
    BY <1>5, <2>1, <2>2, <2>3 DEF Scan
<1>6. CASE DeliverDone
  BY <1>6 DEF DeliverDone, EndIteration
<1>7. ASSUME NEW c \in Connections, DeliverMessage(c)
      PROVE  CoreTypeOK'
  <2>1. calls' \in [Messages -> [Connections -> 0..AttemptCap]]
    BY <1>7, BumpTableType DEF DeliverMessage
  <2> QED
    BY <1>7, <2>1 DEF DeliverMessage
<1>8. ASSUME NEW consumed \in BOOLEAN, DeliveryReplied(consumed)
      PROVE  CoreTypeOK'
  <2>1. subscriber \in Connections
    BY <1>8 DEF DeliveryReplied, OuterTypeOK
  <2>2. delivered' \in [Messages -> SUBSET Connections]
    BY <1>8, <2>1 DEF DeliveryReplied
  <2>3. consumedBy' \in [Messages -> SUBSET Connections]
    BY <1>8, <2>1 DEF DeliveryReplied
  <2> QED
    BY <1>8, <2>2, <2>3 DEF DeliveryReplied
<1>9. CASE DeliveryFailed
  <2>1. subscriber # NoConnection
    BY <1>9 DEF DeliveryFailed, ThreadState
  <2> QED
    BY <1>9, <2>1, RecordAttemptType DEF DeliveryFailed
<1>10. CASE DeliverySettled
  <2>1. subscriber # NoConnection /\ subscriber \in Connections
    BY <1>10 DEF DeliverySettled, ThreadState
  <2>2. CASE FirstConsumed /\ successfulDeliveryAndConsume
    <3>1. satisfied' = [satisfied EXCEPT ![topMessage] = @ \cup {subscriber}]
      BY <1>10, <2>2 DEF DeliverySettled
    <3>2. satisfied' \in [Messages -> SUBSET Connections]
      BY <2>1, <3>1
    <3> QED
      BY <1>10, <2>2, <3>2 DEF DeliverySettled
  <2>3. CASE ~(FirstConsumed /\ successfulDeliveryAndConsume)
    BY <1>10, <2>1, <2>3, RecordAttemptType DEF DeliverySettled
  <2> QED
    BY <2>2, <2>3
<1>11. CASE DeliveryAbandoned
  BY <1>11 DEF DeliveryAbandoned, EndIteration
<1>12. CASE RemoveMessage
  <2>1. messages' \in Seq(Messages)
    BY <1>12, RemoveDrops, DroppedList
  <2> QED
    BY <1>12, <2>1 DEF RemoveMessage, EndIteration
<1> QED
  BY <1>1, <1>2, <1>3, <1>4, <1>5, <1>6, <1>7, <1>8, <1>9, <1>10, <1>11, <1>12,
     StepCases

\* TypeOK is preserved, given the parts of IInv that say where subscriber is set.
LEMMA TypeStep ==
    ASSUME TypeOK, QueueSorted, ThreadState, Oldest, [Next]_vars
    PROVE  TypeOK'
  BY OuterTypeStep, CoreTypeStep DEF TypeOK

\* The list stays in the order of EnqueueMessage.
LEMMA QueueSortedStep ==
    ASSUME TypeOK, QueueSorted, ThreadState, Oldest, [Next]_vars
    PROVE  QueueSorted'
<1>1. messages \in Seq(Messages) /\ Len(messages) \in Nat
      /\ DOMAIN messages = 1..Len(messages) /\ TotalEnqueuedMessages \in Nat
      /\ \A i \in DOMAIN messages : i \in Nat \ {0} /\ messages[i] \in Nat \ {0}
  BY ListFacts
<1>2. CASE UNCHANGED listVars
  BY <1>2 DEF listVars, QueueSorted
<1>3. CASE EnqueueMessage
  <2> DEFINE n == TotalEnqueuedMessages + 1
  <2>1. messages' = Append(messages, n) /\ TotalEnqueuedMessages' = n
    BY <1>3 DEF EnqueueMessage
  <2>2. /\ DOMAIN messages' = 1..(Len(messages) + 1)
        /\ \A i \in 1..Len(messages) : messages'[i] = messages[i]
        /\ messages'[Len(messages) + 1] = n
    BY <1>1, <2>1, AppendProperties
  <2> QED
    BY <1>1, <2>1, <2>2 DEF QueueSorted
<1>4. ASSUME Dropped
      PROVE  QueueSorted'
  <2>1. PICK at \in [DOMAIN messages' -> DOMAIN messages] :
              /\ \A i \in DOMAIN messages' : messages'[i] = messages[at[i]]
              /\ \A i, j \in DOMAIN messages' : i < j => at[i] < at[j]
    BY <1>4, DroppedList DEF Within
  <2>2. TotalEnqueuedMessages' = TotalEnqueuedMessages
    BY <1>4 DEF Dropped
  <2> QED
    BY <1>1, <2>1, <2>2 DEF QueueSorted
<1>5. CASE PurgeQueue \/ Scan \/ RemoveMessage
  BY <1>4, <1>5, PurgeDrops, ScanDrops, RemoveDrops
<1>6. CASE \/ LoopExit \/ DeliverDone
           \/ \E c \in Connections : DeliverMessage(c)
           \/ \E consumed \in BOOLEAN : DeliveryReplied(consumed)
           \/ DeliveryFailed \/ DeliverySettled \/ DeliveryAbandoned
  BY <1>2, <1>6 DEF LoopExit, DeliverDone, DeliverMessage, DeliveryReplied,
                    DeliveryFailed, DeliverySettled, DeliveryAbandoned
<1> QED
  BY <1>2, <1>3, <1>5, <1>6, StepCases DEF coreVars

\* A message in hand is a message, and an open offer is made to a connection.
LEMMA InHand ==
    ASSUME TypeOK, ThreadState
    PROVE  /\ InFlight => topMessage \in Messages
           /\ pc \in {"Query", "Delivered"} => subscriber \in Connections
           /\ NoConnection \notin Connections
  BY ConstantsAssumption DEF TypeOK, CoreTypeOK, ThreadState, Messages

\* What RecordAttempt does to each message and connection.
LEMMA RecordAttemptEffect ==
    ASSUME TypeOK, topMessage \in Messages, subscriber \in Connections,
           NEW b \in BOOLEAN, RecordAttempt(b),
           NEW m \in Messages, NEW c \in Connections
    PROVE  LET here == m = topMessage /\ c = subscriber
               tried == Bump(attempts[m][c])
           IN  /\ attempts'[m][c] = IF here THEN tried ELSE attempts[m][c]
               /\ c \in satisfied'[m] <=>
                     \/ c \in satisfied[m]
                     \/ here /\ (b \/ MaxAttemptsReached(tried))
<1>1. attempts' = [attempts EXCEPT ![topMessage][subscriber] = Bump(@)]
  BY DEF RecordAttempt
<1>2. attempts'[m][c] = IF m = topMessage /\ c = subscriber
                        THEN Bump(attempts[m][c]) ELSE attempts[m][c]
  BY <1>1 DEF TypeOK, CoreTypeOK
<1>3. satisfied'[m] = IF m = topMessage /\ (b \/ MaxAttemptsReached(
                                Bump(attempts[topMessage][subscriber])))
                      THEN satisfied[m] \cup {subscriber} ELSE satisfied[m]
  BY DEF RecordAttempt, TypeOK, CoreTypeOK
<1> QED
  BY <1>2, <1>3

\* Recording an attempt of one subscriber does not satisfy those still to serve.
LEMMA RecordSparesOthers ==
    ASSUME TypeOK, ThreadState, pc \in {"Query", "Delivered"},
           NEW b \in BOOLEAN, RecordAttempt(b)
    PROVE  yetToBeDelivered \cap satisfied'[topMessage] = {}
<1>1. topMessage \in Messages /\ subscriber \in Connections
  BY InHand DEF InFlight
<1>2. ASSUME NEW c \in yetToBeDelivered
      PROVE  c \notin satisfied'[topMessage]
  <2>1. c \in Connections /\ c # subscriber /\ c \notin satisfied[topMessage]
    BY <1>1, <1>2 DEF ThreadState, InFlight, TypeOK, CoreTypeOK
  <2> QED
    BY <1>1, <2>1, RecordAttemptEffect
<1> QED
  BY <1>2

\* The message Scan takes is a queued one, the first of the new list.
LEMMA ScanTakesHead ==
    ASSUME TypeOK, QueueSorted, ThreadState, Oldest, Scan, pc' = "Deliver"
    PROVE  /\ topMessage' \in Messages /\ topMessage' # 0
           /\ 1 \in DOMAIN messages' /\ messages'[1] = topMessage'
           /\ topMessage' = Head(messages')
           /\ yetToBeDelivered' = subscribers \ satisfied[topMessage']
           /\ subscriber' = NoConnection
<1>1. messages' # <<>> /\ topMessage' = Head(messages')
      /\ yetToBeDelivered' = YetToBeDelivered(topMessage')
  BY DEF Scan
<1>2. messages' \in Seq(Messages)
  BY ScanDrops, DroppedList
<1>3. 1 \in DOMAIN messages' /\ messages'[1] = topMessage' /\ topMessage' \in Messages
  BY <1>1, <1>2, EmptySeq, LenProperties, ElementOfSeq
<1>4. subscriber' = NoConnection
  BY ConstantsAssumption DEF Scan, ThreadState, TypeOK, CoreTypeOK
<1> QED
  BY <1>1, <1>3, <1>4 DEF YetToBeDelivered, Messages

\* The locals of the delivery thread keep fitting together.
LEMMA ThreadStateStep ==
    ASSUME TypeOK, QueueSorted, ThreadState, Oldest, [Next]_vars
    PROVE  ThreadState'
<1> USE DEF ThreadState, InFlight, messageVars, threadVars, listVars
<1>a. TotalEnqueuedMessages \in Nat /\ topMessage \in Nat
  BY ListFacts
<1>1. CASE UNCHANGED coreVars
  BY <1>1 DEF coreVars
<1>2. CASE EnqueueMessage
  BY <1>2, <1>a DEF EnqueueMessage
<1>3. CASE PurgeQueue
  BY <1>3 DEF PurgeQueue
<1>4. CASE LoopExit
  BY <1>4 DEF LoopExit
<1>5. CASE Scan
  <2>1. CASE pc' = "Deliver"
    <3>1. topMessage' <= TotalEnqueuedMessages'
      BY <1>5, <2>1, ScanTakesHead, QueueSortedStep DEF QueueSorted
    <3>2. subscriber' \notin yetToBeDelivered'
      BY <1>5, <2>1, ScanTakesHead, InHand DEF TypeOK, OuterTypeOK
    <3>3. yetToBeDelivered' \cap satisfied'[topMessage'] = {}
      BY <1>5, <2>1, ScanTakesHead DEF Scan
    <3> QED
      BY <1>5, <2>1, <3>1, <3>2, <3>3, ScanTakesHead DEF Scan
  <2>2. CASE pc' # "Deliver"
    BY <1>5, <2>2 DEF Scan
  <2> QED
    BY <2>1, <2>2
<1>6. CASE DeliverDone
  BY <1>6, <1>a DEF DeliverDone, EndIteration
<1>7. ASSUME NEW c \in Connections, DeliverMessage(c)
      PROVE  ThreadState'
  BY <1>7, InHand DEF DeliverMessage
<1>8. ASSUME NEW consumed \in BOOLEAN, DeliveryReplied(consumed)
      PROVE  ThreadState'
  BY <1>8 DEF DeliveryReplied
<1>9. CASE DeliveryFailed
  <2>1. topMessage \in Messages /\ subscriber \in Connections
    BY <1>9, InHand DEF DeliveryFailed
  <2>2. yetToBeDelivered \cap satisfied'[topMessage] = {}
    BY <1>9, <2>1, RecordSparesOthers DEF DeliveryFailed
  <2> QED
    BY <1>9, <2>2, InHand DEF DeliveryFailed, TypeOK, CoreTypeOK
<1>10. CASE DeliverySettled
  <2>1. topMessage \in Messages /\ subscriber \in Connections
    BY <1>10, InHand DEF DeliverySettled
  <2>2. yetToBeDelivered' \cap satisfied'[topMessage] = {}
    <3>1. CASE FirstConsumed /\ successfulDeliveryAndConsume
      BY <1>10, <3>1 DEF DeliverySettled
    <3>2. CASE ~(FirstConsumed /\ successfulDeliveryAndConsume)
      BY <1>10, <2>1, <3>2, RecordSparesOthers DEF DeliverySettled
    <3> QED
      BY <3>1, <3>2
  <2>3. NoConnection \notin yetToBeDelivered'
    BY <1>10, InHand DEF DeliverySettled, TypeOK, CoreTypeOK
  <2> QED
    BY <1>10, <2>2, <2>3 DEF DeliverySettled
<1>11. CASE DeliveryAbandoned
  BY <1>11, <1>a DEF DeliveryAbandoned, EndIteration
<1>12. CASE RemoveMessage
  BY <1>12, <1>a DEF RemoveMessage, EndIteration
<1> QED
  BY <1>1, <1>2, <1>3, <1>4, <1>5, <1>6, <1>7, <1>8, <1>9, <1>10, <1>11, <1>12,
     StepCases

\* What has been offered stays older than what is queued.
LEMMA OldestStep ==
    ASSUME TypeOK, QueueSorted, ThreadState, Oldest, [Next]_vars
    PROVE  Oldest'
<1>a. /\ TotalEnqueuedMessages \in Nat /\ topMessage \in Nat
      /\ messages \in Seq(Messages) /\ DOMAIN messages = 1..Len(messages)
      /\ Len(messages) \in Nat
      /\ \A i \in DOMAIN messages : messages[i] \in Nat
      /\ Messages \subseteq Nat
  BY ListFacts, ConstantsAssumption DEF Messages
<1>b. ASSUME UNCHANGED <<listVars, calls>>,
             InFlight' => InFlight /\ topMessage' = topMessage
      PROVE  Oldest'
  BY <1>b DEF Oldest, listVars
<1>c. \* Messages are dropped, and the one in hand stays or is put away.
      ASSUME Dropped, UNCHANGED calls,
             InFlight' => InFlight /\ topMessage' = topMessage
      PROVE  Oldest'
  <2>1. \A i \in DOMAIN messages' : \E j \in DOMAIN messages : messages'[i] = messages[j]
    BY <1>c, DroppedElements
  <2>2. TotalEnqueuedMessages' = TotalEnqueuedMessages
    BY <1>c DEF Dropped
  <2> QED
    BY <1>c, <2>1, <2>2 DEF Oldest
<1>1. CASE UNCHANGED coreVars
  BY <1>1, <1>b DEF coreVars, threadVars, history, InFlight
<1>2. CASE EnqueueMessage
  <2> DEFINE n == TotalEnqueuedMessages + 1
  <2>1. messages' = Append(messages, n) /\ TotalEnqueuedMessages' = n
        /\ UNCHANGED <<threadVars, history>>
    BY <1>2 DEF EnqueueMessage
  <2>2. /\ DOMAIN messages' = 1..(Len(messages) + 1)
        /\ \A i \in 1..Len(messages) : messages'[i] = messages[i]
        /\ messages'[Len(messages) + 1] = n
    BY <1>a, <2>1, AppendProperties
  <2>3. \A i \in DOMAIN messages' :
           messages'[i] = n \/ \E j \in DOMAIN messages : messages'[i] = messages[j]
    BY <1>a, <2>2
  <2>4. topMessage <= n /\ \A m \in Messages : m <= TotalEnqueuedMessages => m <= n
    BY <1>a DEF ThreadState
  <2>5. InFlight' = InFlight /\ UNCHANGED <<topMessage, calls>>
    BY <2>1 DEF InFlight, threadVars, history
  <2>6. InFlight' => \A i \in DOMAIN messages' : topMessage' <= messages'[i]
    BY <2>3, <2>4, <2>5 DEF Oldest
  <2>7. ASSUME NEW m \in Messages, NEW c \in Connections, calls'[m][c] > 0
        PROVE  /\ m <= TotalEnqueuedMessages'
               /\ InFlight' => m <= topMessage'
               /\ \A i \in DOMAIN messages' : m <= messages'[i]
    BY <2>1, <2>3, <2>4, <2>5, <2>7 DEF Oldest
  <2> QED
    BY <2>6, <2>7 DEF Oldest
<1>3. CASE PurgeQueue
  BY <1>3, <1>c, PurgeDrops DEF PurgeQueue, threadVars, history, InFlight
<1>4. CASE LoopExit
  BY <1>4, <1>b DEF LoopExit, history, InFlight
<1>5. CASE Scan
  <2>1. Dropped
    BY <1>5, ScanDrops
  <2>2. CASE pc' = "Deliver"
    <3>1. \A i \in DOMAIN messages' : \E j \in DOMAIN messages : messages'[i] = messages[j]
      BY <2>1, DroppedElements
    <3>2. QueueSorted' /\ TypeOK'
      BY QueueSortedStep, TypeStep
    <3>3. 1 \in DOMAIN messages' /\ messages'[1] = topMessage'
      BY <1>5, <2>2, ScanTakesHead
    <3>4. \A i \in DOMAIN messages' :
             i \in Nat \ {0} /\ topMessage' \in Nat /\ messages'[i] \in Nat
      BY <1>a, <2>1, <3>1, <3>3, DroppedElements
    <3>5. \A i \in DOMAIN messages' : topMessage' <= messages'[i]
      <4> SUFFICES ASSUME NEW i \in DOMAIN messages'
                   PROVE  topMessage' <= messages'[i]
        OBVIOUS
      <4>1. CASE i = 1
        BY <3>3, <3>4, <4>1
      <4>2. CASE i # 1
        <5>1. 1 < i
          BY <3>4, <4>2
        <5>2. messages'[1] < messages'[i]
          BY <3>2, <3>3, <5>1 DEF QueueSorted
        <5> QED
          BY <3>3, <3>4, <5>2
      <4> QED
        BY <4>1, <4>2
    <3>6. calls' = calls /\ TotalEnqueuedMessages' = TotalEnqueuedMessages
      BY <1>5 DEF Scan, history
    <3>7. ASSUME NEW m \in Messages, NEW c \in Connections, calls[m][c] > 0
          PROVE  /\ m <= TotalEnqueuedMessages
                 /\ \A i \in DOMAIN messages' : m <= messages'[i]
      BY <3>1, <3>7 DEF Oldest
    <3> QED
      BY <3>3, <3>5, <3>6, <3>7 DEF Oldest
  <2>3. CASE pc' # "Deliver"
    BY <1>5, <2>1, <2>3, <1>c DEF Scan, history, InFlight
  <2> QED
    BY <2>2, <2>3
<1>6. CASE DeliverDone
  BY <1>6, <1>b DEF DeliverDone, history, InFlight
<1>7. ASSUME NEW d \in Connections, DeliverMessage(d)
      PROVE  Oldest'
  <2>1. topMessage \in Messages /\ InFlight /\ InFlight'
        /\ UNCHANGED <<topMessage, messages, TotalEnqueuedMessages>>
    BY <1>7, InHand DEF DeliverMessage, InFlight, listVars
  <2>2. \A m \in Messages, c \in Connections :
           m # topMessage => calls'[m][c] = calls[m][c]
    BY <1>7 DEF DeliverMessage, TypeOK, CoreTypeOK
  <2>3. topMessage <= TotalEnqueuedMessages /\ topMessage <= topMessage
        /\ \A i \in DOMAIN messages : topMessage <= messages[i]
    BY <1>a, <2>1 DEF ThreadState, Oldest
  <2>4. ASSUME NEW m \in Messages, NEW c \in Connections, calls'[m][c] > 0
        PROVE  /\ m <= TotalEnqueuedMessages
               /\ m <= topMessage
               /\ \A i \in DOMAIN messages : m <= messages[i]
    BY <2>1, <2>2, <2>3, <2>4 DEF Oldest
  <2> QED
    BY <2>1, <2>3, <2>4 DEF Oldest
<1>8. CASE \E consumed \in BOOLEAN : DeliveryReplied(consumed)
  BY <1>8, <1>b DEF DeliveryReplied, InFlight
<1>9. CASE DeliveryFailed
  BY <1>9, <1>b DEF DeliveryFailed, history, InFlight
<1>10. CASE DeliverySettled
  BY <1>10, <1>b DEF DeliverySettled, history, InFlight
<1>11. CASE DeliveryAbandoned
  BY <1>11, <1>b DEF DeliveryAbandoned, history, InFlight
<1>12. CASE RemoveMessage
  BY <1>12, <1>c, RemoveDrops DEF RemoveMessage, history, InFlight
<1> QED
  BY <1>1, <1>2, <1>3, <1>4, <1>5, <1>6, <1>7, <1>8, <1>9, <1>10, <1>11, <1>12,
     StepCases

\* Below the bound on attempts no counter saturates.
LEMMA BumpBelowMax ==
    ASSUME NEW n \in Nat, n < MaxDeliveryAttempts
    PROVE  Bump(n) = n + 1
  BY ConstantsAssumption DEF Bump

\* Calls made and attempts recorded keep agreeing.
LEMMA BudgetStep ==
    ASSUME TypeOK, QueueSorted, ThreadState, Oldest, Budget, [Next]_vars
    PROVE  Budget'
<1> SUFFICES ASSUME MaxDeliveryAttempts > 0, NEW m \in Messages, NEW c \in Connections
             PROVE  LET open == IF Open(m, c) THEN 1 ELSE 0
                    IN  (/\ attempts[m][c] + open <= calls[m][c]
                         /\ calls[m][c] <= MaxDeliveryAttempts
                         /\ pc # "Exited" /\ c \notin satisfied[m] =>
                               /\ attempts[m][c] < MaxDeliveryAttempts
                               /\ calls[m][c] = attempts[m][c] + open)'
  BY DEF Budget
<1> DEFINE
      open == IF Open(m, c) THEN 1 ELSE 0
      B == /\ attempts[m][c] + open <= calls[m][c]
           /\ calls[m][c] <= MaxDeliveryAttempts
           /\ pc # "Exited" /\ c \notin satisfied[m] =>
                 /\ attempts[m][c] < MaxDeliveryAttempts
                 /\ calls[m][c] = attempts[m][c] + open
<1>a. /\ B /\ attempts[m][c] \in Nat /\ calls[m][c] \in Nat
      /\ MaxDeliveryAttempts \in Nat
  BY ConstantsAssumption DEF Budget, TypeOK, CoreTypeOK
<1>b. ASSUME UNCHANGED <<attempts, satisfied, calls>>, Open(m, c)' = Open(m, c),
             pc' # "Exited" => pc # "Exited"
      PROVE  B'
  BY <1>a, <1>b
<1>c. \* An attempt to serve subscriber is recorded.
      ASSUME NEW b \in BOOLEAN, RecordAttempt(b), pc \in {"Query", "Delivered"},
             UNCHANGED calls, pc' = "Deliver"
      PROVE  B'
  <2>1. topMessage \in Messages /\ subscriber \in Connections
        /\ subscriber \notin satisfied[topMessage] /\ pc # "Exited"
    BY <1>c, InHand DEF InFlight, ThreadState
  <2>2. ~Open(m, c)'
    BY <1>c DEF Open
  <2>3. CASE m = topMessage /\ c = subscriber
    <3>1. Open(m, c) /\ c \notin satisfied[m]
      BY <1>c, <2>1, <2>3 DEF Open
    <3>2. attempts'[m][c] = attempts[m][c] + 1
      BY <1>a, <1>c, <2>1, <2>3, <3>1, RecordAttemptEffect, BumpBelowMax
    <3>3. c \notin satisfied'[m] => attempts'[m][c] < MaxDeliveryAttempts
      <4>1. c \notin satisfied'[m] => ~MaxAttemptsReached(Bump(attempts[m][c]))
        BY <1>c, <2>1, <2>3, RecordAttemptEffect
      <4> QED
        BY <1>a, <2>1, <3>1, <3>2, <4>1, BumpBelowMax DEF MaxAttemptsReached
    <3> QED
      BY <1>a, <1>c, <2>1, <2>2, <3>1, <3>2, <3>3
  <2>4. CASE ~(m = topMessage /\ c = subscriber)
    <3>1. ~Open(m, c)
      BY <2>4 DEF Open
    <3>2. /\ attempts'[m][c] = attempts[m][c]
          /\ c \in satisfied'[m] <=> c \in satisfied[m]
      BY <1>c, <2>1, <2>4, RecordAttemptEffect
    <3> QED
      BY <1>a, <1>c, <2>1, <2>2, <3>1, <3>2
  <2> QED
    BY <2>3, <2>4
<1>1. CASE UNCHANGED coreVars
  BY <1>1, <1>b DEF coreVars, messageVars, threadVars, history, Open
<1>2. CASE EnqueueMessage \/ PurgeQueue
  BY <1>2, <1>b DEF EnqueueMessage, PurgeQueue, messageVars, threadVars, history, Open
<1>3. CASE LoopExit \/ Scan \/ DeliverDone \/ RemoveMessage
  BY <1>3, <1>b DEF LoopExit, Scan, DeliverDone, RemoveMessage, messageVars,
                    history, Open
<1>4. ASSUME NEW d \in Connections, DeliverMessage(d)
      PROVE  B'
  <2>1. topMessage \in Messages /\ d \notin satisfied[topMessage]
    BY <1>4, InHand DEF DeliverMessage, InFlight, ThreadState
  <2>2. ~Open(m, c) /\ pc # "Exited" /\ (Open(m, c)' <=> m = topMessage /\ c = d)
        /\ UNCHANGED <<attempts, satisfied>>
    BY <1>4 DEF DeliverMessage, Open, messageVars
  <2>3. CASE m = topMessage /\ c = d
    <3>1. calls'[m][c] = calls[m][c] + 1
      <4>1. calls'[m][c] = Bump(calls[m][c])
        BY <1>4, <2>3 DEF DeliverMessage, TypeOK, CoreTypeOK
      <4>2. calls[m][c] < MaxDeliveryAttempts
        BY <1>a, <2>1, <2>2, <2>3
      <4> QED
        BY <1>a, <4>1, <4>2, BumpBelowMax
    <3> QED
      BY <1>a, <2>1, <2>2, <2>3, <3>1
  <2>4. CASE ~(m = topMessage /\ c = d)
    <3>1. calls'[m][c] = calls[m][c]
      BY <1>4, <2>4 DEF DeliverMessage, TypeOK, CoreTypeOK
    <3> QED
      BY <1>a, <2>2, <2>4, <3>1
  <2> QED
    BY <2>3, <2>4
<1>5. CASE \E consumed \in BOOLEAN : DeliveryReplied(consumed)
  BY <1>5, <1>b DEF DeliveryReplied, messageVars, Open
<1>6. CASE DeliveryFailed
  BY <1>6, <1>c DEF DeliveryFailed, history
<1>7. CASE DeliverySettled
  <2>1. CASE FirstConsumed /\ successfulDeliveryAndConsume
    <3>1. topMessage \in Messages /\ UNCHANGED <<attempts, calls>>
          /\ satisfied' = [satisfied EXCEPT ![topMessage] = @ \cup {subscriber}]
          /\ pc = "Delivered" /\ pc' = "Deliver"
      BY <1>7, <2>1, InHand DEF DeliverySettled, InFlight, history
    <3>2. ~Open(m, c)' /\ (c \notin satisfied'[m] => c \notin satisfied[m] /\ ~Open(m, c))
      BY <3>1 DEF Open, TypeOK, CoreTypeOK
    <3> QED
      BY <1>a, <3>1, <3>2
  <2>2. CASE ~(FirstConsumed /\ successfulDeliveryAndConsume)
    BY <1>7, <1>c, <2>2 DEF DeliverySettled, history
  <2> QED
    BY <2>1, <2>2
<1>8. CASE DeliveryAbandoned
  <2>1. ~Open(m, c)' /\ pc' = "Exited" /\ UNCHANGED <<attempts, satisfied, calls>>
    BY <1>8 DEF DeliveryAbandoned, Open, messageVars, history
  <2> QED
    BY <1>a, <2>1
<1> QED
  BY <1>1, <1>2, <1>3, <1>4, <1>5, <1>6, <1>7, <1>8, StepCases

\* Acknowledgements are recorded, and nothing is recorded without a reason.
LEMMA AcknowledgedStep ==
    ASSUME TypeOK, QueueSorted, ThreadState, Oldest, Budget, Acknowledged,
           [Next]_vars
    PROVE  Acknowledged'
<1> SUFFICES ASSUME NEW m \in Messages, NEW c \in Connections
             PROVE  (/\ c \in delivered[m] =>
                           \/ c \in satisfied[m]
                           \/ pc = "Exited"
                           \/ pc = "Delivered" /\ Open(m, c)
                     /\ pc = "Delivered" /\ Open(m, c) => c \in delivered[m]
                     /\ c \in satisfied[m] => Settled(m, c))'
  BY DEF Acknowledged
<1> DEFINE
      A == /\ c \in delivered[m] =>
                 \/ c \in satisfied[m]
                 \/ pc = "Exited"
                 \/ pc = "Delivered" /\ Open(m, c)
           /\ pc = "Delivered" /\ Open(m, c) => c \in delivered[m]
           /\ c \in satisfied[m] => Settled(m, c)
<1>a. /\ A /\ attempts[m][c] \in Nat /\ calls[m][c] \in Nat
      /\ MaxDeliveryAttempts \in Nat
  BY ConstantsAssumption DEF Acknowledged, TypeOK, CoreTypeOK
<1>b. ASSUME UNCHANGED <<satisfied, calls, delivered>>,
             pc' \in {"Exited", pc} \/ (pc # "Exited" /\ ~Open(m, c)),
             pc' = "Delivered" => pc = "Delivered" /\ UNCHANGED <<topMessage, subscriber>>
      PROVE  A'
  BY <1>a, <1>b DEF Settled, Open
<1>c. ASSUME NEW b \in BOOLEAN, RecordAttempt(b), pc \in {"Query", "Delivered"},
             b = (pc = "Delivered"), UNCHANGED <<calls, delivered>>, pc' = "Deliver"
      PROVE  A'
  <2>1. topMessage \in Messages /\ subscriber \in Connections
        /\ subscriber \notin satisfied[topMessage]
    BY <1>c, InHand DEF InFlight, ThreadState
  <2>2. CASE m = topMessage /\ c = subscriber
    <3>1. Open(m, c) /\ c \notin satisfied[m]
      BY <1>c, <2>1, <2>2 DEF Open
    <3>2. c \in satisfied'[m] <=> b \/ MaxAttemptsReached(Bump(attempts[m][c]))
      BY <1>c, <2>1, <2>2, <3>1, RecordAttemptEffect
    <3>3. MaxAttemptsReached(Bump(attempts[m][c])) =>
             MaxDeliveryAttempts > 0 /\ calls[m][c] >= MaxDeliveryAttempts
      <4> SUFFICES ASSUME MaxAttemptsReached(Bump(attempts[m][c]))
                   PROVE  MaxDeliveryAttempts > 0 /\ calls[m][c] >= MaxDeliveryAttempts
        OBVIOUS
      <4>1. MaxDeliveryAttempts > 0 /\ Bump(attempts[m][c]) >= MaxDeliveryAttempts
        BY DEF MaxAttemptsReached
      <4>2. attempts[m][c] < MaxDeliveryAttempts /\ calls[m][c] = attempts[m][c] + 1
        BY <1>c, <3>1, <4>1 DEF Budget
      <4>3. Bump(attempts[m][c]) = attempts[m][c] + 1
        BY <1>a, <4>2, BumpBelowMax
      <4> QED
        BY <1>a, <4>1, <4>2, <4>3
    <3>4. c \in delivered[m] <=> b
      BY <1>a, <1>c, <3>1
    <3> QED
      BY <1>c, <3>2, <3>3, <3>4 DEF Settled
  <2>3. CASE ~(m = topMessage /\ c = subscriber)
    <3>1. c \in satisfied'[m] <=> c \in satisfied[m]
      BY <1>c, <2>1, <2>3, RecordAttemptEffect
    <3>2. ~Open(m, c)
      BY <2>3 DEF Open
    <3> QED
      BY <1>a, <1>c, <3>1, <3>2 DEF Settled
  <2> QED
    BY <2>2, <2>3
<1>1. CASE UNCHANGED coreVars
  BY <1>1, <1>b DEF coreVars, messageVars, threadVars, history
<1>2. CASE EnqueueMessage \/ PurgeQueue
  BY <1>2, <1>b DEF EnqueueMessage, PurgeQueue, messageVars, threadVars, history
<1>3. CASE LoopExit \/ Scan \/ DeliverDone \/ RemoveMessage \/ DeliveryAbandoned
  BY <1>3, <1>b DEF LoopExit, Scan, DeliverDone, RemoveMessage, DeliveryAbandoned,
                    messageVars, history, Open
<1>4. ASSUME NEW d \in Connections, DeliverMessage(d)
      PROVE  A'
  <2>1. UNCHANGED <<satisfied, delivered>> /\ pc = "Deliver" /\ pc' = "Query"
    BY <1>4 DEF DeliverMessage, messageVars
  <2>2. calls'[m][c] = calls[m][c] \/ calls'[m][c] = Bump(calls[m][c])
    BY <1>4 DEF DeliverMessage, TypeOK, CoreTypeOK
  <2>3. calls'[m][c] >= calls[m][c]
    BY <1>a, <2>2 DEF Bump
  <2>4. calls'[m][c] \in Nat
    BY CoreTypeStep DEF CoreTypeOK
  <2> QED
    BY <1>a, <2>1, <2>3, <2>4 DEF Settled
<1>5. ASSUME NEW consumed \in BOOLEAN, DeliveryReplied(consumed)
      PROVE  A'
  <2>1. /\ topMessage \in Messages /\ pc' = "Delivered" /\ pc = "Query"
        /\ UNCHANGED <<topMessage, subscriber, satisfied, calls>>
        /\ delivered' = [delivered EXCEPT ![topMessage] = @ \cup {subscriber}]
    BY <1>5, InHand DEF DeliveryReplied, InFlight, messageVars
  <2>2. c \in delivered'[m] <=>
           c \in delivered[m] \/ (m = topMessage /\ c = subscriber)
    BY <2>1 DEF TypeOK, CoreTypeOK
  <2>3. Open(m, c)' <=> (m = topMessage /\ c = subscriber)
    BY <2>1 DEF Open
  <2> QED
    BY <1>a, <2>1, <2>2, <2>3 DEF Settled
<1>6. CASE DeliveryFailed
  BY <1>6, <1>c DEF DeliveryFailed, history
<1>7. CASE DeliverySettled
  <2>1. CASE FirstConsumed /\ successfulDeliveryAndConsume
    <3>1. /\ topMessage \in Messages /\ UNCHANGED <<delivered, calls>>
          /\ satisfied' = [satisfied EXCEPT ![topMessage] = @ \cup {subscriber}]
          /\ pc = "Delivered" /\ pc' = "Deliver"
      BY <1>7, <2>1, InHand DEF DeliverySettled, InFlight, history
    <3>2. c \in satisfied'[m] <=> c \in satisfied[m] \/ Open(m, c)
      BY <3>1 DEF Open, TypeOK, CoreTypeOK
    <3> QED
      BY <1>a, <3>1, <3>2 DEF Settled
  <2>2. CASE ~(FirstConsumed /\ successfulDeliveryAndConsume)
    BY <1>7, <1>c, <2>2 DEF DeliverySettled, history
  <2> QED
    BY <2>1, <2>2
<1> QED
  BY <1>1, <1>2, <1>3, <1>4, <1>5, <1>6, <1>7, StepCases

\* A consumed message stays on its way out, with a single consumer.
LEMMA ConsumedStep ==
    ASSUME TypeOK, QueueSorted, ThreadState, Oldest, Consumed, [Next]_vars
    PROVE  Consumed'
<1> USE DEF Consumed, InFlight
<1>a. /\ TotalEnqueuedMessages \in Nat /\ Messages \subseteq Nat
      /\ DOMAIN messages = 1..Len(messages) /\ Len(messages) \in Nat
      /\ messages \in Seq(Messages)
  BY ListFacts, ConstantsAssumption DEF Messages
<1>b. \* The list is unchanged and no message is taken or put away.
      ASSUME UNCHANGED <<listVars, topMessage, consumedBy, successfulDeliveryAndConsume>>,
             InFlight' = InFlight, pc' = "Exited" <=> pc = "Exited",
             FirstConsumed /\ successfulDeliveryAndConsume =>
                pc' # "Query" /\ (pc' = "Deliver" => yetToBeDelivered' = {})
      PROVE  Consumed'
  BY <1>b DEF listVars, Queued, AtMostOneConsumer
<1>c. \* The thread exits, or stays at the top of its loop.
      ASSUME UNCHANGED <<TotalEnqueuedMessages, consumedBy>>, pc' = "Exited",
             successfulDeliveryAndConsume' = FALSE
      PROVE  Consumed'
  BY <1>c DEF AtMostOneConsumer
<1>d. ASSUME Dropped, NEW m \in Messages, ~Queued(m)
      PROVE  ~Queued(m)'
  <2>1. \A i \in DOMAIN messages' : \E j \in DOMAIN messages : messages'[i] = messages[j]
    BY <1>d, DroppedElements
  <2> QED
    BY <1>d, <2>1 DEF Queued
<1>1. CASE UNCHANGED coreVars
  BY <1>1, <1>b DEF coreVars, threadVars, history
<1>2. CASE EnqueueMessage
  <2> DEFINE n == TotalEnqueuedMessages + 1
  <2>1. messages' = Append(messages, n) /\ TotalEnqueuedMessages' = n
        /\ UNCHANGED <<threadVars, history>>
    BY <1>2 DEF EnqueueMessage
  <2>2. /\ DOMAIN messages' = 1..(Len(messages) + 1)
        /\ \A i \in 1..Len(messages) : messages'[i] = messages[i]
        /\ messages'[Len(messages) + 1] = n
    BY <1>a, <2>1, AppendProperties
  <2>3. ASSUME NEW m \in Messages, consumedBy[m] # {}
        PROVE  m <= TotalEnqueuedMessages' /\ (~Queued(m) => ~Queued(m)')
    <3>1. m <= TotalEnqueuedMessages /\ m # n /\ m <= n
      BY <1>a, <2>3
    <3> QED
      BY <1>a, <2>1, <2>2, <3>1 DEF Queued
  <2> QED
    BY <2>1, <2>3 DEF threadVars, history, AtMostOneConsumer
<1>3. CASE PurgeQueue
  <2>1. \A m \in Messages : ~Queued(m)'
    BY <1>3 DEF PurgeQueue, Queued
  <2> QED
    BY <1>3, <2>1 DEF PurgeQueue, threadVars, history, AtMostOneConsumer
<1>4. CASE LoopExit
  BY <1>4, <1>c DEF LoopExit, listVars, history, TypeOK, CoreTypeOK
<1>5. CASE Scan
  <2>1. Dropped
    BY <1>5, ScanDrops
  <2>2. /\ pc = "Loop" /\ successfulDeliveryAndConsume = FALSE
        /\ UNCHANGED <<successfulDeliveryAndConsume, consumedBy, TotalEnqueuedMessages>>
    BY <1>5 DEF Scan, history, TypeOK, CoreTypeOK
  <2>3. CASE pc' = "Deliver"
    <3>1. topMessage' \in Messages /\ Queued(topMessage')
      <4>1. topMessage' \in Messages /\ 1 \in DOMAIN messages' /\ messages'[1] = topMessage'
        BY <1>5, <2>3, ScanTakesHead
      <4>2. \E j \in DOMAIN messages : messages'[1] = messages[j]
        BY <2>1, <4>1, DroppedElements
      <4> QED
        BY <4>1, <4>2 DEF Queued
    <3>2. FirstConsumed => consumedBy[topMessage'] = {}
      BY <2>2, <3>1
    <3> QED
      BY <1>d, <2>1, <2>2, <2>3, <3>2 DEF AtMostOneConsumer
  <2>4. CASE pc' # "Deliver"
    <3>1. pc' = "Loop"
      BY <1>5, <2>2, <2>4 DEF Scan
    <3> QED
      BY <1>d, <2>1, <2>2, <3>1 DEF AtMostOneConsumer
  <2> QED
    BY <2>3, <2>4
<1>6. CASE DeliverDone
  <2>1. CASE KeepRunning
    BY <1>6, <1>b, <2>1 DEF DeliverDone, history
  <2>2. CASE ~KeepRunning
    BY <1>6, <1>c, <2>2 DEF DeliverDone, EndIteration, listVars, history
  <2> QED
    BY <2>1, <2>2
<1>7. ASSUME NEW d \in Connections, DeliverMessage(d)
      PROVE  Consumed'
  BY <1>7, <1>b DEF DeliverMessage, history
<1>8. ASSUME NEW consumed \in BOOLEAN, DeliveryReplied(consumed)
      PROVE  Consumed'
  <2>1. /\ topMessage \in Messages /\ pc = "Query" /\ pc' = "Delivered"
        /\ UNCHANGED <<listVars, topMessage>>
        /\ topMessage <= TotalEnqueuedMessages
    BY <1>8, InHand DEF DeliveryReplied, ThreadState
  <2>2. FirstConsumed => consumedBy[topMessage] = {} /\ ~successfulDeliveryAndConsume
    BY <2>1
  <2>3. \A m \in Messages : m # topMessage => consumedBy'[m] = consumedBy[m]
    BY <1>8 DEF DeliveryReplied, TypeOK, CoreTypeOK
  <2>4. consumedBy'[topMessage] = IF consumed THEN consumedBy[topMessage] \cup {subscriber}
                                              ELSE consumedBy[topMessage]
    BY <1>8, <2>1 DEF DeliveryReplied, TypeOK, CoreTypeOK
  <2>5. successfulDeliveryAndConsume' = (successfulDeliveryAndConsume \/ consumed)
    BY <1>8 DEF DeliveryReplied
  <2>6. successfulDeliveryAndConsume' => consumedBy'[topMessage'] # {}
    BY <2>1, <2>4, <2>5
  <2>7. \A m \in Messages : consumedBy'[m] # {} => m <= TotalEnqueuedMessages'
    BY <2>1, <2>3 DEF listVars
  <2>8. FirstConsumed => AtMostOneConsumer'
    BY <2>1, <2>2, <2>3, <2>4 DEF AtMostOneConsumer
  <2>9. FirstConsumed => \A m \in Messages : consumedBy'[m] # {} =>
           \/ m = topMessage' /\ successfulDeliveryAndConsume'
           \/ ~Queued(m)' /\ m # topMessage'
    BY <2>1, <2>2, <2>3, <2>4, <2>5 DEF listVars, Queued
  <2> QED
    BY <2>1, <2>6, <2>7, <2>8, <2>9
<1>9. CASE DeliveryFailed
  <2>1. FirstConsumed => ~successfulDeliveryAndConsume
    BY <1>9 DEF DeliveryFailed
  <2> QED
    BY <1>9, <1>b, <2>1 DEF DeliveryFailed, history
<1>10. CASE DeliverySettled
  <2>1. FirstConsumed /\ successfulDeliveryAndConsume => yetToBeDelivered' = {}
    BY <1>10 DEF DeliverySettled
  <2>2. /\ pc = "Delivered" /\ pc' = "Deliver"
        /\ UNCHANGED <<listVars, topMessage, consumedBy, successfulDeliveryAndConsume>>
    BY <1>10 DEF DeliverySettled, history
  <2> QED
    BY <1>b, <2>1, <2>2
<1>11. CASE DeliveryAbandoned
  BY <1>11, <1>c DEF DeliveryAbandoned, EndIteration, listVars, history
<1>12. CASE RemoveMessage
  <2>1. Dropped
    BY <1>12, RemoveDrops
  <2>2. ASSUME ShouldRemove, NEW m \in Messages, m = topMessage
        PROVE  ~Queued(m)'
    BY <1>12, <2>2, RemoveDrops DEF Queued
  <2>3. FirstConsumed /\ successfulDeliveryAndConsume => ShouldRemove
    BY DEF ShouldRemove
  <2>4. pc = "Remove" /\ pc' = "Loop" /\ successfulDeliveryAndConsume' = FALSE
        /\ UNCHANGED <<consumedBy, TotalEnqueuedMessages>>
    BY <1>12 DEF RemoveMessage, EndIteration, history
  <2>5. FirstConsumed => \A m \in Messages : consumedBy[m] # {} => ~Queued(m)'
    BY <1>d, <2>1, <2>2, <2>3, <2>4
  <2> QED
    BY <2>4, <2>5 DEF AtMostOneConsumer
<1> QED
  BY <1>1, <1>2, <1>3, <1>4, <1>5, <1>6, <1>7, <1>8, <1>9, <1>10, <1>11, <1>12,
     StepCases

-----------------------------------------------------------------------------
(* IInv is an inductive invariant.                                         *)

\* A queue starts with an empty list and a thread that has nothing in hand.
LEMMA InitIInv == Init => IInv
<1> SUFFICES ASSUME Init PROVE IInv
  OBVIOUS
<1> USE DEF Init, InFlight, Open
<1>1. TypeOK
  <2>1. messages \in Seq(Messages)
    BY EmptySeq
  <2>2. /\ 0 \in 0..AttemptCap /\ 0 \in 0..MaxEnqueued
        /\ attempts \in [Messages -> [Connections -> 0..AttemptCap]]
        /\ calls \in [Messages -> [Connections -> 0..AttemptCap]]
    BY ConstantsAssumption
  <2>3. CoreTypeOK
    BY <2>1, <2>2 DEF CoreTypeOK
  <2> QED
    BY <2>3 DEF TypeOK, OuterTypeOK
<1>2. QueueSorted /\ Oldest
  BY DEF QueueSorted, Oldest
<1>3. ThreadState
  BY DEF ThreadState
<1>4. Budget
  BY ConstantsAssumption DEF Budget
<1>5. Acknowledged /\ Consumed
  BY DEF Acknowledged, Consumed, AtMostOneConsumer
<1> QED
  BY <1>1, <1>2, <1>3, <1>4, <1>5 DEF IInv

\* No handler and no step of the delivery thread leaves the invariant.
LEMMA StepIInv == IInv /\ [Next]_vars => IInv'
<1> SUFFICES ASSUME IInv, [Next]_vars PROVE IInv'
  OBVIOUS
<1> USE DEF IInv
<1>1. TypeOK' /\ QueueSorted' /\ ThreadState' /\ Oldest'
  BY TypeStep, QueueSortedStep, ThreadStateStep, OldestStep
<1>2. Budget' /\ Acknowledged' /\ Consumed'
  BY BudgetStep, AcknowledgedStep, ConsumedStep
<1> QED
  BY <1>1, <1>2

\* Every reachable state of a queue, its thread and its handlers satisfies IInv.
THEOREM Invariance == Spec => []IInv
  BY InitIInv, StepIInv, PTL DEF Spec

\* Variables keep their types: ids, counters and program points of the code.
THEOREM TypeCorrect == Spec => []TypeOK
<1>1. IInv => TypeOK
  BY DEF IInv
<1> QED
  BY <1>1, Invariance, PTL

-----------------------------------------------------------------------------
(* The safety properties.                                                  *)

\* DeliverMessage never offers a message before an earlier one has been dealt
\* with: delivery is in the order of EnqueueMessage.
THEOREM OrderOfDelivery == Spec => []InOrder
<1>1. IInv => InOrder
  <2> SUFFICES ASSUME IInv, pc = "Query", NEW m \in Messages, m > topMessage,
                      NEW c \in Connections
               PROVE  calls[m][c] = 0
    BY DEF InOrder
  <2>1. calls[m][c] \in Nat /\ m \in Nat /\ topMessage \in Nat
    BY ListFacts, ConstantsAssumption DEF IInv, TypeOK, CoreTypeOK, Messages
  <2>2. ~(calls[m][c] > 0)
    BY <2>1 DEF IInv, Oldest, InFlight
  <2> QED
    BY <2>1, <2>2
<1> QED
  BY <1>1, Invariance, PTL

\* MaxDeliveryAttempts bounds the calls of DeliverMessage for one message and
\* one connection.
THEOREM BoundedAttempts == Spec => []AttemptsBounded
<1>1. IInv => AttemptsBounded
  BY DEF IInv, Budget, AttemptsBounded
<1> QED
  BY <1>1, Invariance, PTL

\* Under FirstConsumedSubscriber a message has one consumer at most.
THEOREM SingleConsumer == Spec => []AtMostOneConsumer
<1>1. IInv => AtMostOneConsumer
  BY DEF IInv, Consumed, AtMostOneConsumer
<1> QED
  BY <1>1, Invariance, PTL

\* DeliverMessage is not called again for a subscriber that acknowledged.
THEOREM NoDuplicateDelivery == Spec => NoRedelivery
<1>1. IInv /\ [Next]_vars =>
        [\A c \in Connections :
            DeliverMessage(c) => c \notin delivered[topMessage]]_vars
  <2> SUFFICES ASSUME IInv, NEW c \in Connections, DeliverMessage(c)
               PROVE  c \notin delivered[topMessage]
    OBVIOUS
  <2>1. topMessage \in Messages /\ c \notin satisfied[topMessage] /\ pc = "Deliver"
    BY InHand DEF IInv, DeliverMessage, ThreadState, InFlight
  <2> QED
    BY <2>1 DEF IInv, Acknowledged
<1> QED
  BY <1>1, Invariance, PTL DEF Spec, NoRedelivery

\* A message the thread removes has been consumed (first consumer takes it), or
\* has reached, or used up its attempts on, every subscriber of that moment.
THEOREM RemovalIsJustified == Spec => RemovedOnlyWhenSettled
<1>1. IInv /\ [Next]_vars =>
        [RemoveMessage /\ messages' # messages =>
            \/ FirstConsumed /\ consumedBy[topMessage] # {}
            \/ \A c \in subscribers : Settled(topMessage, c)]_vars
  <2> SUFFICES ASSUME IInv, RemoveMessage, messages' # messages,
                      ~(FirstConsumed /\ consumedBy[topMessage] # {}),
                      NEW c \in subscribers
               PROVE  Settled(topMessage, c)
    OBVIOUS
  <2>1. topMessage \in Messages /\ c \in Connections
    BY InHand DEF IInv, RemoveMessage, InFlight, TypeOK, OuterTypeOK
  <2>2. ShouldRemove
    BY DEF RemoveMessage
  <2>3. ~(FirstConsumed /\ successfulDeliveryAndConsume)
    BY DEF IInv, Consumed
  <2>4. c \in satisfied[topMessage]
    BY <2>2, <2>3 DEF ShouldRemove, YetToBeDelivered
  <2> QED
    BY <2>1, <2>4 DEF IInv, Acknowledged
<1> QED
  BY <1>1, Invariance, PTL DEF Spec, RemovedOnlyWhenSettled
=============================================================================
