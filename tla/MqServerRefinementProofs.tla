---------------------- MODULE MqServerRefinementProofs ----------------------
(***************************************************************************)
(* MqServer implements ServerContract, for all constants: each step is a   *)
(* step of the contract or changes nothing the contract sees.              *)
(*                                                                         *)
(* Besides IInv of MqServerProofs this needs that a new object is blank    *)
(* and that only a thread which is being joined is told to end             *)
(* (ObjectInv), and that the message in the hands of a thread is the first *)
(* of its list or no longer in it (HandInv): then List.Remove takes off    *)
(* the head.                                                               *)
(***************************************************************************)
EXTENDS MqServerRefinement, MqServerProofs

ObjectInv ==
    \A o \in Objects :
        /\ o > created => messages[o] = <<>> /\ subscribers[o] = {}
        /\ Alive(o) /\ ~KeepRunning[o] => joined = o

\* Queries whose handlers will not touch a list any more.
Over == { n \in Queries : handlerPc[n] \in {"Success", "Replied"} }

\* A list has each message once.
ListOK(o) ==
    /\ \A i \in 1..Len(messages[o]) : messages[o][i] \in Over
    /\ \A i, j \in 1..Len(messages[o]) : messages[o][i] = messages[o][j] => i = j

\* The message in hand can only be first.
HandOK(o) == topMessage[o] # 0 =>
    /\ topMessage[o] \in Over
    /\ \A i \in 1..Len(messages[o]) : messages[o][i] = topMessage[o] => i = 1

HandInv == \A o \in Objects : ListOK(o) /\ HandOK(o)

RefinementInv == IInv /\ ObjectInv /\ HandInv

-----------------------------------------------------------------------------
(* The invariant *)

\* What is over stays over; only EnqueueMessage adds to a list, and only a query
\* that was not over.
LEMMA OverStays ==
    ASSUME TypeOK, Next, NEW n \in Queries, n \in Over
    PROVE  n \in Over'
<1>1. CASE Client
  <2>1. CASE \E c \in Connections, op \in Operations, q \in QueueNames : Query(c, op, q)
    <3>1. PICK op \in Operations, m \in Queries :
              /\ \A k \in Queries : handlerPc[k] = "unsent" <=> k >= m
              /\ handlerPc' = [handlerPc EXCEPT ![m] = FirstStep(op)]
      BY <2>1 DEF Query
    <3>2. m # n
      BY <3>1, ServerAssumption DEF Over, Queries
    <3> QED
      BY <3>1, <3>2 DEF Over, TypeOK, QueryTypeOK
  <2>2. CASE UNCHANGED handlerPc
    BY <2>2 DEF Over
  <2> QED
    BY <1>1, <2>1, <2>2 DEF Client, Connect, Disconnect, QueryTimeout, queryVars
<1>2. ASSUME NEW m \in Queries, Handler(m) PROVE n \in Over'
  BY <1>2, HandlerFacts DEF Advances, DeleteQueue, DeleteQueue_Joined, Serves, At, Reply,
     HandlerGoto, Over, TypeOK, QueryTypeOK
<1>3. CASE UNCHANGED handlerPc
  BY <1>3 DEF Over
<1> QED
  BY <1>1, <1>2, <1>3, Frames DEF Next, queryVars

\* New objects are blank, and a thread told to end is being joined.
LEMMA ObjectStep ==
    ASSUME IInv, ObjectInv, Next
    PROVE  ObjectInv'
<1> USE DEF IInv
<1>0. created \in Nat /\ \A o \in Objects : o \in Nat
  BY DEF TypeOK, RegistryTypeOK, Objects
<1>1. ASSUME UNCHANGED <<created, messages, subscribers, KeepRunning, joined>>,
             \A o \in Objects : Alive(o)' => Alive(o)
      PROVE  ObjectInv'
  BY <1>1 DEF ObjectInv
<1>2. ASSUME NEW n \in Queries, Handler(n) PROVE ObjectInv'
  <2>1. CASE CreateQueue(n)
    <3>1. CASE UNCHANGED <<created, registry, KeepRunning, thread>>
      BY <1>1, <2>1, <3>1 DEF CreateQueue, Alive
    <3>2. CASE /\ created < MaxCreated /\ created' = created + 1
               /\ KeepRunning' = [KeepRunning EXCEPT ![created'] = TRUE]
               /\ thread' = [thread EXCEPT ![created'] = "Loop"]
      <4>1. /\ created' \in Objects
            /\ UNCHANGED <<messages, subscribers, joined>>
        BY <1>0, <2>1, <3>2, ServerAssumption DEF CreateQueue, Objects
      <4>2. \A o \in Objects : o # created' =>
                thread'[o] = thread[o] /\ KeepRunning'[o] = KeepRunning[o]
        BY <3>2 DEF TypeOK, QueueTypeOK
      <4>3. KeepRunning'[created'] = TRUE
        BY <3>2, <4>1 DEF TypeOK, QueueTypeOK
      <4>4. \A o \in Objects : o > created' => messages'[o] = <<>> /\ subscribers'[o] = {}
        BY <1>0, <3>2, <4>1 DEF ObjectInv
      <4>5. \A o \in Objects : Alive(o)' /\ ~KeepRunning'[o] => joined' = o
        <5> SUFFICES ASSUME NEW o \in Objects, Alive(o)', ~KeepRunning'[o]
                     PROVE  joined' = o
          OBVIOUS
        <5>1. o # created'
          BY <4>3
        <5>2. Alive(o) /\ ~KeepRunning[o]
          BY <4>2, <5>1 DEF Alive
        <5> QED
          BY <4>1, <5>2 DEF ObjectInv
      <4> QED
        BY <4>4, <4>5 DEF ObjectInv
    <3> QED
      BY <2>1, <3>1, <3>2 DEF CreateQueue
  <2>2. CASE DeleteQueue(n)
    <3>1. /\ DictionaryFree /\ joined' = Found(n) /\ Found(n) \in Objects
          /\ KeepRunning' = [KeepRunning EXCEPT ![Found(n)] = FALSE]
          /\ UNCHANGED <<created, messages, subscribers, thread>>
      BY <2>2, ServesFacts DEF DeleteQueue, Serves
    <3>2. \A o \in Objects : ~(Alive(o) /\ ~KeepRunning[o])
      BY <3>1, HolderFacts DEF ObjectInv, Objects
    <3> QED
      BY <3>1, <3>2 DEF ObjectInv, Alive, TypeOK, QueueTypeOK
  <2>3. CASE DeleteQueue_Joined(n)
    <3>1. /\ thread[joined] = "Exited"
          /\ UNCHANGED <<created, messages, subscribers, thread, KeepRunning>>
      BY <2>3 DEF DeleteQueue_Joined, queueVars
    <3> QED
      BY <3>1 DEF ObjectInv, Alive
  <2>4. CASE \/ SubscribeToQueue(n) \/ UnsubscribeFromQueue(n)
             \/ EnqueueMessage(n) \/ PurgeQueue(n)
    <3>1. Found(n) \in Objects /\ Found(n) \in Registered
      BY <2>4, ServesFacts DEF SubscribeToQueue, UnsubscribeFromQueue, EnqueueMessage,
                               PurgeQueue
    <3>2. Found(n) <= created
      BY <3>1 DEF RegistryInv, Registered
    <3>3. /\ UNCHANGED <<created, KeepRunning, thread, joined>>
          /\ \A o \in Objects : o # Found(n) => UNCHANGED <<messages[o], subscribers[o]>>
      BY <2>4 DEF SubscribeToQueue, UnsubscribeFromQueue, EnqueueMessage, PurgeQueue,
                  registryVars, TypeOK, QueueTypeOK
    <3> QED
      BY <1>0, <3>1, <3>2, <3>3 DEF ObjectInv, Alive
  <2>5. CASE TestKeepRunning(n) \/ Retry(n) \/ QueueNotFound(n) \/ Reply(n)
    BY <1>1, <2>5 DEF TestKeepRunning, Retry, QueueNotFound, Reply, queueVars,
                      registryVars, Alive
  <2> QED
    BY <1>2, <2>1, <2>2, <2>3, <2>4, <2>5 DEF Handler, HandlerUse
<1>3. ASSUME NEW c \in Connections, OnDisconnected(c) PROVE ObjectInv'
  <2>1. \A o \in Objects : subscribers[o] = {} => subscribers'[o] = {}
    BY <1>3 DEF OnDisconnected, OnDisconnected_Test, RmServer_OnDisconnected, queueVars
  <2> QED
    BY <1>3, <2>1, Frames DEF ObjectInv, Alive, registryVars
<1>4. CASE Stop \/ Stopping \/ Start
  <2>1. UNCHANGED <<created, messages, subscribers, thread>>
    BY <1>4, Frames
  <2>2. ASSUME NEW o \in Objects, Stop_Queue(o) PROVE ObjectInv'
    <3>1. \A p \in Objects : ~(Alive(p) /\ ~KeepRunning[p])
      BY <2>2 DEF Stop_Queue, ObjectInv, Objects
    <3> QED
      BY <2>1, <2>2, <3>1 DEF Stop_Queue, ObjectInv, Alive, TypeOK, QueueTypeOK
  <2>3. CASE Stop_Joined
    BY <2>1, <2>3 DEF Stop_Joined, ObjectInv, Alive, queueVars
  <2>4. CASE Stop \/ Stop_Flag \/ Stop_Use \/ Stop_Return \/ Start
    BY <1>1, <2>1, <2>4 DEF Stop, Stop_Flag, Stop_Use, Stop_Return, Start, queueVars,
                            registryVars, Alive
  <2> QED
    BY <1>4, <2>2, <2>3, <2>4 DEF Stopping
<1>5. ASSUME NEW o \in Objects, DeliveryThread(o) PROVE ObjectInv'
  <2>1. UNCHANGED <<created, subscribers, KeepRunning, joined>>
    BY <1>5, Frames DEF registryVars
  <2>2. CASE UNCHANGED messages
    BY <1>1, <1>5, <2>1, <2>2, ThreadFacts
  <2>3. CASE Thread_Scan(o) \/ Thread_UseAll(o)
    <3>1. ~(o > created)
      BY <2>3 DEF Thread_Scan, Thread_UseAll, TypeOK, QueueTypeOK
    <3>2. \A p \in Objects : p # o => UNCHANGED messages[p]
      BY <2>3 DEF Thread_Scan, Thread_UseAll, TypeOK, QueueTypeOK
    <3> QED
      BY <1>5, <2>1, <3>1, <3>2, ThreadFacts DEF ObjectInv
  <2> QED
    BY <1>5, <2>2, <2>3 DEF DeliveryThread, Thread_Exit, Thread_TryUseAll,
                            Thread_Delivered
<1>6. CASE Client
  BY <1>1, <1>6, Frames DEF queueVars, registryVars, Alive
<1> QED
  BY <1>2, <1>3, <1>4, <1>5, <1>6 DEF Next

\* The message in the hands of a thread is first in its list or not in it:
\* handlers add at the end what is in no list, and what is taken out of a list
\* leaves the order of the rest.
LEMMA HandStep ==
    ASSUME IInv, HandInv, Next
    PROVE  HandInv'
<1> USE DEF IInv
<1>0. \A o \in Objects : /\ messages[o] \in Seq(Queries) /\ Len(messages[o]) \in Nat
                        /\ \A i \in 1..Len(messages[o]) : messages[o][i] \in Queries
                        /\ topMessage[o] # 0 => topMessage[o] \in Queries
  BY DEF TypeOK, QueueTypeOK, Queries
<1>1. \A n \in Over : n \in Over'
  BY OverStays DEF Over
<1>2. ASSUME NEW o \in Objects, UNCHANGED <<messages[o], topMessage[o]>>
      PROVE  ListOK(o)' /\ HandOK(o)'
  BY <1>0, <1>1, <1>2 DEF HandInv, ListOK, HandOK
<1>3. ASSUME NEW o \in Objects, messages'[o] \in Seq(Queries),
             Within(messages'[o], messages[o])
      PROVE  ListOK(o)'
  <2>1. /\ DOMAIN messages'[o] = 1..Len(messages'[o])
        /\ DOMAIN messages[o] = 1..Len(messages[o])
        /\ \A i \in 1..Len(messages'[o]) : i \in Nat
    BY <1>0, <1>3, LenProperties
  <2>2. PICK at \in [1..Len(messages'[o]) -> 1..Len(messages[o])] :
            /\ \A i \in 1..Len(messages'[o]) : messages'[o][i] = messages[o][at[i]]
            /\ \A i, j \in 1..Len(messages'[o]) : i < j => at[i] < at[j]
    BY <1>3, <2>1 DEF Within
  <2>3. \A i \in 1..Len(messages'[o]) : messages'[o][i] \in Over'
    BY <1>1, <2>2 DEF HandInv, ListOK
  <2>4. ASSUME NEW i \in 1..Len(messages'[o]), NEW j \in 1..Len(messages'[o]),
               messages'[o][i] = messages'[o][j]
        PROVE  i = j
    <3>1. at[i] = at[j]
      BY <2>2, <2>4 DEF HandInv, ListOK
    <3>2. ~(i < j) /\ ~(j < i)
      <4>1. \A k \in 1..Len(messages[o]) : k \in Nat
        BY <1>0
      <4> QED
        BY <2>2, <3>1, <4>1
    <3> QED
      BY <2>1, <3>2
  <2> QED
    BY <2>3, <2>4 DEF ListOK
<1>4. ASSUME NEW n \in Queries, Handler(n), NEW o \in Objects
      PROVE  ListOK(o)' /\ HandOK(o)'
  <2>1. UNCHANGED topMessage
    BY <1>4, Frames
  <2>2. CASE EnqueueMessage(n)
    <3>1. /\ Found(n) \in Objects /\ handlerPc[n] = "Use"
          /\ messages' = [messages EXCEPT ![Found(n)] = Append(@, n)]
          /\ handlerPc' = [handlerPc EXCEPT ![n] = "Success"]
      BY <2>2, ServesFacts DEF EnqueueMessage, HandlerGoto
    <3>2. CASE o # Found(n)
      BY <1>2, <2>1, <3>1, <3>2 DEF TypeOK, QueueTypeOK
    <3>3. CASE o = Found(n)
      <4>1. messages'[o] = Append(messages[o], n)
        BY <3>1, <3>3 DEF TypeOK, QueueTypeOK
      <4>2. /\ Len(messages'[o]) = Len(messages[o]) + 1
            /\ \A i \in 1..Len(messages[o]) : messages'[o][i] = messages[o][i]
            /\ messages'[o][Len(messages[o]) + 1] = n
        BY <1>0, <4>1, AppendProperties
      <4>3. n \notin Over /\ n \in Over'
        BY <3>1 DEF Over, TypeOK, QueryTypeOK
      <4>4. \A i \in 1..Len(messages[o]) : messages[o][i] \in Over /\ messages[o][i] # n
        BY <4>3 DEF HandInv, ListOK
      <4>5. ListOK(o)'
        <5>1. \A i \in 1..Len(messages'[o]) : messages'[o][i] \in Over'
          <6>1. ASSUME NEW i \in 1..Len(messages'[o])
                PROVE  messages'[o][i] \in Over'
            <7>1. i \in 1..Len(messages[o]) \/ i = Len(messages[o]) + 1
              BY <1>0, <4>2
            <7> QED
              BY <1>1, <4>2, <4>3, <4>4, <7>1
          <6> QED
            BY <6>1
        <5>2. \A i, j \in 1..Len(messages'[o]) : messages'[o][i] = messages'[o][j] => i = j
          <6>1. ASSUME NEW i \in 1..Len(messages'[o]), NEW j \in 1..Len(messages'[o]),
                       messages'[o][i] = messages'[o][j]
                PROVE  i = j
            <7>1. /\ i \in 1..Len(messages[o]) \/ i = Len(messages[o]) + 1
                  /\ j \in 1..Len(messages[o]) \/ j = Len(messages[o]) + 1
              BY <1>0, <4>2
            <7>2. CASE i \in 1..Len(messages[o]) /\ j \in 1..Len(messages[o])
              BY <4>2, <6>1, <7>2 DEF HandInv, ListOK
            <7> QED
              BY <4>2, <4>4, <6>1, <7>1, <7>2
          <6> QED
            BY <6>1
        <5> QED
          BY <5>1, <5>2 DEF ListOK
      <4>6. HandOK(o)'
        <5>1. topMessage[o] # 0 => topMessage[o] # n
          BY <4>3 DEF HandInv, HandOK
        <5> QED
          BY <1>0, <1>1, <2>1, <4>2, <5>1 DEF HandInv, HandOK
      <4> QED
        BY <4>5, <4>6
    <3> QED
      BY <3>2, <3>3
  <2>3. CASE PurgeQueue(n)
    <3>1. messages'[o] = messages[o] \/ messages'[o] = <<>>
      BY <2>3 DEF PurgeQueue, TypeOK, QueueTypeOK
    <3>2. CASE messages'[o] = <<>>
      <4>1. 1..Len(messages'[o]) = {}
        BY <3>2
      <4> QED
        BY <1>0, <1>1, <2>1, <4>1 DEF HandInv, ListOK, HandOK
    <3> QED
      BY <1>2, <2>1, <3>1, <3>2
  <2>4. CASE UNCHANGED messages
    BY <1>2, <2>1, <2>4
  <2> QED
    BY <1>4, <2>2, <2>3, <2>4 DEF Handler, HandlerUse, TestKeepRunning, Retry,
       QueueNotFound, CreateQueue, DeleteQueue, DeleteQueue_Joined, SubscribeToQueue,
       UnsubscribeFromQueue, Reply, queueVars
<1>5. ASSUME NEW p \in Objects, DeliveryThread(p), NEW o \in Objects
      PROVE  ListOK(o)' /\ HandOK(o)'
  <2>1. CASE o # p
    <3>1. UNCHANGED <<messages[o], topMessage[o]>>
      BY <1>5, <2>1 DEF DeliveryThread, Thread_Exit, Thread_TryUseAll, Thread_Scan,
         Thread_Delivered, Thread_UseAll, TypeOK, QueueTypeOK
    <3> QED
      BY <1>2, <3>1
  <2>2. CASE o = p /\ Thread_Scan(p)
    <3>1. PICK rest \in Sublists(messages[o]) : messages'[o] = rest
      BY <2>2 DEF Thread_Scan, TypeOK, QueueTypeOK
    <3>2. \/ topMessage'[o] = 0
          \/ messages'[o] # <<>> /\ topMessage'[o] = Head(messages'[o])
      BY <2>2 DEF Thread_Scan, TypeOK, QueueTypeOK
    <3>3. /\ Len(messages'[o]) \in Nat /\ messages'[o] \in Seq(Queries)
          /\ ListOK(o)'
      <4>1. rest \in Seq(Queries) /\ Within(rest, messages[o])
        BY <1>0, SublistFacts
      <4> QED
        BY <1>3, <3>1, <4>1, LenProperties
    <3>4. CASE messages'[o] # <<>> /\ topMessage'[o] = Head(messages'[o])
      <4>1. 1 \in 1..Len(messages'[o]) /\ topMessage'[o] = messages'[o][1]
        BY <3>3, <3>4
      <4> QED
        BY <3>3, <4>1 DEF ListOK, HandOK
    <3> QED
      BY <3>2, <3>3, <3>4 DEF HandOK
  <2>3. CASE o = p /\ Thread_UseAll(p)
    <3>1. topMessage'[o] = 0
      BY <2>3 DEF Thread_UseAll, TypeOK, QueueTypeOK
    <3>2. messages'[o] = messages[o] \/ messages'[o] = RemoveFirst(messages[o], topMessage[o])
      BY <2>3 DEF Thread_UseAll, TypeOK, QueueTypeOK
    <3>3. topMessage[o] # 0
      BY <2>3 DEF Thread_UseAll, TypeOK, QueueTypeOK
    <3>4. \/ messages'[o] = messages[o]
          \/ messages[o] # <<>> /\ messages'[o] = Tail(messages[o])
      <4>1. \A i \in 1..Len(messages[o]) : messages[o][i] = topMessage[o] => i = 1
        BY <3>3 DEF HandInv, HandOK
      <4>2. messages[o] \in Seq(Queries)
        BY <1>0
      <4>3. \/ RemoveFirst(messages[o], topMessage[o]) = messages[o]
            \/ /\ messages[o] # <<>>
               /\ RemoveFirst(messages[o], topMessage[o]) = Tail(messages[o])
        BY <4>1, <4>2, RemoveFirstHead
      <4> QED
        BY <3>2, <4>3
    <3>5. messages'[o] \in Seq(Queries) /\ Within(messages'[o], messages[o])
      <4>1. PICK s : s = messages[o]
        OBVIOUS
      <4>2. /\ s \in Seq(Queries) /\ Within(s, s)
            /\ s # <<>> => Tail(s) \in Seq(Queries) /\ Within(Tail(s), s)
        BY <1>0, <4>1, WithinItself, HeadTailProperties
      <4> QED
        BY <3>4, <4>1, <4>2
    <3> QED
      BY <1>3, <3>1, <3>5 DEF HandOK
  <2>4. CASE o = p /\ (Thread_Exit(p) \/ Thread_TryUseAll(p) \/ Thread_Delivered(p))
    <3>1. /\ UNCHANGED messages
          /\ topMessage'[o] = topMessage[o] \/ topMessage'[o] = 0
      BY <2>4 DEF Thread_Exit, Thread_TryUseAll, Thread_Delivered, TypeOK, QueueTypeOK
    <3> QED
      BY <1>0, <1>1, <3>1 DEF HandInv, ListOK, HandOK
  <2> QED
    BY <1>5, <2>1, <2>2, <2>3, <2>4 DEF DeliveryThread
<1>6. CASE \/ Client \/ Stop \/ Stopping \/ Start \/ \E c \in Connections : OnDisconnected(c)
  <2>1. UNCHANGED <<messages, topMessage>>
    BY <1>6, Frames DEF queueVars
  <2> QED
    BY <1>2, <2>1 DEF HandInv
<1> QED
  BY <1>4, <1>5, <1>6 DEF Next, HandInv

\* The invariant the refinement rests on.
LEMMA RefinementInvariance == Spec => []RefinementInv
<1>1. Init => RefinementInv
  <2> SUFFICES ASSUME Init PROVE RefinementInv
    OBVIOUS
  <2>1. \A o \in Objects : messages[o] = <<>> /\ subscribers[o] = {} /\ topMessage[o] = 0
    BY DEF Init
  <2>2. \A o \in Objects : Alive(o) => KeepRunning[o]
    BY DEF Init, Alive
  <2>3. \A o \in Objects : 1..Len(messages[o]) = {}
    BY <2>1
  <2>4. ObjectInv /\ HandInv
    BY <2>1, <2>2, <2>3 DEF ObjectInv, HandInv, ListOK, HandOK
  <2> QED
    BY <2>4, InitHolds DEF RefinementInv
<1>2. RefinementInv /\ [Next]_vars => RefinementInv'
  <2> SUFFICES ASSUME RefinementInv, [Next]_vars PROVE RefinementInv'
    OBVIOUS
  <2>1. IInv'
    BY InvariantStep DEF RefinementInv
  <2>2. CASE Next
    BY <2>1, <2>2, ObjectStep, HandStep DEF RefinementInv
  <2>3. CASE UNCHANGED vars
    BY <2>1, <2>3 DEF RefinementInv, ObjectInv, HandInv, ListOK, HandOK,
       Over, Alive, vars, registryVars, queueVars, queryVars
  <2> QED
    BY <2>2, <2>3
<1> QED
  BY <1>1, <1>2, PTL DEF Spec

-----------------------------------------------------------------------------
(* What the contract sees *)

\* It sees nothing change where nothing changes.
LEMMA Unseen ==
    /\ UNCHANGED stopPc => UNCHANGED Phase
    /\ UNCHANGED connection => UNCHANGED ConnectionState
    /\ UNCHANGED handlerPc => UNCHANGED Status
    /\ UNCHANGED registry => UNCHANGED Queues
    /\ UNCHANGED <<registry, thread>> => UNCHANGED Delivering
    /\ UNCHANGED <<registry, messages>> => UNCHANGED MessagesOf
    /\ UNCHANGED <<registry, topMessage>> => UNCHANGED Serving
    /\ UNCHANGED <<registry, subscribers>> => UNCHANGED SubscribersOf
  BY DEF Phase, PhaseOf, ConnectionState, ConnectionOf, Status, StatusOf, Queues,
         Delivering, Alive, MessagesOf, Serving, SubscribersOf, Of

\* It sees a handler go on.
LEMMA StatusChange ==
    ASSUME TypeOK, NEW n \in Queries, NEW pc, HandlerGoto(n, pc)
    PROVE  /\ Status' = [Status EXCEPT ![n] = StatusOf(pc)]
           /\ Status[n] = StatusOf(handlerPc[n])
  BY DEF TypeOK, QueryTypeOK, HandlerGoto, Status

\* It sees nothing of a handler that goes on with its query pending.
LEMMA StatusKept ==
    ASSUME TypeOK, NEW n \in Queries, NEW pc, HandlerGoto(n, pc),
           StatusOf(pc) = StatusOf(handlerPc[n])
    PROVE  UNCHANGED Status
<1>1. Status' = [Status EXCEPT ![n] = Status[n]]
  BY StatusChange
<1> QED
  BY <1>1 DEF Status

\* It sees a connection change.
LEMMA ConnectionChange ==
    ASSUME TypeOK, NEW c \in Connections, NEW state,
           connection' = [connection EXCEPT ![c] = state]
    PROVE  /\ ConnectionState' = [ConnectionState EXCEPT ![c] = ConnectionOf(state)]
           /\ ConnectionState[c] = ConnectionOf(connection[c])
  BY DEF TypeOK, QueryTypeOK, ConnectionState

\* A connection is open for the contract if it is open.
LEMMA OpenIsOpen ==
    ASSUME TypeOK, NEW c \in Connections
    PROVE  /\ Contract!IsOpen(c) <=> connection[c] = "open"
           /\ ConnectionState[c] = "closing" <=> connection[c] \in {"Loop", "Use"}
           /\ ConnectionState[c] = ConnectionOf(connection[c])
  BY DEF TypeOK, QueryTypeOK, ConnectionState, ConnectionOf, Contract!IsOpen

\* It sees an object change under the one name the object has.
LEMMA ObjectChange ==
    ASSUME TypeOK, RegistryInv, UNCHANGED registry,
           NEW p \in QueueNames, registry[p] # 0, NEW x
    PROVE  /\ messages' = [messages EXCEPT ![registry[p]] = x] =>
                 MessagesOf' = [MessagesOf EXCEPT ![p] = x]
           /\ topMessage' = [topMessage EXCEPT ![registry[p]] = x] =>
                 Serving' = [Serving EXCEPT ![p] = x]
           /\ subscribers' = [subscribers EXCEPT ![registry[p]] = x] =>
                 SubscribersOf' = [SubscribersOf EXCEPT ![p] = x]
           /\ thread' = [thread EXCEPT ![registry[p]] = x] =>
                 Delivering' = [Delivering EXCEPT ![p] = x \notin {"Unstarted", "Exited"}]
<1>1. \A q \in QueueNames : /\ registry[q] # 0 => registry[q] \in Objects
                            /\ registry[q] = registry[p] => q = p
  BY DEF TypeOK, RegistryTypeOK, RegistryInv, Objects
<1>2. /\ DOMAIN messages = Objects /\ DOMAIN topMessage = Objects
      /\ DOMAIN subscribers = Objects /\ DOMAIN thread = Objects
  BY DEF TypeOK, QueueTypeOK
<1>3. messages' = [messages EXCEPT ![registry[p]] = x] =>
          MessagesOf' = [MessagesOf EXCEPT ![p] = x]
  BY <1>1, <1>2 DEF MessagesOf, Of
<1>4. topMessage' = [topMessage EXCEPT ![registry[p]] = x] =>
          Serving' = [Serving EXCEPT ![p] = x]
  BY <1>1, <1>2 DEF Serving, Of
<1>5. subscribers' = [subscribers EXCEPT ![registry[p]] = x] =>
          SubscribersOf' = [SubscribersOf EXCEPT ![p] = x]
  BY <1>1, <1>2 DEF SubscribersOf, Of
<1>6. thread' = [thread EXCEPT ![registry[p]] = x] =>
          Delivering' = [Delivering EXCEPT ![p] = x \notin {"Unstarted", "Exited"}]
  <2> SUFFICES ASSUME thread' = [thread EXCEPT ![registry[p]] = x]
               PROVE  Delivering' =
                        [Delivering EXCEPT ![p] = x \notin {"Unstarted", "Exited"}]
    OBVIOUS
  <2>1. \A q \in QueueNames :
            (registry'[q] # 0 /\ thread'[registry'[q]] \notin {"Unstarted", "Exited"})
            = (IF q = p THEN x \notin {"Unstarted", "Exited"}
               ELSE registry[q] # 0 /\ thread[registry[q]] \notin {"Unstarted", "Exited"})
    BY <1>1, <1>2
  <2> QED
    BY <2>1 DEF Delivering, Alive
<1> QED
  BY <1>3, <1>4, <1>5, <1>6

\* What is known of a registered object by its name.
LEMMA NamedObject ==
    ASSUME TypeOK, NEW p \in QueueNames, registry[p] # 0
    PROVE  /\ registry[p] \in Objects /\ registry[p] \in Registered /\ p \in Queues
           /\ MessagesOf[p] = messages[registry[p]]
           /\ Serving[p] = topMessage[registry[p]]
           /\ SubscribersOf[p] = subscribers[registry[p]]
           /\ Delivering[p] = Alive(registry[p])
  BY DEF TypeOK, RegistryTypeOK, Registered, Objects, Queues, MessagesOf, Serving,
         SubscribersOf, Delivering, Of, Alive

\* A queue delivers as long as its thread goes on.
LEMMA StillDelivers ==
    ASSUME TypeOK, RegistryInv, UNCHANGED registry,
           NEW p \in QueueNames, registry[p] # 0, Alive(registry[p]),
           NEW pc \in {"Loop", "Holding", "Query", "Remove"},
           thread' = [thread EXCEPT ![registry[p]] = pc]
    PROVE  UNCHANGED Delivering
<1>1. Delivering[p] = TRUE
  BY NamedObject
<1>2. (pc \notin {"Unstarted", "Exited"}) = TRUE
  OBVIOUS
<1>3. Delivering' = [Delivering EXCEPT ![p] = TRUE]
  BY <1>2, ObjectChange
<1> QED
  BY <1>1, <1>3 DEF Delivering

-----------------------------------------------------------------------------
(* The steps *)

\* What clients do is seen as it is.
LEMMA ClientStep ==
    ASSUME RefinementInv, Client
    PROVE  Contract!Client
<1> USE DEF RefinementInv, IInv
<1>1. UNCHANGED <<Phase, Queues, Delivering, MessagesOf, Serving, SubscribersOf>>
  BY Frames, Unseen DEF stopVars, registryVars, queueVars
<1>2. ASSUME NEW c \in Connections, Connect(c) PROVE Contract!Connect(c)
  <2>1. /\ stopPc = "running" /\ connection[c] = "new"
        /\ connection' = [connection EXCEPT ![c] = "open"]
        /\ UNCHANGED <<query, handlerPc, answer>>
    BY <1>2 DEF Connect, ServerInv, queryVars
  <2> QED
    BY <1>1, <2>1, Unseen, ConnectionChange DEF Contract!Connect, Contract!queryVars,
       Contract!queueVars, ConnectionOf, Phase, PhaseOf
<1>3. ASSUME NEW c \in Connections, Disconnect(c) PROVE Contract!Disconnect(c)
  <2>1. /\ connection[c] = "open"
        /\ connection' = [connection EXCEPT ![c] = "Loop"]
        /\ UNCHANGED <<query, handlerPc, answer>>
    BY <1>3 DEF Disconnect, queryVars
  <2>2. ConnectionState' = [ConnectionState EXCEPT ![c] = "closing"]
    BY <2>1, ConnectionChange DEF ConnectionOf
  <2> QED
    BY <1>1, <2>1, <2>2, Unseen, OpenIsOpen DEF Contract!Disconnect,
       Contract!queryVars, Contract!queueVars
<1>4. ASSUME NEW c \in Connections, NEW op \in Operations, NEW q \in QueueNames,
             Query(c, op, q)
      PROVE  \E n \in Queries : Contract!Send(n, c, op, q)
  <2>1. PICK n \in Queries :
            /\ \A m \in Queries : query[m].connection = c => answer[m] # "none"
            /\ \A m \in Queries : handlerPc[m] = "unsent" <=> m >= n
            /\ query' = [query EXCEPT ![n] = [connection |-> c, operation |-> op,
                                              queue |-> q]]
            /\ HandlerGoto(n, FirstStep(op))
    BY <1>4 DEF Query, HandlerGoto
  <2>2. connection[c] = "open" /\ UNCHANGED <<connection, answer>>
    BY <1>4 DEF Query
  <2>3. StatusOf(FirstStep(op)) = "pending"
    BY DEF FirstStep, StatusOf
  <2>4. Status' = [Status EXCEPT ![n] = "pending"]
    BY <2>1, <2>3, StatusChange
  <2>5. \A m \in Queries : Status[m] = "unsent" <=> handlerPc[m] = "unsent"
    BY DEF Status, StatusOf, TypeOK, QueryTypeOK
  <2> QED
    BY <1>1, <2>1, <2>2, <2>4, <2>5, Unseen, OpenIsOpen DEF Contract!Send,
       Contract!queueVars
<1>5. ASSUME NEW n \in Queries, QueryTimeout(n) PROVE Contract!Timeout(n)
  <2>1. Status[n] # "unsent"
    BY <1>5 DEF QueryTimeout, Status, StatusOf
  <2> QED
    BY <1>1, <1>5, <2>1, Unseen DEF QueryTimeout, Contract!Timeout, Contract!queueVars
<1> QED
  BY <1>2, <1>3, <1>4, <1>5 DEF Client, Contract!Client

\* A handler that gets through ends its query.
LEMMA EndsFacts ==
    ASSUME TypeOK, NEW n \in Queries, NEW outcome \in {"Success", "Failed"},
           handlerPc[n] \in {"Loop", "Use", "Join"}, HandlerGoto(n, outcome),
           UNCHANGED <<stopVars, connection, query, answer>>
    PROVE  Contract!Ends(n, outcome)
<1>1. StatusOf(outcome) = outcome /\ StatusOf(handlerPc[n]) = "pending"
  BY DEF StatusOf
<1>2. Status' = [Status EXCEPT ![n] = outcome] /\ Status[n] = "pending"
  BY <1>1, StatusChange
<1> QED
  BY <1>2, Unseen DEF Contract!Ends, stopVars

\* What a handler serves is the queue of the name it was asked for.
LEMMA PerformsFacts ==
    ASSUME RefinementInv, NEW n \in Queries, NEW op, Serves(n, op),
           HandlerGoto(n, "Success"), UNCHANGED <<stopVars, connection, query, answer>>
    PROVE  /\ Contract!Performs(n, op)
           /\ query[n].queue \in QueueNames /\ registry[query[n].queue] # 0
           /\ Found(n) = registry[query[n].queue]
<1> USE DEF RefinementInv, IInv
<1>1. /\ query[n].queue \in QueueNames /\ registry[query[n].queue] # 0
      /\ Found(n) = registry[query[n].queue]
      /\ query[n].operation = op /\ handlerPc[n] = "Use"
  BY ServesFacts DEF Serves, Found
<1>2. Contract!Ends(n, "Success")
  BY <1>1, EndsFacts
<1> QED
  BY <1>1, <1>2 DEF Contract!Performs, Queues

\* A handler that has its locks has its effect, and is done.
LEMMA ServeStep ==
    ASSUME RefinementInv, NEW n \in Queries,
           \/ SubscribeToQueue(n) \/ UnsubscribeFromQueue(n)
           \/ EnqueueMessage(n) \/ PurgeQueue(n)
    PROVE  Contract!Effect(n)
<1> USE DEF RefinementInv, IInv, registryVars
<1>1. CASE SubscribeToQueue(n)
  <2>1. /\ Contract!Performs(n, "SubscribeToQueue")
        /\ query[n].queue \in QueueNames /\ registry[query[n].queue] # 0
        /\ Found(n) = registry[query[n].queue]
    BY <1>1, PerformsFacts DEF SubscribeToQueue
  <2>2. PICK x : x = SubscribersOf[query[n].queue] \cup {query[n].connection}
    OBVIOUS
  <2>3. subscribers' = [subscribers EXCEPT ![registry[query[n].queue]] = x]
    BY <1>1, <2>1, <2>2, NamedObject DEF SubscribeToQueue
  <2>4. SubscribersOf' = [SubscribersOf EXCEPT ![query[n].queue] = x]
    BY <1>1, <2>1, <2>3, ObjectChange DEF SubscribeToQueue
  <2> QED
    BY <1>1, <2>1, <2>2, <2>4, Unseen DEF SubscribeToQueue, Contract!SubscribeToQueue,
       Contract!Effect
<1>2. CASE UnsubscribeFromQueue(n)
  <2>1. /\ Contract!Performs(n, "UnsubscribeFromQueue")
        /\ query[n].queue \in QueueNames /\ registry[query[n].queue] # 0
        /\ Found(n) = registry[query[n].queue]
    BY <1>2, PerformsFacts DEF UnsubscribeFromQueue
  <2>2. PICK x : x = SubscribersOf[query[n].queue] \ {query[n].connection}
    OBVIOUS
  <2>3. subscribers' = [subscribers EXCEPT ![registry[query[n].queue]] = x]
    BY <1>2, <2>1, <2>2, NamedObject DEF UnsubscribeFromQueue
  <2>4. SubscribersOf' = [SubscribersOf EXCEPT ![query[n].queue] = x]
    BY <1>2, <2>1, <2>3, ObjectChange DEF UnsubscribeFromQueue
  <2> QED
    BY <1>2, <2>1, <2>2, <2>4, Unseen DEF UnsubscribeFromQueue,
       Contract!UnsubscribeFromQueue, Contract!Effect
<1>3. CASE EnqueueMessage(n)
  <2>1. /\ Contract!Performs(n, "EnqueueMessage")
        /\ query[n].queue \in QueueNames /\ registry[query[n].queue] # 0
        /\ Found(n) = registry[query[n].queue]
    BY <1>3, PerformsFacts DEF EnqueueMessage
  <2>2. MessagesOf' = [MessagesOf EXCEPT ![query[n].queue] = Append(@, n)]
    BY <1>3, <2>1, ObjectChange, NamedObject DEF EnqueueMessage
  <2> QED
    BY <1>3, <2>1, <2>2, Unseen DEF EnqueueMessage, Contract!EnqueueMessage,
       Contract!Effect
<1>4. CASE PurgeQueue(n)
  <2>1. /\ Contract!Performs(n, "PurgeQueue")
        /\ query[n].queue \in QueueNames /\ registry[query[n].queue] # 0
        /\ Found(n) = registry[query[n].queue]
    BY <1>4, PerformsFacts DEF PurgeQueue
  <2>2. MessagesOf' = [MessagesOf EXCEPT ![query[n].queue] = <<>>]
    BY <1>4, <2>1, ObjectChange DEF PurgeQueue
  <2> QED
    BY <1>4, <2>1, <2>2, Unseen DEF PurgeQueue, Contract!PurgeQueue, Contract!Effect
<1> QED
  BY <1>1, <1>2, <1>3, <1>4

\* A new object is a new queue, empty and without subscribers.
LEMMA CreateStep ==
    ASSUME RefinementInv, NEW n \in Queries, CreateQueue(n)
    PROVE  Contract!Effect(n)
<1> USE DEF RefinementInv, IInv
<1>1. /\ query[n].operation = "CreateQueue" /\ handlerPc[n] = "Use"
      /\ query[n].queue \in QueueNames
  BY DEF CreateQueue, At, QueryInv, Sent
<1>2. UNCHANGED <<messages, topMessage, subscribers>> /\ Contract!Ends(n, "Success")
  BY <1>1, EndsFacts DEF CreateQueue
<1>3. CASE Found(n) # 0 /\ UNCHANGED <<registry, thread>>
  BY <1>1, <1>2, <1>3, Unseen DEF Found, Queues, Contract!CreateExisting,
     Contract!Performs, Contract!Effect, Contract!queueVars
<1>4. CASE /\ Found(n) = 0 /\ created < MaxCreated /\ created' = created + 1
           /\ registry' = [registry EXCEPT ![query[n].queue] = created']
           /\ thread' = [thread EXCEPT ![created'] = "Loop"]
  <2> DEFINE p == query[n].queue
  <2>1. /\ created \in Nat /\ created' \in Objects /\ created' # 0 /\ created' > created
        /\ registry[p] = 0
    BY <1>4, ServerAssumption DEF Found, TypeOK, RegistryTypeOK, Objects
  <2>2. \A q \in QueueNames : registry'[q] = IF q = p THEN created' ELSE registry[q]
    BY <1>1, <1>4 DEF TypeOK, RegistryTypeOK
  <2>3. \A q \in QueueNames : registry[q] # created' /\ registry[q] \in Nat
    BY <2>1 DEF RegistryInv, TypeOK, RegistryTypeOK
  <2>4. /\ messages'[created'] = <<>> /\ subscribers'[created'] = {}
        /\ topMessage'[created'] = 0 /\ thread'[created'] = "Loop"
    BY <1>2, <1>4, <2>1 DEF ObjectInv, TypeOK, QueueTypeOK
  <2>5. \A q \in QueueNames : q # p => thread'[registry[q]] = thread[registry[q]]
    BY <1>4, <2>3 DEF TypeOK, QueueTypeOK
  <2>6. Queues' = Queues \cup {p} /\ p \notin Queues
    BY <1>1, <2>1, <2>2 DEF Queues
  <2>7. Delivering' = [Delivering EXCEPT ![p] = TRUE]
    <3>1. \A q \in QueueNames : Delivering'[q] = IF q = p THEN TRUE ELSE Delivering[q]
      BY <2>1, <2>2, <2>4, <2>5 DEF Delivering, Alive
    <3> QED
      BY <3>1 DEF Delivering
  <2>8. MessagesOf' = [MessagesOf EXCEPT ![p] = <<>>]
    BY <1>1, <1>2, <2>1, <2>2, <2>4 DEF MessagesOf, Of
  <2>9. SubscribersOf' = [SubscribersOf EXCEPT ![p] = {}]
    BY <1>1, <1>2, <2>1, <2>2, <2>4 DEF SubscribersOf, Of
  <2>10. UNCHANGED Serving
    BY <1>1, <1>2, <2>1, <2>2, <2>4 DEF Serving, Of
  <2>11. Contract!CreateQueue(n)
    BY <1>1, <1>2, <2>6, <2>7, <2>8, <2>9, <2>10 DEF Contract!CreateQueue
  <2> QED
    BY <2>11 DEF Contract!Effect
<1> QED
  BY <1>3, <1>4 DEF CreateQueue

\* A DeleteQueue has its effect when its join ends: the thread is gone, and the
\* name with it.
LEMMA DeleteStep ==
    ASSUME RefinementInv, NEW n \in Queries, DeleteQueue_Joined(n)
    PROVE  Contract!Effect(n)
<1> USE DEF RefinementInv, IInv
<1> DEFINE p == query[n].queue
<1>1. /\ query[n].operation = "DeleteQueue" /\ handlerPc[n] = "Join"
      /\ p \in QueueNames
  BY DEF DeleteQueue_Joined, At, QueryInv, Sent
<1>2. joined # 0 /\ joined = registry[p] /\ thread[joined] = "Exited"
  BY <1>1 DEF HolderInv, DeleteQueue_Joined
<1>3. UNCHANGED <<messages, topMessage, subscribers, thread>> /\ Contract!Ends(n, "Success")
  BY <1>1, EndsFacts DEF DeleteQueue_Joined, queueVars
<1>4. topMessage[registry[p]] = 0
  BY <1>1, <1>2, NamedObject DEF TypeOK, QueueTypeOK
<1>5. \A q \in QueueNames : registry'[q] = IF q = p THEN 0 ELSE registry[q]
  BY <1>1 DEF DeleteQueue_Joined, TypeOK, RegistryTypeOK
<1>6. Queues' = Queues \ {p} /\ p \in Queues
  BY <1>1, <1>2, <1>5 DEF Queues
<1>7. Delivering[p] = FALSE /\ UNCHANGED Delivering
  BY <1>1, <1>2, <1>3, <1>5 DEF Delivering, Alive
<1>8. Serving[p] = 0 /\ UNCHANGED Serving
  BY <1>1, <1>2, <1>3, <1>4, <1>5 DEF Serving, Of
<1>9. MessagesOf' = [MessagesOf EXCEPT ![p] = <<>>]
  BY <1>1, <1>3, <1>5 DEF MessagesOf, Of
<1>10. SubscribersOf' = [SubscribersOf EXCEPT ![p] = {}]
  BY <1>1, <1>3, <1>5 DEF SubscribersOf, Of
<1>11. Contract!Performs(n, "DeleteQueue")
  BY <1>1, <1>3, <1>6 DEF Contract!Performs
<1>12. Contract!DeleteQueue(n)
  BY <1>6, <1>7, <1>8, <1>9, <1>10, <1>11 DEF Contract!DeleteQueue
<1> QED
  BY <1>12 DEF Contract!Effect

\* Every step of a handler is the effect of its query, its end without effect on
\* a stopped server, the reply, or an attempt that is not seen.
LEMMA HandlerStep ==
    ASSUME RefinementInv, NEW n \in Queries, Handler(n)
    PROVE  \/ Contract!Effect(n) \/ Contract!GiveUp(n) \/ Contract!Reply(n)
           \/ UNCHANGED Contract!vars
<1> USE DEF RefinementInv, IInv, stopVars, registryVars, queueVars, Contract!vars,
            Contract!queueVars, Contract!queryVars
<1>1. CASE TestKeepRunning(n)
  <2>1. CASE serverRunning
    <3>1. HandlerGoto(n, "Use") /\ StatusOf("Use") = StatusOf(handlerPc[n])
      BY <1>1, <2>1 DEF TestKeepRunning, StatusOf
    <3>2. UNCHANGED Status
      BY <3>1, StatusKept
    <3> QED
      BY <1>1, <3>2, Unseen DEF TestKeepRunning
  <2>2. CASE ~serverRunning
    <3>1. HandlerGoto(n, "Success") /\ handlerPc[n] = "Loop"
      BY <1>1, <2>2 DEF TestKeepRunning
    <3>2. Contract!Ends(n, "Success")
      BY <1>1, <3>1, EndsFacts DEF TestKeepRunning
    <3>3. stopPc # "running" /\ query[n].connection \in Connections
      BY <2>2, <3>1 DEF ServerInv, QueryInv, Sent
    <3>4. Phase # "running" /\ ~Contract!IsOpen(query[n].connection)
      BY <3>3, OpenIsOpen DEF ServerInv, Phase, PhaseOf
    <3> QED
      BY <1>1, <3>2, <3>4, Unseen DEF TestKeepRunning, Contract!GiveUp
  <2> QED
    BY <2>1, <2>2
<1>2. CASE Retry(n) \/ DeleteQueue(n)
  <2>1. \/ HandlerGoto(n, "Loop") \/ HandlerGoto(n, "Join")
    BY <1>2 DEF Retry, DeleteQueue
  <2>2. handlerPc[n] = "Use"
    BY <1>2 DEF Retry, DeleteQueue, Serves, At
  <2>3. UNCHANGED Status
    BY <2>1, <2>2, StatusKept DEF StatusOf
  <2> QED
    BY <1>2, <2>3, Unseen DEF Retry, DeleteQueue
<1>3. CASE QueueNotFound(n)
  <2> DEFINE outcome == IF query[n].operation \in {"EnqueueMessage", "PurgeQueue"}
                        THEN "Failed" ELSE "Success"
  <2>1. /\ handlerPc[n] = "Use" /\ query[n].operation # "CreateQueue"
        /\ registry[query[n].queue] = 0 /\ HandlerGoto(n, outcome)
    BY <1>3 DEF QueueNotFound, Found
  <2>2. Contract!Ends(n, outcome)
    BY <1>3, <2>1, EndsFacts DEF QueueNotFound
  <2> QED
    BY <1>3, <2>1, <2>2, Unseen DEF QueueNotFound, Contract!Missing, Contract!Effect,
       Queues
<1>4. CASE Reply(n)
  <2>1. query[n].connection \in Connections /\ handlerPc[n] \in {"Success", "Failed"}
    BY <1>4 DEF Reply, QueryInv, Sent
  <2>2. /\ Status' = [Status EXCEPT ![n] = "Replied"]
        /\ Status[n] = handlerPc[n]
    <3>1. HandlerGoto(n, "Replied") /\ StatusOf("Replied") = "Replied"
      BY <1>4 DEF Reply, StatusOf
    <3>2. StatusOf(handlerPc[n]) = handlerPc[n]
      BY <2>1 DEF StatusOf
    <3> QED
      BY <3>1, <3>2, StatusChange
  <2>3. answer' = [answer EXCEPT ![n] =
            IF @ = "none" /\ Contract!IsOpen(query[n].connection) THEN Status[n] ELSE @]
    BY <1>4, <2>1, <2>2, OpenIsOpen DEF Reply
  <2> QED
    BY <1>4, <2>1, <2>2, <2>3, Unseen DEF Reply, Contract!Reply
<1> QED
  BY <1>1, <1>2, <1>3, <1>4, CreateStep, DeleteStep, ServeStep DEF Handler, HandlerUse

\* The handler of a closed connection takes its subscriptions away, all at last.
LEMMA DisconnectedStep ==
    ASSUME RefinementInv, NEW c \in Connections, OnDisconnected(c)
    PROVE  \/ Contract!ForgetSome(c) \/ Contract!ForgetAll(c) \/ Contract!Abandon(c)
           \/ UNCHANGED Contract!vars
<1> USE DEF RefinementInv, IInv, stopVars, registryVars, queueVars, queryVars,
            Contract!queueVars, Contract!queryVars
<1>1. /\ UNCHANGED <<Phase, Status, Queues, Delivering, MessagesOf, Serving>>
      /\ UNCHANGED <<query, answer, registry>>
  BY Frames, Unseen
<1>2. CASE OnDisconnected_Test(c)
  <2>1. /\ connection[c] = "Loop"
        /\ connection' = [connection EXCEPT ![c] =
                              IF serverRunning THEN "Use" ELSE "Abandoned"]
        /\ UNCHANGED SubscribersOf
    BY <1>1, <1>2, Unseen DEF OnDisconnected_Test
  <2>2. CASE serverRunning
    <3>1. ConnectionState' = [ConnectionState EXCEPT ![c] = "closing"]
          /\ ConnectionState[c] = "closing"
      BY <2>1, <2>2, ConnectionChange DEF ConnectionOf
    <3>2. UNCHANGED ConnectionState
      BY <3>1 DEF ConnectionState
    <3> QED
      BY <1>1, <2>1, <3>2 DEF Contract!vars
  <2>3. CASE ~serverRunning
    <3>1. /\ ConnectionState' = [ConnectionState EXCEPT ![c] = "closed"]
          /\ ConnectionState[c] = "closing"
      BY <2>1, <2>3, ConnectionChange DEF ConnectionOf
    <3>2. Phase # "running"
      BY <2>3 DEF ServerInv, Phase, PhaseOf
    <3> QED
      BY <1>1, <2>1, <3>1, <3>2 DEF Contract!Abandon
  <2> QED
    BY <2>2, <2>3
<1>3. CASE RmServer_OnDisconnected(c)
  <2>1. PICK missed \in SUBSET { o \in Registered : Holds(o) } :
            /\ subscribers' = [o \in Objects |->
                   IF o \in Registered \ missed THEN subscribers[o] \ {c}
                                                ELSE subscribers[o]]
            /\ connection' = [connection EXCEPT ![c] =
                   IF missed = {} THEN "Removed" ELSE "Loop"]
    BY <1>3 DEF RmServer_OnDisconnected
  <2>2. connection[c] = "Use" /\ ConnectionState[c] = "closing"
    BY <1>3, OpenIsOpen DEF RmServer_OnDisconnected
  <2> DEFINE left == { q \in QueueNames : registry[q] \in missed }
  <2>3. /\ left \subseteq Queues /\ \A q \in left : Delivering[q]
        /\ missed = {} => left = {}
    BY DEF Registered, Holds, Queues, Delivering, Alive
  <2>4. SubscribersOf' = [q \in QueueNames |-> IF q \in left THEN SubscribersOf[q]
                                               ELSE SubscribersOf[q] \ {c}]
    <3>1. ASSUME NEW q \in QueueNames
          PROVE  (IF registry[q] = 0 THEN {} ELSE subscribers'[registry[q]])
                   = IF q \in left THEN SubscribersOf[q] ELSE SubscribersOf[q] \ {c}
      <4>1. CASE registry[q] = 0
        BY <2>3, <4>1 DEF SubscribersOf, Of, Queues
      <4>2. CASE registry[q] # 0
        BY <2>1, <4>2, NamedObject
      <4> QED
        BY <4>1, <4>2
    <3> QED
      BY <1>1, <3>1 DEF SubscribersOf, Of
  <2>5. Contract!Forget(c, left)
    BY <1>1, <2>2, <2>3, <2>4 DEF Contract!Forget
  <2>6. CASE missed = {}
    <3>1. ConnectionState' = [ConnectionState EXCEPT ![c] = "closed"]
      BY <2>1, <2>6, ConnectionChange DEF ConnectionOf
    <3>2. left = {}
      BY <2>6
    <3> QED
      BY <2>5, <3>1, <3>2 DEF Contract!ForgetAll
  <2>7. CASE missed # {}
    <3>1. ConnectionState' = [ConnectionState EXCEPT ![c] = "closing"]
      BY <2>1, <2>7, ConnectionChange DEF ConnectionOf
    <3>2. UNCHANGED ConnectionState
      BY <2>2, <3>1 DEF ConnectionState
    <3> QED
      BY <2>3, <2>5, <3>2 DEF Contract!ForgetSome
  <2> QED
    BY <2>6, <2>7
<1> QED
  BY <1>2, <1>3 DEF OnDisconnected

\* Stop is seen when it is called and when it returns, with no queue delivering.
LEMMA StopStep ==
    ASSUME RefinementInv, Stop \/ Stopping \/ Start
    PROVE  \/ Contract!Stop \/ Contract!StopReturns \/ Contract!Start
           \/ UNCHANGED Contract!vars
<1> USE DEF RefinementInv, IInv, Contract!queueVars, Contract!queryVars
<1>1. /\ UNCHANGED <<Status, Queues, Delivering, MessagesOf, Serving, SubscribersOf>>
      /\ UNCHANGED <<query, answer>>
  BY Frames, Unseen DEF queryVars
<1>2. CASE Stop
  <2>1. /\ Phase = "running" /\ Phase' = "stopping"
        /\ connection' = [c \in Connections |->
               IF connection[c] = "open" THEN "Loop" ELSE connection[c]]
    BY <1>2 DEF Stop, Phase, PhaseOf
  <2>2. ConnectionState' = [c \in Connections |->
            IF Contract!IsOpen(c) THEN "closing" ELSE ConnectionState[c]]
    <3>1. \A c \in Connections :
              ConnectionOf(connection'[c])
                = IF Contract!IsOpen(c) THEN "closing" ELSE ConnectionState[c]
      BY <2>1, OpenIsOpen DEF ConnectionOf
    <3> QED
      BY <3>1 DEF ConnectionState
  <2> QED
    BY <1>1, <2>1, <2>2 DEF Contract!Stop
<1>3. CASE Stop_Flag \/ Stop_Use \/ (\E o \in Objects : Stop_Queue(o)) \/ Stop_Joined
  <2>1. UNCHANGED <<Phase, connection>>
    BY <1>3 DEF Stop_Flag, Stop_Use, Stop_Queue, Stop_Joined, stopVars, Phase, PhaseOf
  <2> QED
    BY <1>1, <2>1, Unseen DEF Contract!vars
<1>4. CASE Stop_Return
  <2>1. /\ Phase = "stopping" /\ Phase' = "stopped" /\ UNCHANGED connection
        /\ stopPc = "queues" /\ toStop = {}
    BY <1>4 DEF Stop_Return, Phase, PhaseOf
  <2>2. \A q \in Queues : ~Delivering[q]
    BY <2>1, NamedObject DEF HolderInv, Alive, Queues
  <2> QED
    BY <1>1, <2>1, <2>2, Unseen DEF Contract!StopReturns
<1>5. CASE Start
  <2>1. Phase = "stopped" /\ Phase' = "running" /\ UNCHANGED connection
    BY <1>5 DEF Start, Phase, PhaseOf
  <2> QED
    BY <1>1, <2>1, Unseen DEF Contract!Start
<1> QED
  BY <1>2, <1>3, <1>4, <1>5 DEF Stopping

\* A thread that is told to end was told by Stop or by a DeleteQueue that waits
\* for it.
LEMMA EndFacts ==
    ASSUME RefinementInv, NEW q \in QueueNames, registry[q] # 0,
           Alive(registry[q]), ~KeepRunning[registry[q]]
    PROVE  \/ Phase = "stopping"
           \/ \E n \in Queries : /\ Status[n] = "pending"
                                 /\ query[n].operation = "DeleteQueue"
                                 /\ query[n].queue = q
<1> USE DEF RefinementInv, IInv
<1>1. joined = registry[q]
  BY NamedObject DEF ObjectInv
<1>2. holder \in {"DeleteQueue", "Stop"}
  BY <1>1 DEF TypeOK, RegistryTypeOK
<1>3. CASE holder = "Stop"
  BY <1>3 DEF HolderInv, Phase, PhaseOf
<1>4. CASE holder = "DeleteQueue"
  <2>1. PICK n \in Queries : handlerPc[n] = "Join"
    BY <1>4 DEF TypeOK, RegistryTypeOK
  <2>2. /\ query[n].operation = "DeleteQueue" /\ joined = registry[query[n].queue]
        /\ query[n].queue \in QueueNames
    BY <2>1 DEF HolderInv, QueryInv, Sent
  <2>3. query[n].queue = q
    BY <1>1, <2>2 DEF RegistryInv
  <2>4. Status[n] = "pending"
    BY <2>1 DEF Status, StatusOf
  <2> QED
    BY <2>2, <2>3, <2>4
<1> QED
  BY <1>2, <1>3, <1>4

\* Scanning a list is expiration, or takes the head in hand.
LEMMA ScanStep ==
    ASSUME RefinementInv, NEW q \in QueueNames, registry[q] # 0,
           Thread_Scan(registry[q])
    PROVE  Contract!Expire(q) \/ Contract!Take(q)
<1> USE DEF RefinementInv, IInv, stopVars, registryVars, queryVars, Contract!queryVars
<1> DEFINE o == registry[q]
<1>1. /\ o \in Objects /\ MessagesOf[q] = messages[o] /\ Serving[q] = topMessage[o]
      /\ SubscribersOf[q] = subscribers[o] /\ Delivering[q] = Alive(o)
  BY NamedObject
<1>2. /\ Alive(o) /\ topMessage[o] = 0
      /\ UNCHANGED <<stopPc, registry, connection, query, handlerPc, answer, subscribers>>
  BY <1>1 DEF Thread_Scan, Alive, TypeOK, QueueTypeOK
<1>3. PICK rest \in Sublists(messages[o]) :
          messages' = [messages EXCEPT ![o] = rest]
  BY DEF Thread_Scan
<1>4. rest \in Contract!Sublists(MessagesOf[q])
  BY <1>1 DEF Sublists, Places, Contract!Sublists, Contract!Places
<1>5. messages'[o] = rest /\ MessagesOf' = [MessagesOf EXCEPT ![q] = rest]
  BY <1>1, <1>2, <1>3, ObjectChange DEF TypeOK, QueueTypeOK
<1>6. UNCHANGED Delivering
  <2>1. \/ thread' = [thread EXCEPT ![o] = "Query"]
        \/ thread' = [thread EXCEPT ![o] = "Loop"]
    BY DEF Thread_Scan, ThreadGoto
  <2> QED
    BY <1>2, <2>1, StillDelivers
<1>7. Contract!DropExpired(q)
  <2>1. Delivering[q] /\ Serving[q] = 0
    BY <1>1, <1>2
  <2>2. \E left \in Contract!Sublists(MessagesOf[q]) :
            MessagesOf' = [MessagesOf EXCEPT ![q] = left]
    BY <1>4, <1>5
  <2> QED
    BY <1>2, <1>6, <2>1, <2>2, Unseen DEF Contract!DropExpired
<1>8. CASE UNCHANGED topMessage
  BY <1>2, <1>7, <1>8, Unseen DEF Contract!Expire
<1>9. CASE /\ subscribers[o] # {} /\ messages'[o] # <<>>
           /\ topMessage' = [topMessage EXCEPT ![o] = Head(messages'[o])]
  <2>1. PICK head : head = Head(messages'[o])
    OBVIOUS
  <2>2. Serving' = [Serving EXCEPT ![q] = head]
    <3>1. topMessage' = [topMessage EXCEPT ![o] = head]
      BY <1>9, <2>1
    <3> QED
      BY <1>2, <3>1, ObjectChange
  <2>3. MessagesOf'[q] = messages'[o]
    BY <1>5 DEF MessagesOf
  <2> QED
    BY <1>1, <1>7, <1>9, <2>1, <2>2, <2>3 DEF Contract!Take
<1> QED
  BY <1>8, <1>9 DEF Thread_Scan

\* Removal takes off the message in hand, which is the head, or nothing.
LEMMA RemovalStep ==
    ASSUME RefinementInv, NEW q \in QueueNames, registry[q] # 0,
           Thread_UseAll(registry[q])
    PROVE  Contract!Finish(q)
<1> USE DEF RefinementInv, IInv, stopVars, registryVars, queryVars, Contract!queryVars
<1> DEFINE o == registry[q]
<1>1. /\ o \in Objects /\ MessagesOf[q] = messages[o] /\ Serving[q] = topMessage[o]
      /\ Delivering[q] = Alive(o)
  BY NamedObject
<1>2. /\ Alive(o) /\ topMessage[o] # 0
      /\ topMessage' = [topMessage EXCEPT ![o] = 0]
      /\ thread' = [thread EXCEPT ![o] = "Loop"]
      /\ UNCHANGED <<stopPc, registry, connection, query, handlerPc, answer, subscribers>>
  BY <1>1 DEF Thread_UseAll, ThreadGoto, Alive, TypeOK, QueueTypeOK
<1>3. Serving' = [Serving EXCEPT ![q] = 0]
  BY <1>2, ObjectChange
<1>4. UNCHANGED Delivering
  BY <1>2, StillDelivers
<1>5. \/ UNCHANGED MessagesOf
      \/ /\ MessagesOf[q] # <<>> /\ Head(MessagesOf[q]) = Serving[q]
         /\ MessagesOf' = [MessagesOf EXCEPT ![q] = Tail(@)]
  <2>1. CASE UNCHANGED messages
    BY <1>2, <2>1, Unseen
  <2>2. CASE messages' = [messages EXCEPT ![o] = RemoveFirst(messages[o], topMessage[o])]
    <3>1. PICK rest : rest = RemoveFirst(messages[o], topMessage[o])
      OBVIOUS
    <3>2. MessagesOf' = [MessagesOf EXCEPT ![q] = rest]
      BY <1>2, <2>2, <3>1, ObjectChange
    <3>3. /\ messages[o] \in Seq(Queries)
          /\ \A i \in 1..Len(messages[o]) : messages[o][i] = topMessage[o] => i = 1
      BY <1>1, <1>2 DEF HandInv, HandOK, TypeOK, QueueTypeOK
    <3>4. \/ rest = messages[o]
          \/ messages[o] # <<>> /\ Head(messages[o]) = topMessage[o] /\ rest = Tail(messages[o])
      BY <3>1, <3>3, RemoveFirstHead
    <3>5. rest = messages[o] => UNCHANGED MessagesOf
      BY <1>1, <3>2 DEF MessagesOf
    <3> QED
      BY <1>1, <3>2, <3>4, <3>5
  <2> QED
    BY <2>1, <2>2 DEF Thread_UseAll
<1> QED
  BY <1>1, <1>2, <1>3, <1>4, <1>5, Unseen DEF Contract!Finish

\* A delivery thread serves the queue its object is registered as, to the end.
LEMMA ThreadStep ==
    ASSUME RefinementInv, NEW o \in Objects, DeliveryThread(o)
    PROVE  \/ \E q \in QueueNames : \/ Contract!Expire(q) \/ Contract!Take(q)
                                   \/ Contract!Finish(q) \/ Contract!EndDelivery(q)
           \/ UNCHANGED Contract!vars
<1> USE DEF RefinementInv, IInv, stopVars, registryVars, queryVars, Contract!queryVars,
            Contract!queueVars
<1>1. Alive(o)
  BY DEF DeliveryThread, Thread_Exit, Thread_TryUseAll, Thread_Scan, Thread_Delivered,
         Thread_UseAll, Alive
<1>2. PICK q \in QueueNames : registry[q] = o /\ registry[q] # 0
  BY <1>1 DEF RegistryInv, NoOrphanThread, Registered
<1>3. /\ Serving[q] = topMessage[o] /\ Delivering[q] = Alive(o)
      /\ UNCHANGED <<stopPc, registry, connection, query, handlerPc, answer, subscribers>>
  BY <1>2, Frames, NamedObject
<1>4. ASSUME ~KeepRunning[o], thread' = [thread EXCEPT ![o] = "Exited"], UNCHANGED messages,
             Serving' = [Serving EXCEPT ![q] = 0]
      PROVE  Contract!EndDelivery(q)
  <2>1. Delivering' = [Delivering EXCEPT ![q] = FALSE] /\ Delivering[q] = TRUE
    BY <1>1, <1>2, <1>3, <1>4, ObjectChange
  <2> QED
    BY <1>1, <1>2, <1>3, <1>4, <2>1, EndFacts, Unseen DEF Contract!EndDelivery
<1>5. ASSUME NEW pc \in {"Holding", "Remove"}, thread' = [thread EXCEPT ![o] = pc],
             UNCHANGED <<messages, topMessage>>
      PROVE  UNCHANGED Contract!vars
  <2>1. UNCHANGED Delivering
    BY <1>1, <1>2, <1>3, <1>5, StillDelivers
  <2> QED
    BY <1>3, <1>5, <2>1, Unseen DEF Contract!vars
<1>6. CASE Thread_Exit(o)
  <2>1. /\ ~KeepRunning[o] /\ thread' = [thread EXCEPT ![o] = "Exited"]
        /\ UNCHANGED <<messages, topMessage>> /\ topMessage[o] = 0
    BY <1>6 DEF Thread_Exit, ThreadGoto, TypeOK, QueueTypeOK
  <2>2. Serving' = [Serving EXCEPT ![q] = 0]
    <3>1. Serving[q] = 0 /\ UNCHANGED Serving
      BY <1>3, <2>1, Unseen
    <3> QED
      BY <3>1 DEF Serving
  <2> QED
    BY <1>4, <2>1, <2>2
<1>7. CASE Thread_TryUseAll(o)
  BY <1>5, <1>7 DEF Thread_TryUseAll, ThreadGoto
<1>8. CASE Thread_Delivered(o)
  <2>1. CASE KeepRunning[o]
    BY <1>5, <1>8, <2>1 DEF Thread_Delivered, ThreadGoto
  <2>2. CASE ~KeepRunning[o]
    <3>1. /\ thread' = [thread EXCEPT ![o] = "Exited"] /\ UNCHANGED messages
          /\ topMessage' = [topMessage EXCEPT ![o] = 0]
      BY <1>8, <2>2 DEF Thread_Delivered, ThreadGoto
    <3>2. Serving' = [Serving EXCEPT ![q] = 0]
      BY <1>2, <1>3, <3>1, ObjectChange
    <3> QED
      BY <1>4, <2>2, <3>1, <3>2
  <2> QED
    BY <2>1, <2>2
<1> QED
  BY <1>2, <1>6, <1>7, <1>8, ScanStep, RemovalStep DEF DeliveryThread

-----------------------------------------------------------------------------
\* A new server is a new contract.
LEMMA InitRefines == Init => Contract!Init
<1> SUFFICES ASSUME Init PROVE Contract!Init
  OBVIOUS
<1> USE DEF Init, Contract!Init
<1>1. Phase = "running" /\ Queues = InitialQueues
  BY ServerAssumption DEF Phase, PhaseOf, Queues
<1>2. \A q \in QueueNames : registry[q] # 0 => registry[q] \in Objects /\ registry[q] <= created
  <2>1. created \in 0..MaxCreated /\ registry \in [QueueNames -> 0..created]
    BY InitialRegistry
  <2>2. MaxCreated \in Nat
    BY ServerAssumption
  <2> HIDE DEF Init
  <2> QED
    BY <2>1, <2>2 DEF Objects
<1>3. /\ MessagesOf = [q \in QueueNames |-> <<>>] /\ Serving = [q \in QueueNames |-> 0]
      /\ SubscribersOf = [q \in QueueNames |-> {}]
  BY <1>2 DEF MessagesOf, Serving, SubscribersOf, Of
<1>4. Delivering = [q \in QueueNames |-> q \in InitialQueues]
  <2>1. \A q \in QueueNames : (registry[q] # 0 /\ Alive(registry[q])) = (q \in InitialQueues)
    BY <1>2 DEF Alive
  <2> QED
    BY <2>1 DEF Delivering
<1>5. /\ ConnectionState = [c \in Connections |-> "new"]
      /\ Status = [n \in Queries |-> "unsent"]
  BY DEF ConnectionState, ConnectionOf, Status, StatusOf
<1> QED
  BY <1>1, <1>3, <1>4, <1>5

\* Every step is one of the contract, or invisible to it.
LEMMA StepRefines == RefinementInv /\ [Next]_vars => [Contract!Next]_(Contract!vars)
<1> SUFFICES ASSUME RefinementInv, [Next]_vars PROVE [Contract!Next]_(Contract!vars)
  OBVIOUS
<1>1. CASE Client
  BY <1>1, ClientStep DEF Contract!Next
<1>2. CASE Stop \/ Stopping \/ Start
  BY <1>2, StopStep DEF Contract!Next
<1>3. CASE \E n \in Queries : Handler(n)
  BY <1>3, HandlerStep DEF Contract!Next
<1>4. CASE \E c \in Connections : OnDisconnected(c)
  BY <1>4, DisconnectedStep DEF Contract!Next
<1>5. CASE \E o \in Objects : DeliveryThread(o)
  BY <1>5, ThreadStep DEF Contract!Next
<1>6. CASE UNCHANGED vars
  BY <1>6, Unseen DEF vars, stopVars, registryVars, queueVars, queryVars, Contract!vars,
     Contract!queryVars, Contract!queueVars
<1> QED
  BY <1>1, <1>2, <1>3, <1>4, <1>5, <1>6 DEF Next

\* MqServer implements ServerContract: to its clients the server is a set of named
\* queues on which their queries take effect one at a time, whatever handlers
\* loop, threads are joined or connections lost meanwhile (MqServer.cs:276-504).
THEOREM ServerImplementation == Spec => ImplementsServerContract
<1>1. Spec => Contract!Init
  BY InitRefines DEF Spec
<1>2. Spec => [][Contract!Next]_(Contract!vars)
  BY StepRefines, RefinementInvariance, PTL DEF Spec
<1> QED
  BY <1>1, <1>2 DEF ImplementsServerContract, Contract!Spec
=============================================================================
