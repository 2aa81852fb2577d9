--------------------------- MODULE MqServerProofs ---------------------------
(***************************************************************************)
(* Proofs about MqServer: its safety properties, for every number of       *)
(* connections, queues, queries and objects.                               *)
(*                                                                         *)
(* The inductive invariant IInv adds to the types what the lock of the     *)
(* dictionary guards (RegistryInv, HolderInv), what the order of the steps *)
(* of Stop guarantees (ServerInv), that a client waits for its reply       *)
(* (QueryInv), and what success means to the sender of a message           *)
(* (EnqueueInv).                                                           *)
(***************************************************************************)
EXTENDS MqServer, SequenceTheorems, FiniteSetTheorems, WellFoundedInduction, TLAPS

\* Two names never have the same object, and live threads can be reached.
RegistryInv ==
    /\ \A q \in QueueNames : registry[q] <= created
    /\ \A p, q \in QueueNames : registry[p] # 0 /\ registry[p] = registry[q] => p = q
    /\ NoOrphanThread

\* Who holds the dictionary, and whom it joins.
HolderInv ==
    /\ \A n \in Queries : handlerPc[n] = "Join" =>
          /\ query[n].operation = "DeleteQueue"
          /\ joined # 0 /\ joined = registry[query[n].queue]
    /\ \A m, n \in Queries : handlerPc[m] = "Join" /\ handlerPc[n] = "Join" => m = n
    /\ holder = "Stop" <=> stopPc = "queues"
    /\ stopPc = "queues" =>
          /\ \A o \in Registered : o \in toStop \/ thread[o] = "Exited"
          /\ joined # 0 => joined \in toStop

\* No connection is open when the server stops working.
ServerInv ==
    /\ stopPc # "running" => ~listening /\ \A c \in Connections : connection[c] # "open"
    /\ serverRunning \/ stopPc # "running"

Sent(n) == handlerPc[n] # "unsent"

\* Queries are sent in order, those of a connection one at a time.
QueryInv ==
    /\ \A m, n \in Queries : Sent(n) /\ m < n => Sent(m)
    /\ \A n \in Queries :
          IF Sent(n)
          THEN /\ query[n] \in [connection : Connections, operation : AllOperations,
                                queue : QueueNames]
               /\ connection[query[n].connection] # "new"
          ELSE query[n] = NoQuery
    /\ \A m, n \in Queries :
          Sent(n) /\ m < n /\ query[m].connection = query[n].connection =>
              answer[m] # "none"
    /\ \A n \in Queries : handlerPc[n] # "Replied" => answer[n] \in {"none", "timeout"}

IsEnqueued(n) == \E o \in Objects : \E i \in DOMAIN enqueued[o] : enqueued[o][i] = n

\* A message is enqueued by a handler that then reports success; one that
\* reports success without it can no longer reach the sender.
EnqueueInv ==
    /\ \A o \in Objects : \A i \in DOMAIN enqueued[o] :
          handlerPc[enqueued[o][i]] \in {"Success", "Replied"}
    /\ \A n \in Queries :
          query[n].operation = "EnqueueMessage" /\ handlerPc[n] = "Success" =>
              IsEnqueued(n) \/ connection[query[n].connection] # "open"
    /\ AcceptedIsEnqueued /\ EnqueuedOnce /\ SenderOrder

IInv == TypeOK /\ RegistryInv /\ HolderInv /\ ServerInv /\ QueryInv /\ EnqueueInv

-----------------------------------------------------------------------------
(* Lists *)

\* A set of numbers that is not empty has a least element, which Min returns.
LEMMA MinProperties ==
    ASSUME NEW I \in SUBSET Nat, I # {}
    PROVE  Min(I) \in I
<1>1. \E x \in I : \A y \in I : ~(<<y, x>> \in OpToRel(<, Nat))
  BY WFMin, NatLessThanWellFounded
<1>2. \E x \in I : \A y \in I : x <= y
  <2>1. PICK x \in I : \A y \in I : ~(<<y, x>> \in OpToRel(<, Nat))
    BY <1>1
  <2>2. ASSUME NEW y \in I PROVE x <= y
    <3>1. ~(<<y, x>> \in {ss \in Nat \X Nat : ss[1] < ss[2]})
      BY <2>1 DEF OpToRel
    <3>2. ~(y < x)
      BY <3>1
    <3> QED
      BY <3>2
  <2> QED
    BY <2>2
<1> QED
  BY <1>2 DEF Min

\* The elements of t are in s, in the same order.
Within(t, s) ==
    \E at \in [DOMAIN t -> DOMAIN s] :
        /\ \A i \in DOMAIN t : t[i] = s[at[i]]
        /\ \A i, j \in DOMAIN t : i < j => at[i] < at[j]

\* What RemoveAll leaves has its elements from the list, in their order.
LEMMA SublistFacts ==
    ASSUME NEW S, NEW s \in Seq(S), NEW t \in Sublists(s)
    PROVE  t \in Seq(S) /\ Within(t, s)
<1>1. PICK at \in Places(Len(s)) : t = [i \in DOMAIN at |-> s[at[i]]]
  BY DEF Sublists
<1>2. PICK k \in 0..Len(s) : at \in [1..k -> 1..Len(s)]
  BY <1>1 DEF Places
<1>3. Len(s) \in Nat /\ k \in Nat /\ DOMAIN at = 1..k
  BY <1>2, LenProperties
<1>4. t = [i \in 1..k |-> s[at[i]]] /\ \A i \in 1..k : s[at[i]] \in S
  BY <1>1, <1>2, <1>3, ElementOfSeq
<1>5. t \in Seq(S) /\ Len(t) = k
  BY <1>3, <1>4
<1>6. \A i, j \in 1..k : i < j => at[i] < at[j]
  BY <1>1, <1>3 DEF Places
<1>7. DOMAIN t = 1..k /\ DOMAIN s = 1..Len(s)
  BY <1>4, LenProperties
<1> QED
  BY <1>2, <1>4, <1>5, <1>6, <1>7 DEF Within

\* A list, and what follows its first element, is in the list in the same order.
LEMMA WithinItself ==
    ASSUME NEW S, NEW s \in Seq(S)
    PROVE  Within(s, s) /\ (s # <<>> => Within(Tail(s), s))
<1>1. Len(s) \in Nat /\ DOMAIN s = 1..Len(s)
  BY LenProperties
<1>2. Within(s, s)
  <2> DEFINE at == [i \in DOMAIN s |-> i]
  <2>1. at \in [DOMAIN s -> DOMAIN s]
    OBVIOUS
  <2> QED
    BY <2>1 DEF Within
<1>3. ASSUME s # <<>> PROVE Within(Tail(s), s)
  <2> DEFINE at == [i \in DOMAIN Tail(s) |-> i + 1]
  <2>1. /\ DOMAIN Tail(s) = 1..(Len(s) - 1)
        /\ \A i \in 1..(Len(s) - 1) : Tail(s)[i] = s[i + 1]
    BY <1>1, <1>3
  <2>2. at \in [DOMAIN Tail(s) -> DOMAIN s]
    BY <1>1, <2>1
  <2>3. \A i \in DOMAIN Tail(s) : Tail(s)[i] = s[at[i]]
    BY <2>1
  <2>4. \A i, j \in DOMAIN Tail(s) : i < j => at[i] < at[j]
    BY <1>1, <2>1
  <2> HIDE DEF at
  <2> QED
    BY <2>2, <2>3, <2>4 DEF Within
<1> QED
  BY <1>2, <1>3

\* List.Remove takes out one element equal to e, if there is one.
LEMMA RemoveFirstFacts ==
    ASSUME NEW S, NEW s \in Seq(S), NEW e
    PROVE  \/ /\ RemoveFirst(s, e) = s
              /\ \A i \in 1..Len(s) : s[i] # e
           \/ \E k \in 1..Len(s) :
                 /\ s[k] = e
                 /\ RemoveFirst(s, e) = SubSeq(s, 1, k - 1) \o SubSeq(s, k + 1, Len(s))
<1> DEFINE I == { i \in 1..Len(s) : s[i] = e }
<1>1. CASE I = {}
  BY <1>1 DEF RemoveFirst
<1>2. CASE I # {}
  <2>1. Len(s) \in Nat /\ I \in SUBSET Nat
    BY LenProperties
  <2>2. Min(I) \in I
    BY <1>2, <2>1, MinProperties
  <2>3. PICK k \in 1..Len(s) : k = Min(I) /\ s[k] = e
    BY <2>2
  <2>4. RemoveFirst(s, e) = SubSeq(s, 1, k - 1) \o SubSeq(s, k + 1, Len(s))
    BY <1>2, <2>2, <2>3 DEF RemoveFirst, RemoveAt, SelectInSeq
  <2> QED
    BY <2>3, <2>4
<1> QED
  BY <1>1, <1>2

\* List.Remove leaves a list of the same kind.
LEMMA RemoveFirstType ==
    ASSUME NEW S, NEW s \in Seq(S), NEW e
    PROVE  RemoveFirst(s, e) \in Seq(S)
<1>1. Len(s) \in Nat
  BY LenProperties
<1>2. ASSUME NEW k \in 1..Len(s)
      PROVE  SubSeq(s, 1, k - 1) \o SubSeq(s, k + 1, Len(s)) \in Seq(S)
  <2>1. SubSeq(s, 1, k - 1) \in Seq(S) /\ SubSeq(s, k + 1, Len(s)) \in Seq(S)
    BY <1>1
  <2> QED
    BY <2>1, ConcatProperties
<1> QED
  BY <1>2, RemoveFirstFacts

\* If e can only be first, List.Remove takes off the head or nothing.
LEMMA RemoveFirstHead ==
    ASSUME NEW S, NEW s \in Seq(S), NEW e, \A i \in 1..Len(s) : s[i] = e => i = 1
    PROVE  \/ RemoveFirst(s, e) = s
           \/ s # <<>> /\ Head(s) = e /\ RemoveFirst(s, e) = Tail(s)
<1>1. Len(s) \in Nat
  BY LenProperties
<1>2. ASSUME NEW k \in 1..Len(s), s[k] = e,
             RemoveFirst(s, e) = SubSeq(s, 1, k - 1) \o SubSeq(s, k + 1, Len(s))
      PROVE  s # <<>> /\ Head(s) = e /\ RemoveFirst(s, e) = Tail(s)
  <2>1. k = 1 /\ s # <<>> /\ k - 1 = 0 /\ k + 1 = 2
    BY <1>1, <1>2
  <2>2. RemoveFirst(s, e) = SubSeq(s, 1, 0) \o SubSeq(s, 2, Len(s))
    BY <1>2, <2>1
  <2>3. /\ SubSeq(s, 1, 0) = <<>>
        /\ SubSeq(s, 2, Len(s)) \in Seq(S) /\ Tail(s) = SubSeq(s, 2, Len(s))
    BY <1>1, <2>1
  <2>4. <<>> \o SubSeq(s, 2, Len(s)) = SubSeq(s, 2, Len(s))
    BY <2>3
  <2> QED
    BY <1>2, <2>1, <2>2, <2>3, <2>4
<1> QED
  BY <1>2, RemoveFirstFacts

-----------------------------------------------------------------------------
(* Initially *)

\* The initial queues are numbered without a gap.
LEMMA InitialRegistry ==
    ASSUME Init
    PROVE  /\ created \in 0..MaxCreated
           /\ registry \in [QueueNames -> 0..created]
           /\ \A o \in 1..created : o \in Registered
           /\ \A p, q \in QueueNames : registry[p] # 0 /\ registry[p] = registry[q] => p = q
<1> USE ServerAssumption
<1>1. created \in 0..MaxCreated
  BY FS_CardinalityType DEF Init
<1>2. registry \in [QueueNames -> 0..created]
  BY DEF Init
<1>3. \A q \in QueueNames : registry[q] # 0 <=> q \in InitialQueues
  BY DEF Init
<1>4. \A p, q \in InitialQueues : registry[p] = registry[q] => p = q
  BY DEF Init
<1> DEFINE f == [q \in InitialQueues |-> registry[q]]
<1>5. f \in Injection(InitialQueues, 1..created)
  BY <1>1, <1>2, <1>3, <1>4 DEF Injection, IsInjective
<1>6. IsFiniteSet(1..created) /\ Cardinality(1..created) = created
  BY <1>1, FS_Interval
<1>7. f \in Surjection(InitialQueues, 1..created)
  BY <1>5, <1>6, FS_Injection DEF Init
<1>8. \A o \in 1..created : \E q \in InitialQueues : f[q] = o
  BY <1>7 DEF Surjection
<1>9. \A o \in 1..created : o \in Registered
  BY <1>1, <1>8 DEF Registered
<1> QED
  BY <1>1, <1>2, <1>3, <1>4, <1>9

\* The invariant holds initially.
LEMMA InitHolds == Init => IInv
<1> SUFFICES ASSUME Init PROVE IInv
  OBVIOUS
<1> USE ServerAssumption, InitialRegistry DEF Objects, Queries
<1>1. TypeOK
  <2>1. \A o \in Objects : messages[o] = <<>> /\ enqueued[o] = <<>>
    BY DEF Init
  <2>2. messages \in [Objects -> Seq(Queries)] /\ enqueued \in [Objects -> Seq(Queries)]
    BY DEF Init
  <2>3. KeepRunning \in [Objects -> BOOLEAN]
    BY DEF Init
  <2>4. thread \in [Objects -> {"Unstarted", "Loop", "Holding", "Query", "Remove", "Exited"}]
    BY DEF Init
  <2>5. \A o \in Objects : /\ thread[o] \in {"Query", "Remove"} <=> topMessage[o] # 0
                           /\ thread[o] = "Unstarted" <=> o > created
    BY DEF Init
  <2>6. StopTypeOK /\ RegistryTypeOK
    BY DEF Init, StopTypeOK, RegistryTypeOK
  <2>7. QueueTypeOK
    BY <2>2, <2>3, <2>4, <2>5 DEF Init, QueueTypeOK
  <2>8. QueryTypeOK
    BY <2>2 DEF Init, QueryTypeOK
  <2> QED
    BY <2>6, <2>7, <2>8 DEF TypeOK
<1>2. RegistryInv
  BY DEF Init, RegistryInv, NoOrphanThread, Alive
<1>3. HolderInv /\ ServerInv
  BY DEF Init, HolderInv, ServerInv
<1>4. QueryInv
  BY DEF Init, QueryInv, Sent
<1>5. EnqueueInv
  BY DEF Init, EnqueueInv, AcceptedIsEnqueued, EnqueuedOnce, SenderOrder, NoQuery
<1> QED
  BY <1>1, <1>2, <1>3, <1>4, <1>5 DEF IInv

-----------------------------------------------------------------------------
(* What the actions have in common *)

\* Which variables each kind of actor leaves alone.
LEMMA Frames ==
    /\ Client => UNCHANGED <<stopVars, registryVars, queueVars, enqueued>>
    /\ \A n \in Queries : Handler(n) =>
          UNCHANGED <<stopVars, topMessage, connection, query>>
    /\ \A c \in Connections : OnDisconnected(c) =>
          UNCHANGED <<stopVars, registryVars, KeepRunning, messages, thread, topMessage,
                      queryVars, enqueued>>
    /\ Stop \/ Stopping \/ Start =>
          UNCHANGED <<registry, created, subscribers, messages, thread, topMessage,
                      queryVars, enqueued>>
    /\ \A o \in Objects : DeliveryThread(o) =>
          UNCHANGED <<stopVars, registryVars, KeepRunning, subscribers, connection,
                      queryVars, enqueued>>
<1> USE DEF stopVars, registryVars, queueVars, queryVars
<1>1. Client => UNCHANGED <<stopVars, registryVars, queueVars, enqueued>>
  BY DEF Client, Connect, Disconnect, Query, QueryTimeout
<1>2. ASSUME NEW n \in Queries, Handler(n)
      PROVE  UNCHANGED <<stopVars, topMessage, connection, query>>
  BY <1>2 DEF Handler, HandlerUse, TestKeepRunning, Retry, QueueNotFound, CreateQueue,
     DeleteQueue, DeleteQueue_Joined, SubscribeToQueue, UnsubscribeFromQueue,
     EnqueueMessage, PurgeQueue, Reply
<1>3. ASSUME NEW c \in Connections, OnDisconnected(c)
      PROVE  UNCHANGED <<stopVars, registryVars, KeepRunning, messages, thread,
                         topMessage, queryVars, enqueued>>
  BY <1>3 DEF OnDisconnected, OnDisconnected_Test, RmServer_OnDisconnected
<1>4. Stop \/ Stopping \/ Start =>
          UNCHANGED <<registry, created, subscribers, messages, thread, topMessage,
                      queryVars, enqueued>>
  BY DEF Stop, Stopping, Start, Stop_Flag, Stop_Use, Stop_Queue, Stop_Joined, Stop_Return
<1>5. ASSUME NEW o \in Objects, DeliveryThread(o)
      PROVE  UNCHANGED <<stopVars, registryVars, KeepRunning, subscribers, connection,
                         queryVars, enqueued>>
  BY <1>5 DEF DeliveryThread, Thread_Exit, Thread_TryUseAll, Thread_Scan,
     Thread_Delivered, Thread_UseAll
<1> QED
  BY <1>1, <1>2, <1>3, <1>4, <1>5

\* What a handler finds in the dictionary is one of the objects.
LEMMA ServesFacts ==
    ASSUME TypeOK, QueryInv, NEW n \in Queries, NEW op, Serves(n, op)
    PROVE  /\ Found(n) \in Objects /\ Found(n) \in Registered
           /\ query[n].connection \in Connections
           /\ query[n].queue \in QueueNames /\ registry[query[n].queue] = Found(n)
           /\ query[n].operation = op /\ handlerPc[n] = "Use" /\ holder = "none"
<1>1. Sent(n) /\ query[n].operation = op /\ handlerPc[n] = "Use" /\ holder = "none"
  BY DEF Serves, At, Sent, DictionaryFree
<1>2. query[n].connection \in Connections /\ query[n].queue \in QueueNames
  BY <1>1 DEF QueryInv
<1>3. Found(n) # 0 /\ Found(n) \in 0..MaxCreated
  BY <1>2 DEF Serves, Found, TypeOK, RegistryTypeOK
<1> QED
  BY <1>1, <1>2, <1>3 DEF Found, Registered, Objects

\* A step of a handler that neither joins nor replies.
Advances(n) ==
    /\ handlerPc[n] \in {"Loop", "Use"}
    /\ \E pc \in {"Loop", "Use", "Success", "Failed"} : HandlerGoto(n, pc)
    /\ UNCHANGED <<holder, joined, answer>>

\* Every step of a handler advances, joins, ends a join or replies.
LEMMA HandlerFacts ==
    ASSUME TypeOK, NEW n \in Queries, Handler(n)
    PROVE  Advances(n) \/ DeleteQueue(n) \/ DeleteQueue_Joined(n) \/ Reply(n)
<1> USE DEF Advances, At, Serves, queryVars, registryVars
<1>1. CASE TestKeepRunning(n) \/ Retry(n) \/ QueueNotFound(n)
  BY <1>1 DEF TestKeepRunning, Retry, QueueNotFound
<1>2. CASE CreateQueue(n)
  BY <1>2 DEF CreateQueue
<1>3. CASE SubscribeToQueue(n) \/ UnsubscribeFromQueue(n)
  BY <1>3 DEF SubscribeToQueue, UnsubscribeFromQueue
<1>4. CASE EnqueueMessage(n) \/ PurgeQueue(n)
  BY <1>4 DEF EnqueueMessage, PurgeQueue
<1> QED
  BY <1>1, <1>2, <1>3, <1>4 DEF Handler, HandlerUse

-----------------------------------------------------------------------------
(* Types *)

\* Every step keeps the types of the server's own state.
LEMMA StopTypeStep ==
    ASSUME TypeOK, Next
    PROVE  StopTypeOK'
<1> USE DEF stopVars
<1>1. CASE Stop \/ Stop_Flag \/ Start
  BY <1>1 DEF Stop, Stop_Flag, Start, TypeOK, StopTypeOK
<1>2. CASE Stop_Use
  <2>1. toStop' \subseteq Objects
    BY <1>2 DEF Stop_Use, Registered, Objects, TypeOK, RegistryTypeOK
  <2> QED
    BY <1>2, <2>1 DEF Stop_Use, TypeOK, StopTypeOK
<1>3. CASE (\E o \in Objects : Stop_Queue(o)) \/ Stop_Joined \/ Stop_Return
  BY <1>3 DEF Stop_Queue, Stop_Joined, Stop_Return, TypeOK, StopTypeOK
<1>4. CASE UNCHANGED stopVars
  BY <1>4 DEF TypeOK, StopTypeOK
<1> QED
  BY <1>1, <1>2, <1>3, <1>4, Frames DEF Next, Stopping

\* Every step keeps the types of the dictionary and of who holds it.
LEMMA RegistryTypeStep ==
    ASSUME TypeOK, HolderInv, QueryInv, Next
    PROVE  RegistryTypeOK'
<1> USE DEF registryVars, stopVars, queryVars
<1>1. ASSUME UNCHANGED registryVars,
             \A n \in Queries : handlerPc'[n] = "Join" <=> handlerPc[n] = "Join"
      PROVE  RegistryTypeOK'
  BY <1>1 DEF TypeOK, RegistryTypeOK
<1>2. CASE Client
  <2>1. UNCHANGED handlerPc \/ \E n \in Queries, pc \in {"Use", "Loop"} :
            handlerPc[n] = "unsent" /\ handlerPc' = [handlerPc EXCEPT ![n] = pc]
    <3>1. CASE \E c \in Connections, op \in Operations, q \in QueueNames : Query(c, op, q)
      <4>1. PICK c \in Connections, op \in Operations, q \in QueueNames, n \in Queries :
                /\ \A m \in Queries : handlerPc[m] = "unsent" <=> m >= n
                /\ handlerPc' = [handlerPc EXCEPT ![n] = FirstStep(op)]
        BY <3>1 DEF Query
      <4>2. handlerPc[n] = "unsent"
        BY <4>1, ServerAssumption DEF Queries
      <4> QED
        BY <4>1, <4>2 DEF FirstStep
    <3> QED
      BY <1>2, <3>1 DEF Client, Connect, Disconnect, QueryTimeout
  <2>2. \A n \in Queries : handlerPc'[n] = "Join" <=> handlerPc[n] = "Join"
    BY <2>1 DEF TypeOK, QueryTypeOK
  <2> QED
    BY <1>1, <1>2, <2>2, Frames
<1>3. ASSUME NEW n \in Queries, Handler(n) PROVE RegistryTypeOK'
  <2>1. CASE Advances(n)
    <3>1. \A m \in Queries : handlerPc'[m] = "Join" <=> handlerPc[m] = "Join"
      BY <2>1 DEF Advances, HandlerGoto, TypeOK, QueryTypeOK
    <3>2. CASE CreateQueue(n)
      <4>1. /\ registry \in [QueueNames -> 0..MaxCreated]
            /\ created \in 0..MaxCreated /\ MaxCreated \in Nat
        BY ServerAssumption DEF TypeOK, RegistryTypeOK
      <4>2. \/ UNCHANGED <<created, registry>>
            \/ /\ created < MaxCreated /\ created' = created + 1
               /\ registry' = [registry EXCEPT ![query[n].queue] = created']
        BY <3>2 DEF CreateQueue
      <4>3. created' \in 0..MaxCreated
        BY <4>1, <4>2
      <4>4. registry' \in [QueueNames -> 0..MaxCreated]
        BY <4>1, <4>2, <4>3
      <4> QED
        BY <2>1, <3>1, <4>3, <4>4 DEF Advances, TypeOK, RegistryTypeOK
    <3>3. CASE UNCHANGED registryVars
      BY <1>1, <3>1, <3>3
    <3>4. Advances(n) => ~DeleteQueue(n) /\ ~DeleteQueue_Joined(n)
      BY DEF Advances, DeleteQueue, DeleteQueue_Joined, At, HandlerGoto, TypeOK,
             QueryTypeOK
    <3>5. CASE TestKeepRunning(n) \/ Retry(n) \/ QueueNotFound(n) \/ Reply(n)
      BY <3>3, <3>5 DEF TestKeepRunning, Retry, QueueNotFound, Reply
    <3>6. CASE \/ SubscribeToQueue(n) \/ UnsubscribeFromQueue(n)
               \/ EnqueueMessage(n) \/ PurgeQueue(n)
      BY <3>3, <3>6 DEF SubscribeToQueue, UnsubscribeFromQueue, EnqueueMessage, PurgeQueue
    <3> QED
      BY <1>3, <2>1, <3>2, <3>4, <3>5, <3>6 DEF Handler, HandlerUse
  <2>2. CASE DeleteQueue(n)
    <3>1. Found(n) \in Objects
      BY <2>2, ServesFacts DEF DeleteQueue
    <3>2. handlerPc'[n] = "Join"
      BY <2>2 DEF DeleteQueue, HandlerGoto, TypeOK, QueryTypeOK
    <3> QED
      BY <2>2, <3>1, <3>2 DEF DeleteQueue, TypeOK, RegistryTypeOK, Objects
  <2>3. CASE DeleteQueue_Joined(n)
    <3>1. \A m \in Queries : handlerPc'[m] # "Join"
      BY <2>3 DEF DeleteQueue_Joined, At, HandlerGoto, HolderInv, TypeOK, QueryTypeOK
    <3>2. 0 \in 0..MaxCreated
      BY ServerAssumption
    <3>3. registry' \in [QueueNames -> 0..MaxCreated]
      BY <2>3, <3>2 DEF DeleteQueue_Joined, TypeOK, RegistryTypeOK
    <3> QED
      BY <2>3, <3>1, <3>2, <3>3 DEF DeleteQueue_Joined, TypeOK, RegistryTypeOK
  <2>4. CASE Reply(n)
    BY <1>1, <2>4 DEF Reply, HandlerGoto, TypeOK, QueryTypeOK
  <2> QED
    BY <1>3, <2>1, <2>2, <2>3, <2>4, HandlerFacts
<1>4. CASE Stop \/ Stopping \/ Start
  <2>1. CASE Stop_Use
    BY <2>1 DEF Stop_Use, DictionaryFree, TypeOK, RegistryTypeOK
  <2>2. ASSUME NEW o \in Objects, Stop_Queue(o) PROVE RegistryTypeOK'
    BY <2>2 DEF Stop_Queue, HolderInv, TypeOK, RegistryTypeOK, Objects
  <2>3. CASE Stop_Joined
    BY <2>3, ServerAssumption DEF Stop_Joined, TypeOK, RegistryTypeOK
  <2>4. CASE Stop_Return
    BY <2>4 DEF Stop_Return, HolderInv, TypeOK, RegistryTypeOK
  <2>5. CASE Stop \/ Stop_Flag \/ Start
    BY <1>1, <2>5 DEF Stop, Stop_Flag, Start
  <2> QED
    BY <1>4, <2>1, <2>2, <2>3, <2>4, <2>5 DEF Stopping
<1>5. CASE (\E c \in Connections : OnDisconnected(c)) \/ \E o \in Objects : DeliveryThread(o)
  BY <1>1, <1>5, Frames
<1> QED
  BY <1>2, <1>3, <1>4, <1>5 DEF Next

\* Every step keeps the types of the queues and their threads.
LEMMA QueueTypeStep ==
    ASSUME TypeOK, QueryInv, Next
    PROVE  QueueTypeOK'
<1> USE DEF queueVars, registryVars
<1>1. CASE UNCHANGED <<queueVars, created>>
  BY <1>1 DEF TypeOK, QueueTypeOK
<1>2. ASSUME NEW n \in Queries, Handler(n) PROVE QueueTypeOK'
  <2>1. CASE CreateQueue(n)
    <3>1. CASE UNCHANGED <<queueVars, created>>
      BY <1>1, <3>1
    <3>2. CASE /\ created < MaxCreated /\ created' = created + 1
               /\ KeepRunning' = [KeepRunning EXCEPT ![created'] = TRUE]
               /\ thread' = [thread EXCEPT ![created'] = "Loop"]
               /\ UNCHANGED <<subscribers, messages, topMessage>>
      <4>1. created \in Nat /\ created' = created + 1 /\ created' \in Objects
        BY <3>2, ServerAssumption DEF TypeOK, RegistryTypeOK, Objects
      <4>2. \A o \in Objects : thread'[o] = IF o = created' THEN "Loop" ELSE thread[o]
        BY <3>2 DEF TypeOK, QueueTypeOK
      <4>3. thread[created'] = "Unstarted" /\ topMessage[created'] = 0
        BY <4>1 DEF TypeOK, QueueTypeOK
      <4>4. \A o \in Objects : /\ thread'[o] \in {"Query", "Remove"} <=> topMessage'[o] # 0
                               /\ thread'[o] = "Unstarted" <=> o > created'
        BY <3>2, <4>1, <4>2, <4>3 DEF TypeOK, QueueTypeOK, Objects
      <4> QED
        BY <3>2, <4>4 DEF TypeOK, QueueTypeOK
    <3> QED
      BY <2>1, <3>1, <3>2 DEF CreateQueue
  <2>2. CASE DeleteQueue(n)
    BY <2>2 DEF DeleteQueue, TypeOK, QueueTypeOK
  <2>3. CASE SubscribeToQueue(n) \/ UnsubscribeFromQueue(n)
    <3>1. query[n].connection \in Connections
      BY <2>3, ServesFacts DEF SubscribeToQueue, UnsubscribeFromQueue
    <3>2. \E x \in SUBSET Connections :
              subscribers' = [subscribers EXCEPT ![Found(n)] = x]
      <4>1. subscribers[Found(n)] \in SUBSET Connections
        BY <2>3, ServesFacts DEF SubscribeToQueue, UnsubscribeFromQueue, TypeOK,
                                 QueueTypeOK
      <4>2. \/ subscribers' = [subscribers EXCEPT ![Found(n)] =
                                   subscribers[Found(n)] \cup {query[n].connection}]
            \/ subscribers' = [subscribers EXCEPT ![Found(n)] =
                                   subscribers[Found(n)] \ {query[n].connection}]
        BY <2>3 DEF SubscribeToQueue, UnsubscribeFromQueue
      <4> QED
        BY <3>1, <4>1, <4>2
    <3>3. UNCHANGED <<created, KeepRunning, messages, thread, topMessage>>
      BY <2>3 DEF SubscribeToQueue, UnsubscribeFromQueue, registryVars
    <3>4. subscribers' \in [Objects -> SUBSET Connections]
      BY <3>2 DEF TypeOK, QueueTypeOK
    <3> QED
      BY <3>3, <3>4 DEF TypeOK, QueueTypeOK
  <2>4. CASE EnqueueMessage(n) \/ PurgeQueue(n)
    <3>1. messages' \in [Objects -> Seq(Queries)]
      <4>1. /\ <<>> \in Seq(Queries)
            /\ \A t \in Seq(Queries) : Append(t, n) \in Seq(Queries)
        OBVIOUS
      <4>2. CASE EnqueueMessage(n)
        BY <4>1, <4>2 DEF EnqueueMessage, TypeOK, QueueTypeOK
      <4>3. CASE PurgeQueue(n)
        BY <4>1, <4>3 DEF PurgeQueue, TypeOK, QueueTypeOK
      <4> QED
        BY <2>4, <4>2, <4>3
    <3> QED
      BY <2>4, <3>1 DEF EnqueueMessage, PurgeQueue, TypeOK, QueueTypeOK
  <2>5. CASE TestKeepRunning(n) \/ Retry(n) \/ QueueNotFound(n) \/ Reply(n)
    BY <1>1, <2>5 DEF TestKeepRunning, Retry, QueueNotFound, Reply
  <2>6. CASE DeleteQueue_Joined(n)
    BY <1>1, <2>6 DEF DeleteQueue_Joined
  <2> QED
    BY <1>2, <2>1, <2>2, <2>3, <2>4, <2>5, <2>6 DEF Handler, HandlerUse
<1>3. ASSUME NEW c \in Connections, OnDisconnected(c) PROVE QueueTypeOK'
  <2>1. subscribers' \in [Objects -> SUBSET Connections]
    <3>1. CASE OnDisconnected_Test(c)
      BY <3>1 DEF OnDisconnected_Test, TypeOK, QueueTypeOK
    <3>2. CASE RmServer_OnDisconnected(c)
      BY <3>2 DEF RmServer_OnDisconnected, TypeOK, QueueTypeOK
    <3> QED
      BY <1>3, <3>1, <3>2 DEF OnDisconnected
  <2> QED
    BY <1>3, <2>1, Frames DEF TypeOK, QueueTypeOK
<1>4. CASE Stop \/ Stopping \/ Start
  <2>1. KeepRunning' \in [Objects -> BOOLEAN]
    BY <1>4 DEF Stop, Stopping, Start, Stop_Flag, Stop_Use, Stop_Queue, Stop_Joined,
                Stop_Return, TypeOK, QueueTypeOK
  <2> QED
    BY <1>4, <2>1, Frames DEF TypeOK, QueueTypeOK
<1>5. ASSUME NEW o \in Objects, DeliveryThread(o) PROVE QueueTypeOK'
  <2>1. UNCHANGED <<created, KeepRunning, subscribers>>
    BY <1>5, Frames
  <2>2. CASE Thread_Exit(o) \/ Thread_TryUseAll(o)
    BY <2>1, <2>2 DEF Thread_Exit, Thread_TryUseAll, ThreadGoto, TypeOK, QueueTypeOK
  <2>3. CASE Thread_Scan(o)
    <3>1. messages' \in [Objects -> Seq(Queries)]
      <4>1. PICK rest \in Sublists(messages[o]) :
                messages' = [messages EXCEPT ![o] = rest]
        BY <2>3 DEF Thread_Scan
      <4>2. rest \in Seq(Queries)
        BY <4>1, SublistFacts DEF TypeOK, QueueTypeOK
      <4> QED
        BY <4>1, <4>2 DEF TypeOK, QueueTypeOK
    <3>2. messages'[o] # <<>> => Head(messages'[o]) \in Queries
      BY <3>1
    <3>3. thread[o] = "Holding" /\ topMessage[o] = 0
      BY <2>3 DEF Thread_Scan, TypeOK, QueueTypeOK
    <3>4. CASE UNCHANGED topMessage /\ ThreadGoto(o, "Loop")
      BY <2>1, <3>1, <3>3, <3>4 DEF ThreadGoto, TypeOK, QueueTypeOK
    <3>5. CASE /\ messages'[o] # <<>>
               /\ topMessage' = [topMessage EXCEPT ![o] = Head(messages'[o])]
               /\ ThreadGoto(o, "Query")
      <4>1. Head(messages'[o]) \in 1..MaxQueries
        BY <3>2, <3>5 DEF Queries
      <4> QED
        BY <2>1, <3>1, <3>3, <3>5, <4>1, ServerAssumption DEF ThreadGoto, TypeOK,
           QueueTypeOK
    <3> QED
      BY <2>3, <3>4, <3>5 DEF Thread_Scan
  <2>4. CASE Thread_Delivered(o)
    <3>1. thread[o] = "Query" /\ topMessage[o] # 0 /\ UNCHANGED messages
      BY <2>4 DEF Thread_Delivered, TypeOK, QueueTypeOK
    <3>2. CASE ThreadGoto(o, "Remove") /\ UNCHANGED topMessage
      BY <2>1, <3>1, <3>2 DEF ThreadGoto, TypeOK, QueueTypeOK
    <3>3. CASE ThreadGoto(o, "Exited") /\ topMessage' = [topMessage EXCEPT ![o] = 0]
      BY <2>1, <3>1, <3>3, ServerAssumption DEF ThreadGoto, TypeOK, QueueTypeOK
    <3> QED
      BY <2>4, <3>2, <3>3 DEF Thread_Delivered
  <2>5. CASE Thread_UseAll(o)
    <3>1. messages' \in [Objects -> Seq(Queries)]
      <4>1. \A t \in Seq(Queries) : RemoveFirst(t, topMessage[o]) \in Seq(Queries)
        BY RemoveFirstType
      <4>2. \/ UNCHANGED messages
            \/ messages' = [messages EXCEPT ![o] = RemoveFirst(messages[o], topMessage[o])]
        BY <2>5 DEF Thread_UseAll
      <4>3. messages \in [Objects -> Seq(Queries)]
        BY DEF TypeOK, QueueTypeOK
      <4> QED
        BY <4>1, <4>2, <4>3
    <3>2. /\ thread[o] = "Remove" /\ ThreadGoto(o, "Loop")
          /\ topMessage' = [topMessage EXCEPT ![o] = 0]
      BY <2>5 DEF Thread_UseAll
    <3> QED
      BY <2>1, <3>1, <3>2, ServerAssumption DEF ThreadGoto, TypeOK, QueueTypeOK
  <2> QED
    BY <1>5, <2>2, <2>3, <2>4, <2>5 DEF DeliveryThread
<1>6. CASE Client
  BY <1>1, <1>6, Frames
<1> QED
  BY <1>2, <1>3, <1>4, <1>5, <1>6 DEF Next

\* Every step keeps the types of connections and queries.
LEMMA QueryTypeStep ==
    ASSUME TypeOK, QueryInv, Next
    PROVE  QueryTypeOK'
<1> USE DEF queryVars
<1>1. CASE Client
  <2>1. ASSUME NEW c \in Connections, Connect(c) \/ Disconnect(c) PROVE QueryTypeOK'
    BY <2>1 DEF Connect, Disconnect, TypeOK, QueryTypeOK
  <2>2. ASSUME NEW c \in Connections, NEW op \in Operations, NEW q \in QueueNames,
               Query(c, op, q)
        PROVE  QueryTypeOK'
    <3>1. FirstStep(op) \in {"Use", "Loop"} /\ op \in AllOperations
      BY ServerAssumption DEF FirstStep
    <3>2. PICK m \in Queries :
              /\ query' = [query EXCEPT ![m] = [connection |-> c, operation |-> op,
                                                queue |-> q]]
              /\ handlerPc' = [handlerPc EXCEPT ![m] = FirstStep(op)]
      BY <2>2 DEF Query
    <3>3. DOMAIN query' = Queries /\ \A n \in Queries :
              query'[n] = query[n] \/
              query'[n] = [connection |-> c, operation |-> op, queue |-> q]
      BY <3>2 DEF TypeOK, QueryTypeOK
    <3>4. handlerPc' \in [Queries -> {"unsent", "Loop", "Use", "Join", "Success",
                                      "Failed", "Replied"}]
      BY <3>1, <3>2 DEF TypeOK, QueryTypeOK
    <3>5. UNCHANGED <<connection, answer, enqueued>>
      BY <2>2 DEF Query
    <3> QED
      BY <3>1, <3>3, <3>4, <3>5 DEF TypeOK, QueryTypeOK
  <2>3. ASSUME NEW n \in Queries, QueryTimeout(n) PROVE QueryTypeOK'
    BY <2>3 DEF QueryTimeout, TypeOK, QueryTypeOK
  <2> QED
    BY <1>1, <2>1, <2>2, <2>3 DEF Client
<1>2. ASSUME NEW n \in Queries, Handler(n) PROVE QueryTypeOK'
  <2>1. UNCHANGED <<connection, query>>
    BY <1>2, Frames
  <2>2. handlerPc' \in [Queries -> {"unsent", "Loop", "Use", "Join", "Success",
                                    "Failed", "Replied"}]
    <3>1. \E pc \in {"Loop", "Use", "Join", "Success", "Failed", "Replied"} :
              HandlerGoto(n, pc)
      BY <1>2, HandlerFacts DEF Advances, DeleteQueue, DeleteQueue_Joined, Reply
    <3> QED
      BY <3>1 DEF HandlerGoto, TypeOK, QueryTypeOK
  <2>3. answer' \in [Queries -> {"none", "Success", "Failed", "timeout"}]
    BY <1>2, HandlerFacts DEF Advances, DeleteQueue, DeleteQueue_Joined, Reply,
       TypeOK, QueryTypeOK
  <2>4. enqueued' \in [Objects -> Seq(Queries)]
    <3>1. CASE EnqueueMessage(n)
      BY <3>1, AppendProperties DEF EnqueueMessage, TypeOK, QueryTypeOK
    <3>2. CASE UNCHANGED enqueued
      BY <3>2 DEF TypeOK, QueryTypeOK
    <3> QED
      BY <1>2, <3>1, <3>2 DEF Handler, HandlerUse, TestKeepRunning, Retry, QueueNotFound,
         CreateQueue, DeleteQueue, DeleteQueue_Joined, SubscribeToQueue,
         UnsubscribeFromQueue, PurgeQueue, Reply
  <2> QED
    BY <2>1, <2>2, <2>3, <2>4 DEF TypeOK, QueryTypeOK
<1>3. CASE \/ Stop \/ Stopping \/ Start \/ \E c \in Connections : OnDisconnected(c)
  <2>1. connection' \in [Connections -> {"new", "open", "Loop", "Use", "Removed",
                                         "Abandoned"}]
    BY <1>3 DEF Stop, Stopping, Start, Stop_Flag, Stop_Use, Stop_Queue, Stop_Joined,
       Stop_Return, OnDisconnected, OnDisconnected_Test, RmServer_OnDisconnected,
       TypeOK, QueryTypeOK
  <2> QED
    BY <1>3, <2>1, Frames DEF TypeOK, QueryTypeOK
<1>4. CASE \E o \in Objects : DeliveryThread(o)
  BY <1>4, Frames DEF TypeOK, QueryTypeOK
<1> QED
  BY <1>1, <1>2, <1>3, <1>4 DEF Next

\* Every step keeps the types.
LEMMA TypeStep ==
    ASSUME TypeOK, HolderInv, QueryInv, Next
    PROVE  TypeOK'
  BY StopTypeStep, RegistryTypeStep, QueueTypeStep, QueryTypeStep DEF TypeOK

-----------------------------------------------------------------------------
(* The dictionary and the threads *)

\* A delivery thread that is gone stays gone, and does not touch the others.
LEMMA ThreadFacts ==
    ASSUME TypeOK, NEW o \in Objects, DeliveryThread(o)
    PROVE  \A p \in Objects : /\ Alive(p)' => Alive(p)
                              /\ thread[p] = "Exited" => thread'[p] = "Exited"
<1>1. thread[o] \notin {"Unstarted", "Exited"}
  BY DEF DeliveryThread, Thread_Exit, Thread_TryUseAll, Thread_Scan, Thread_Delivered,
         Thread_UseAll
<1>2. \A p \in Objects : p # o => thread'[p] = thread[p]
  BY DEF DeliveryThread, Thread_Exit, Thread_TryUseAll, Thread_Scan, Thread_Delivered,
         Thread_UseAll, ThreadGoto, TypeOK, QueueTypeOK
<1> QED
  BY <1>1, <1>2 DEF Alive

\* The handlers that change neither the dictionary nor a thread.
LEMMA HandlerRegistry ==
    ASSUME NEW n \in Queries, Handler(n), ~CreateQueue(n), ~DeleteQueue_Joined(n)
    PROVE  UNCHANGED <<registry, created, thread>>
  BY DEF Handler, HandlerUse, TestKeepRunning, Retry, QueueNotFound, DeleteQueue,
         SubscribeToQueue, UnsubscribeFromQueue, EnqueueMessage, PurgeQueue, Reply,
         registryVars, queueVars

\* While somebody is in Join, the dictionary is his; otherwise nobody is.
LEMMA HolderFacts ==
    ASSUME TypeOK, HolderInv
    PROVE  /\ DictionaryFree \/ stopPc = "queues" =>
                 \A n \in Queries : handlerPc[n] # "Join"
           /\ DictionaryFree => stopPc # "queues" /\ joined = 0
           /\ (\E n \in Queries : handlerPc[n] = "Join") =>
                 stopPc # "queues" /\ ~DictionaryFree
  BY DEF DictionaryFree, TypeOK, RegistryTypeOK, HolderInv

\* Every step keeps RegistryInv: only CreateQueue and DeleteQueue change names.
LEMMA RegistryStep ==
    ASSUME TypeOK, RegistryInv, HolderInv, QueryInv, Next
    PROVE  RegistryInv'
<1>1. CASE UNCHANGED <<registry, created, thread>>
  BY <1>1 DEF RegistryInv, NoOrphanThread, Alive, Registered
<1>2. ASSUME NEW n \in Queries, Handler(n) PROVE RegistryInv'
  <2>1. CASE CreateQueue(n)
    <3>1. CASE UNCHANGED <<registry, created, thread>>
      BY <1>1, <3>1
    <3>2. CASE /\ Found(n) = 0 /\ created < MaxCreated /\ created' = created + 1
               /\ registry' = [registry EXCEPT ![query[n].queue] = created']
               /\ thread' = [thread EXCEPT ![created'] = "Loop"]
      <4>1. query[n].queue \in QueueNames
        BY <2>1 DEF CreateQueue, At, QueryInv, Sent
      <4>2. /\ created \in Nat /\ created' = created + 1
            /\ \A q \in QueueNames : registry[q] \in Nat /\ registry[q] <= created
        BY <3>2 DEF RegistryInv, TypeOK, RegistryTypeOK
      <4>3. \A q \in QueueNames :
                registry'[q] = IF q = query[n].queue THEN created' ELSE registry[q]
        BY <3>2 DEF TypeOK, RegistryTypeOK
      <4>4. \A q \in QueueNames : registry'[q] <= created'
        BY <4>2, <4>3
      <4>5. \A p, q \in QueueNames :
                registry'[p] # 0 /\ registry'[p] = registry'[q] => p = q
        BY <4>2, <4>3 DEF RegistryInv
      <4>6. Registered \subseteq Registered' /\ created' \in Registered'
        BY <3>2, <4>1, <4>2, <4>3 DEF Registered, Found
      <4>7. \A o \in Objects : o # created' => thread'[o] = thread[o]
        BY <3>2 DEF TypeOK, QueueTypeOK
      <4>8. NoOrphanThread'
        BY <4>6, <4>7 DEF RegistryInv, NoOrphanThread, Alive, Objects
      <4> QED
        BY <4>4, <4>5, <4>8 DEF RegistryInv
    <3> QED
      BY <2>1, <3>1, <3>2 DEF CreateQueue
  <2>2. CASE DeleteQueue_Joined(n)
    <3>1. /\ joined = registry[query[n].queue] /\ thread[joined] = "Exited"
          /\ registry' = [registry EXCEPT ![query[n].queue] = 0]
          /\ UNCHANGED <<created, thread>>
      BY <2>2 DEF DeleteQueue_Joined, At, HolderInv, queueVars
    <3>2. \A q \in QueueNames :
              registry'[q] = IF q = query[n].queue THEN 0 ELSE registry[q]
      BY <3>1 DEF TypeOK, RegistryTypeOK
    <3>3. Registered \ {joined} \subseteq Registered'
      BY <3>1, <3>2 DEF Registered
    <3>4. NoOrphanThread'
      BY <3>1, <3>3 DEF RegistryInv, NoOrphanThread, Alive
    <3>5. created \in Nat
      BY DEF TypeOK, RegistryTypeOK
    <3> QED
      BY <3>1, <3>2, <3>4, <3>5 DEF RegistryInv
  <2> QED
    BY <1>1, <1>2, <2>1, <2>2, HandlerRegistry
<1>3. ASSUME NEW o \in Objects, DeliveryThread(o) PROVE RegistryInv'
  <2>1. UNCHANGED <<registry, created>>
    BY <1>3, Frames DEF registryVars
  <2> QED
    BY <1>3, <2>1, ThreadFacts DEF RegistryInv, NoOrphanThread, Registered
<1>4. CASE Client \/ (\E c \in Connections : OnDisconnected(c)) \/ Stop \/ Stopping \/ Start
  BY <1>1, <1>4, Frames DEF registryVars, queueVars
<1> QED
  BY <1>2, <1>3, <1>4 DEF Next

\* Every step keeps HolderInv: nobody changes a name while another joins.
LEMMA HolderStep ==
    ASSUME TypeOK, HolderInv, QueryInv, Next
    PROVE  HolderInv'
<1>1. ASSUME UNCHANGED <<stopPc, toStop, registry, holder, joined>>,
             \A o \in Registered : thread[o] = "Exited" => thread'[o] = "Exited",
             \A n \in Queries : handlerPc'[n] = "Join" =>
                 handlerPc[n] = "Join" /\ query'[n] = query[n]
      PROVE  HolderInv'
  BY <1>1 DEF HolderInv, Registered
<1>2. CASE Client
  <2>1. UNCHANGED <<stopPc, toStop, registry, holder, joined, thread>>
    BY <1>2, Frames DEF stopVars, registryVars, queueVars
  <2>2. CASE UNCHANGED <<query, handlerPc>>
    BY <1>1, <2>1, <2>2
  <2>3. CASE \E c \in Connections, op \in Operations, q \in QueueNames : Query(c, op, q)
    <3>0. PICK c \in Connections, op \in Operations, q \in QueueNames : Query(c, op, q)
      BY <2>3
    <3>1. PICK n \in Queries :
              /\ query' = [query EXCEPT ![n] = [connection |-> c, operation |-> op,
                                                queue |-> q]]
              /\ handlerPc' = [handlerPc EXCEPT ![n] = FirstStep(op)]
      BY <3>0 DEF Query
    <3>2. \A m \in Queries : handlerPc'[m] = "Join" =>
              handlerPc[m] = "Join" /\ query'[m] = query[m]
      BY <3>1 DEF FirstStep, TypeOK, QueryTypeOK
    <3> QED
      BY <1>1, <2>1, <3>2
  <2> QED
    BY <1>2, <2>2, <2>3 DEF Client, Connect, Disconnect, QueryTimeout, queryVars
<1>3. ASSUME NEW n \in Queries, Handler(n) PROVE HolderInv'
  <2>1. UNCHANGED <<stopPc, toStop, query>>
    BY <1>3, Frames DEF stopVars
  <2>2. CASE Advances(n) /\ UNCHANGED <<registry, thread>>
    BY <1>1, <2>1, <2>2 DEF Advances, HandlerGoto, TypeOK, QueryTypeOK
  <2>3. CASE CreateQueue(n)
    <3>1. /\ DictionaryFree /\ UNCHANGED <<holder, joined>>
          /\ handlerPc' = [handlerPc EXCEPT ![n] = "Success"]
      BY <2>3 DEF CreateQueue, HandlerGoto
    <3>2. \A m \in Queries : handlerPc'[m] # "Join"
      BY <3>1, HolderFacts DEF TypeOK, QueryTypeOK
    <3> QED
      BY <2>1, <3>1, <3>2, HolderFacts DEF HolderInv
  <2>4. CASE DeleteQueue(n)
    <3>1. /\ DictionaryFree /\ holder' = "DeleteQueue" /\ joined' = Found(n)
          /\ Found(n) # 0 /\ query[n].operation = "DeleteQueue"
          /\ handlerPc' = [handlerPc EXCEPT ![n] = "Join"] /\ UNCHANGED registry
      BY <2>4 DEF DeleteQueue, Serves, At, HandlerGoto
    <3>2. \A m \in Queries : handlerPc'[m] = "Join" => m = n
      BY <3>1, HolderFacts DEF TypeOK, QueryTypeOK
    <3> QED
      BY <2>1, <3>1, <3>2, HolderFacts DEF HolderInv, Found
  <2>5. CASE DeleteQueue_Joined(n)
    <3>1. /\ handlerPc[n] = "Join" /\ holder' = "none"
          /\ handlerPc' = [handlerPc EXCEPT ![n] = "Success"]
      BY <2>5 DEF DeleteQueue_Joined, At, HandlerGoto
    <3>2. \A m \in Queries : handlerPc'[m] # "Join"
      BY <3>1 DEF HolderInv, TypeOK, QueryTypeOK
    <3> QED
      BY <2>1, <3>1, <3>2, HolderFacts DEF HolderInv
  <2>6. CASE Reply(n)
    BY <1>1, <2>1, <2>6 DEF Reply, HandlerGoto, registryVars, queueVars, TypeOK,
       QueryTypeOK
  <2> QED
    BY <1>3, <2>2, <2>3, <2>4, <2>5, <2>6, HandlerFacts, HandlerRegistry
<1>4. CASE Stop \/ Stopping \/ Start
  <2>1. UNCHANGED <<registry, thread, query, handlerPc>>
    BY <1>4, Frames DEF queryVars
  <2>2. CASE Stop_Use
    BY <2>1, <2>2, HolderFacts DEF Stop_Use, HolderInv, Registered
  <2>3. ASSUME NEW o \in Objects, Stop_Queue(o) PROVE HolderInv'
    BY <2>1, <2>3, HolderFacts DEF Stop_Queue, HolderInv, Registered, stopVars
  <2>4. CASE Stop_Joined
    BY <2>1, <2>4, HolderFacts DEF Stop_Joined, HolderInv, Registered
  <2>5. CASE Stop_Return
    BY <2>1, <2>5, HolderFacts DEF Stop_Return, HolderInv, Registered
  <2>6. CASE Stop \/ Stop_Flag \/ Start
    BY <2>1, <2>6 DEF Stop, Stop_Flag, Start, HolderInv, Registered, registryVars
  <2> QED
    BY <1>4, <2>2, <2>3, <2>4, <2>5, <2>6 DEF Stopping
<1>5. ASSUME NEW c \in Connections, OnDisconnected(c) PROVE HolderInv'
  BY <1>1, <1>5, Frames DEF stopVars, registryVars, queryVars
<1>6. ASSUME NEW o \in Objects, DeliveryThread(o) PROVE HolderInv'
  <2>1. Registered \subseteq Objects
    BY DEF Registered, Objects, TypeOK, RegistryTypeOK
  <2> QED
    BY <1>1, <1>6, <2>1, Frames, ThreadFacts DEF stopVars, registryVars, queryVars
<1> QED
  BY <1>2, <1>3, <1>4, <1>5, <1>6 DEF Next

\* Every step keeps ServerInv.
LEMMA ServerStep ==
    ASSUME TypeOK, ServerInv, Next
    PROVE  ServerInv'
<1>1. CASE Stop \/ Stopping \/ Start
  BY <1>1 DEF Stop, Stopping, Start, Stop_Flag, Stop_Use, Stop_Queue, Stop_Joined,
     Stop_Return, ServerInv, stopVars, TypeOK, StopTypeOK
<1>2. CASE Client
  <2>1. \A c \in Connections : connection'[c] = "open" => connection[c] = "open" \/ listening
    BY <1>2 DEF Client, Connect, Disconnect, Query, QueryTimeout, TypeOK, QueryTypeOK
  <2> QED
    BY <1>2, <2>1, Frames DEF ServerInv, stopVars
<1>3. ASSUME NEW c \in Connections, OnDisconnected(c) PROVE ServerInv'
  <2>1. \A d \in Connections : connection'[d] = "open" => connection[d] = "open"
    BY <1>3 DEF OnDisconnected, OnDisconnected_Test, RmServer_OnDisconnected, TypeOK,
                QueryTypeOK
  <2> QED
    BY <1>3, <2>1, Frames DEF ServerInv, stopVars
<1>4. CASE (\E n \in Queries : Handler(n)) \/ \E o \in Objects : DeliveryThread(o)
  BY <1>4, Frames DEF ServerInv, stopVars
<1> QED
  BY <1>1, <1>2, <1>3, <1>4 DEF Next

-----------------------------------------------------------------------------
(* Queries *)

\* Connections are never new again.
LEMMA ConnectionFacts ==
    ASSUME TypeOK, Next, NEW c \in Connections, connection[c] # "new"
    PROVE  /\ connection'[c] # "new"
           /\ connection[c] # "open" => connection'[c] # "open"
<1>1. CASE Client
  BY <1>1 DEF Client, Connect, Disconnect, Query, QueryTimeout, TypeOK, QueryTypeOK
<1>2. ASSUME NEW d \in Connections, OnDisconnected(d)
      PROVE  /\ connection'[c] # "new"
             /\ connection[c] # "open" => connection'[c] # "open"
  BY <1>2 DEF OnDisconnected, OnDisconnected_Test, RmServer_OnDisconnected, TypeOK,
              QueryTypeOK
<1>3. CASE Stop \/ Stopping \/ Start
  BY <1>3 DEF Stop, Stopping, Start, Stop_Flag, Stop_Use, Stop_Queue, Stop_Joined,
              Stop_Return
<1>4. CASE (\E n \in Queries : Handler(n)) \/ \E o \in Objects : DeliveryThread(o)
  BY <1>4, Frames
<1> QED
  BY <1>1, <1>2, <1>3, <1>4 DEF Next

\* Every step keeps QueryInv: a query is sent when the last one is answered.
LEMMA QueryStep ==
    ASSUME TypeOK, QueryInv, Next
    PROVE  QueryInv'
<1>1. ASSUME UNCHANGED query,
             \A n \in Queries : Sent(n)' <=> Sent(n),
             \A n \in Queries : answer[n] # "none" => answer'[n] # "none",
             \A n \in Queries : handlerPc'[n] # "Replied" =>
                 \/ handlerPc[n] # "Replied" /\ answer'[n] = answer[n]
                 \/ answer'[n] = "timeout"
      PROVE  QueryInv'
  <2>1. \A n \in Queries : Sent(n) => connection'[query[n].connection] # "new"
    BY ConnectionFacts DEF QueryInv
  <2> QED
    BY <1>1, <2>1 DEF QueryInv
<1>2. CASE UNCHANGED queryVars
  BY <1>1, <1>2 DEF queryVars, Sent, QueryInv
<1>3. ASSUME NEW c \in Connections, NEW op \in Operations, NEW q \in QueueNames,
             Query(c, op, q)
      PROVE  QueryInv'
  <2>1. PICK n \in Queries :
            /\ \A m \in Queries : query[m].connection = c => answer[m] # "none"
            /\ \A m \in Queries : handlerPc[m] = "unsent" <=> m >= n
            /\ query' = [query EXCEPT ![n] = [connection |-> c, operation |-> op,
                                              queue |-> q]]
            /\ handlerPc' = [handlerPc EXCEPT ![n] = FirstStep(op)]
    BY <1>3 DEF Query
  <2>2. connection[c] = "open" /\ UNCHANGED <<connection, answer>>
    BY <1>3 DEF Query
  <2>3. FirstStep(op) \in {"Use", "Loop"} /\ op \in AllOperations
    BY ServerAssumption DEF FirstStep
  <2>4. \A m \in Queries :
            /\ m # n => query'[m] = query[m] /\ handlerPc'[m] = handlerPc[m]
            /\ query'[n] = [connection |-> c, operation |-> op, queue |-> q]
            /\ handlerPc'[n] \in {"Use", "Loop"} /\ handlerPc[n] = "unsent"
    BY <2>1, <2>3, ServerAssumption DEF TypeOK, QueryTypeOK, Queries
  <2>5. \A m \in Queries : /\ Sent(m) <=> m < n
                           /\ Sent(m)' <=> m <= n
    BY <2>1, <2>4, ServerAssumption DEF Sent, Queries
  <2>6. \A k, m \in Queries : Sent(m)' /\ k < m => Sent(k)'
    BY <2>5, ServerAssumption DEF Queries
  <2>7. \A m \in Queries :
          IF Sent(m)'
          THEN /\ query'[m] \in [connection : Connections, operation : AllOperations,
                                 queue : QueueNames]
               /\ connection'[query'[m].connection] # "new"
          ELSE query'[m] = NoQuery
    BY <2>2, <2>3, <2>4, <2>5, ServerAssumption DEF QueryInv, Queries
  <2>8. \A k, m \in Queries :
            Sent(m)' /\ k < m /\ query'[k].connection = query'[m].connection =>
                answer'[k] # "none"
    BY <2>1, <2>2, <2>4, <2>5, ServerAssumption DEF QueryInv, Queries
  <2>9. \A m \in Queries : handlerPc'[m] # "Replied" => answer'[m] \in {"none", "timeout"}
    BY <2>2, <2>4 DEF QueryInv
  <2> QED
    BY <2>6, <2>7, <2>8, <2>9 DEF QueryInv
<1>4. ASSUME NEW n \in Queries, QueryTimeout(n) PROVE QueryInv'
  <2>1. UNCHANGED <<query, handlerPc>>
        /\ \A m \in Queries : answer'[m] = IF m = n THEN "timeout" ELSE answer[m]
    BY <1>4 DEF QueryTimeout, TypeOK, QueryTypeOK
  <2> QED
    BY <1>1, <2>1 DEF Sent
<1>5. ASSUME NEW n \in Queries, Handler(n) PROVE QueryInv'
  <2>1. UNCHANGED query
    BY <1>5, Frames
  <2>2. CASE Reply(n)
    <3>1. /\ handlerPc[n] \in {"Success", "Failed"}
          /\ \A m \in Queries :
                IF m = n THEN /\ handlerPc'[m] = "Replied"
                              /\ answer[m] # "none" => answer'[m] = answer[m]
                         ELSE handlerPc'[m] = handlerPc[m] /\ answer'[m] = answer[m]
      BY <2>2 DEF Reply, HandlerGoto, TypeOK, QueryTypeOK
    <3> QED
      BY <1>1, <2>1, <3>1 DEF Sent
  <2>3. CASE Advances(n) \/ DeleteQueue(n) \/ DeleteQueue_Joined(n)
    <3>1. /\ UNCHANGED answer
          /\ handlerPc[n] \notin {"unsent", "Replied"}
          /\ handlerPc'[n] \notin {"unsent", "Replied"}
          /\ \A m \in Queries : m # n => handlerPc'[m] = handlerPc[m]
      BY <2>3 DEF Advances, DeleteQueue, DeleteQueue_Joined, Serves, At, HandlerGoto,
         TypeOK, QueryTypeOK
    <3> QED
      BY <1>1, <2>1, <3>1 DEF Sent
  <2> QED
    BY <1>5, <2>2, <2>3, HandlerFacts
<1>6. CASE \/ Stop \/ Stopping \/ Start \/ (\E c \in Connections : OnDisconnected(c))
           \/ \E o \in Objects : DeliveryThread(o)
  BY <1>2, <1>6, Frames
<1>7. ASSUME NEW c \in Connections, Connect(c) \/ Disconnect(c) PROVE QueryInv'
  BY <1>2, <1>7 DEF Connect, Disconnect
<1> QED
  BY <1>3, <1>4, <1>5, <1>6, <1>7 DEF Next, Client

-----------------------------------------------------------------------------
(* Messages *)

\* Steps that enqueue nothing.
LEMMA NothingEnqueued ==
    ASSUME TypeOK, EnqueueInv, UNCHANGED enqueued,
           \A n \in Queries : handlerPc[n] \in {"Success", "Replied"} =>
               handlerPc'[n] \in {"Success", "Replied"} /\ query'[n] = query[n],
           \A n \in Queries : answer[n] = "timeout" => answer'[n] = "timeout",
           \A n \in Queries :
               query'[n].operation = "EnqueueMessage" /\ handlerPc'[n] = "Success" =>
                   IsEnqueued(n) \/ connection'[query'[n].connection] # "open",
           \A n \in Queries :
               query'[n].operation = "EnqueueMessage" /\ answer'[n] = "Success" =>
                   IsEnqueued(n)
    PROVE  EnqueueInv'
<1>1. \A o \in Objects : \A i \in DOMAIN enqueued[o] : enqueued[o][i] \in Queries
  BY DEF TypeOK, QueryTypeOK
<1>2. \A o \in Objects : \A i \in DOMAIN enqueued[o] :
          /\ handlerPc'[enqueued[o][i]] \in {"Success", "Replied"}
          /\ query'[enqueued[o][i]] = query[enqueued[o][i]]
  BY <1>1 DEF EnqueueInv
<1>3. AcceptedIsEnqueued' /\ EnqueuedOnce'
  BY DEF EnqueueInv, AcceptedIsEnqueued, EnqueuedOnce, IsEnqueued
<1>4. SenderOrder'
  BY <1>1, <1>2 DEF EnqueueInv, SenderOrder
<1> QED
  BY <1>2, <1>3, <1>4 DEF EnqueueInv, IsEnqueued

\* The handler of EnqueueMessage, when it has the queue.
LEMMA MessageEnqueued ==
    ASSUME TypeOK, QueryInv, EnqueueInv, NEW n \in Queries, EnqueueMessage(n)
    PROVE  EnqueueInv'
<1> DEFINE o == Found(n)
           last == Len(enqueued[o]) + 1
<1>1. /\ o \in Objects /\ handlerPc[n] = "Use" /\ Sent(n)
      /\ enqueued' = [enqueued EXCEPT ![o] = Append(enqueued[o], n)]
      /\ handlerPc' = [handlerPc EXCEPT ![n] = "Success"]
      /\ UNCHANGED <<connection, query, answer>>
  BY ServesFacts DEF EnqueueMessage, HandlerGoto, Sent
<1>2. enqueued[o] \in Seq(Queries) /\ Len(enqueued[o]) \in Nat
  BY <1>1 DEF TypeOK, QueryTypeOK
<1> HIDE DEF o
<1>3. /\ \A p \in Objects \ {o} : enqueued'[p] = enqueued[p]
      /\ enqueued'[o] = Append(enqueued[o], n)
  BY <1>1 DEF TypeOK, QueryTypeOK
<1>4. /\ DOMAIN enqueued[o] = 1..Len(enqueued[o])
      /\ DOMAIN enqueued'[o] = 1..last
      /\ \A i \in 1..Len(enqueued[o]) : enqueued'[o][i] = enqueued[o][i]
      /\ enqueued'[o][last] = n
  BY <1>2, <1>3
<1> HIDE DEF last
<1>5. last \in Nat /\ last = Len(enqueued[o]) + 1
  BY <1>2 DEF last
<1>6. \A p \in Objects : \A i \in DOMAIN enqueued'[p] :
          \/ i \in DOMAIN enqueued[p] /\ enqueued'[p][i] = enqueued[p][i]
             /\ (p = o => i < last)
          \/ p = o /\ i = last /\ enqueued'[p][i] = n
  BY <1>2, <1>3, <1>4, <1>5
<1>7. \A p \in Objects : \A i \in DOMAIN enqueued[p] :
          i \in DOMAIN enqueued'[p] /\ enqueued'[p][i] = enqueued[p][i]
  BY <1>2, <1>3, <1>4, <1>5
<1>8. \A p \in Objects : \A i \in DOMAIN enqueued[p] :
          /\ enqueued[p][i] \in Queries /\ enqueued[p][i] # n
          /\ handlerPc[enqueued[p][i]] \in {"Success", "Replied"}
  BY <1>1 DEF EnqueueInv, TypeOK, QueryTypeOK
<1>9. \A m \in Queries : IsEnqueued(m) => IsEnqueued(m)'
  BY <1>7 DEF IsEnqueued
<1>10. IsEnqueued(n)'
  BY <1>1, <1>4, <1>5 DEF IsEnqueued
<1>11. \A m \in Queries : m # n => handlerPc'[m] = handlerPc[m]
  BY <1>1 DEF TypeOK, QueryTypeOK
<1>12. handlerPc'[n] = "Success"
  BY <1>1 DEF TypeOK, QueryTypeOK
<1>13. \A p \in Objects : \A i \in DOMAIN enqueued'[p] :
           handlerPc'[enqueued'[p][i]] \in {"Success", "Replied"}
  BY <1>6, <1>8, <1>11, <1>12
<1>14. \A m \in Queries :
           query'[m].operation = "EnqueueMessage" /\ handlerPc'[m] = "Success" =>
               IsEnqueued(m)' \/ connection'[query'[m].connection] # "open"
  BY <1>1, <1>9, <1>10, <1>11 DEF EnqueueInv
<1>15. AcceptedIsEnqueued'
  BY <1>1, <1>9 DEF EnqueueInv, AcceptedIsEnqueued, IsEnqueued
<1>16. EnqueuedOnce'
  BY <1>6, <1>8 DEF EnqueueInv, EnqueuedOnce
<1>17. SenderOrder'
  <2> SUFFICES ASSUME NEW p \in Objects, NEW i \in DOMAIN enqueued'[p],
                      NEW j \in DOMAIN enqueued'[p], i < j,
                      query[enqueued'[p][i]].connection = query[enqueued'[p][j]].connection
               PROVE  \/ enqueued'[p][i] < enqueued'[p][j]
                      \/ answer[enqueued'[p][j]] = "timeout"
    BY <1>1 DEF SenderOrder
  <2>1. i \in DOMAIN enqueued[p] /\ enqueued'[p][i] = enqueued[p][i]
    <3>1. CASE p = o
      BY <1>4, <1>5, <1>6, <3>1
    <3>2. CASE p # o
      BY <1>6, <3>2
    <3> QED
      BY <3>1, <3>2
  <2>2. CASE j \in DOMAIN enqueued[p] /\ enqueued'[p][j] = enqueued[p][j]
    BY <2>1, <2>2 DEF EnqueueInv, SenderOrder
  <2>3. CASE enqueued'[p][j] = n
    <3> DEFINE m == enqueued[p][i]
    <3>1. m \in Queries /\ m # n /\ Sent(m)
      BY <1>8, <2>1 DEF Sent
    <3>2. m < n \/ n < m
      BY <3>1, ServerAssumption DEF Queries
    <3>3. n < m => answer[n] # "none"
      BY <2>1, <2>3, <3>1 DEF QueryInv
    <3>4. answer[n] \in {"none", "timeout"}
      BY <1>1 DEF QueryInv
    <3> QED
      BY <2>1, <2>3, <3>2, <3>3, <3>4
  <2> QED
    BY <1>6, <2>2, <2>3
<1> QED
  BY <1>13, <1>14, <1>15, <1>16, <1>17 DEF EnqueueInv

\* Success of a handler of EnqueueMessage.
LEMMA EnqueueStep ==
    ASSUME TypeOK, ServerInv, QueryInv, EnqueueInv, Next
    PROVE  EnqueueInv'
<1>1. ASSUME UNCHANGED <<enqueued, queryVars>>
      PROVE  EnqueueInv'
  <2>1. \A n \in Queries : handlerPc[n] = "Success" /\
            connection[query[n].connection] # "open" =>
                connection'[query[n].connection] # "open"
    BY ConnectionFacts DEF QueryInv, Sent
  <2> QED
    BY <1>1, <2>1, NothingEnqueued DEF EnqueueInv, queryVars, AcceptedIsEnqueued,
       IsEnqueued
<1>2. CASE Client
  <2>1. UNCHANGED enqueued
    BY <1>2, Frames
  <2>2. ASSUME NEW c \in Connections, Connect(c) \/ Disconnect(c) PROVE EnqueueInv'
    BY <1>1, <2>1, <2>2 DEF Connect, Disconnect
  <2>3. ASSUME NEW c \in Connections, NEW op \in Operations, NEW q \in QueueNames,
               Query(c, op, q)
        PROVE  EnqueueInv'
    <3>1. PICK n \in Queries :
              /\ \A m \in Queries : handlerPc[m] = "unsent" <=> m >= n
              /\ query' = [query EXCEPT ![n] = [connection |-> c, operation |-> op,
                                                queue |-> q]]
              /\ handlerPc' = [handlerPc EXCEPT ![n] = FirstStep(op)]
      BY <2>3 DEF Query
    <3>2. UNCHANGED <<connection, answer>>
      BY <2>3 DEF Query
    <3>3. handlerPc[n] = "unsent" /\ handlerPc'[n] \in {"Use", "Loop"}
      BY <3>1, ServerAssumption DEF FirstStep, Queries, TypeOK, QueryTypeOK
    <3>4. answer[n] \in {"none", "timeout"}
      BY <3>3 DEF QueryInv
    <3>5. \A m \in Queries : m # n => query'[m] = query[m] /\ handlerPc'[m] = handlerPc[m]
      BY <3>1 DEF TypeOK, QueryTypeOK
    <3> QED
      BY <2>1, <3>2, <3>3, <3>4, <3>5, NothingEnqueued DEF EnqueueInv,
         AcceptedIsEnqueued, IsEnqueued
  <2>4. ASSUME NEW n \in Queries, QueryTimeout(n) PROVE EnqueueInv'
    <3>1. UNCHANGED <<connection, query, handlerPc>>
          /\ \A m \in Queries : answer'[m] = IF m = n THEN "timeout" ELSE answer[m]
      BY <2>4 DEF QueryTimeout, TypeOK, QueryTypeOK
    <3> QED
      BY <2>1, <3>1, NothingEnqueued DEF EnqueueInv, AcceptedIsEnqueued, IsEnqueued
  <2> QED
    BY <1>2, <2>2, <2>3, <2>4 DEF Client
<1>3. ASSUME NEW n \in Queries, Handler(n) PROVE EnqueueInv'
  <2>1. UNCHANGED <<connection, query>>
    BY <1>3, Frames
  <2>2. CASE EnqueueMessage(n)
    BY <2>2, MessageEnqueued
  <2>3. CASE Reply(n)
    <3>1. /\ UNCHANGED enqueued /\ handlerPc[n] \in {"Success", "Failed"}
          /\ handlerPc'[n] = "Replied"
          /\ answer'[n] = IF answer[n] = "none" /\ connection[query[n].connection] = "open"
                          THEN handlerPc[n] ELSE answer[n]
          /\ \A m \in Queries : m # n =>
                handlerPc'[m] = handlerPc[m] /\ answer'[m] = answer[m]
      BY <2>3 DEF Reply, HandlerGoto, TypeOK, QueryTypeOK
    <3> QED
      BY <2>1, <3>1, NothingEnqueued DEF EnqueueInv, AcceptedIsEnqueued, IsEnqueued
  <2>4. CASE ~EnqueueMessage(n) /\ ~Reply(n)
    <3>1. UNCHANGED enqueued
      BY <1>3, <2>4 DEF Handler, HandlerUse, TestKeepRunning, Retry, QueueNotFound,
         CreateQueue, DeleteQueue, DeleteQueue_Joined, SubscribeToQueue,
         UnsubscribeFromQueue, PurgeQueue
    <3>2. /\ UNCHANGED answer
          /\ handlerPc[n] \in {"Loop", "Use", "Join"}
          /\ \A m \in Queries : m # n => handlerPc'[m] = handlerPc[m]
      BY <1>3, <2>4, HandlerFacts DEF Advances, DeleteQueue, DeleteQueue_Joined, Serves,
         At, HandlerGoto, TypeOK, QueryTypeOK
    <3>3. query[n].operation = "EnqueueMessage" /\ handlerPc'[n] = "Success" =>
              ~serverRunning
      <4>1. CASE TestKeepRunning(n) \/ Retry(n) \/ QueueNotFound(n)
        BY <4>1 DEF TestKeepRunning, Retry, QueueNotFound, HandlerGoto, TypeOK,
           QueryTypeOK
      <4>2. CASE CreateQueue(n) \/ DeleteQueue(n) \/ DeleteQueue_Joined(n)
        BY <4>2 DEF CreateQueue, DeleteQueue, DeleteQueue_Joined, Serves, At
      <4>3. CASE SubscribeToQueue(n) \/ UnsubscribeFromQueue(n) \/ PurgeQueue(n)
        BY <4>3 DEF SubscribeToQueue, UnsubscribeFromQueue, PurgeQueue, Serves, At
      <4> QED
        BY <1>3, <2>4, <4>1, <4>2, <4>3 DEF Handler, HandlerUse
    <3>4. ~serverRunning => connection[query[n].connection] # "open"
      BY <3>2 DEF ServerInv, QueryInv, Sent
    <3> QED
      BY <2>1, <3>1, <3>2, <3>3, <3>4, NothingEnqueued DEF EnqueueInv,
         AcceptedIsEnqueued, IsEnqueued
  <2> QED
    BY <2>2, <2>3, <2>4
<1>4. CASE \/ Stop \/ Stopping \/ Start \/ (\E c \in Connections : OnDisconnected(c))
           \/ \E o \in Objects : DeliveryThread(o)
  BY <1>1, <1>4, Frames
<1> QED
  BY <1>2, <1>3, <1>4 DEF Next

-----------------------------------------------------------------------------
(* The invariant, and what follows from it *)

\* Every step keeps the invariant.
LEMMA InvariantStep == IInv /\ [Next]_vars => IInv'
<1> SUFFICES ASSUME IInv, [Next]_vars PROVE IInv'
  OBVIOUS
<1>1. CASE Next
  BY <1>1, TypeStep, RegistryStep, HolderStep, ServerStep, QueryStep, EnqueueStep
     DEF IInv
<1>2. CASE UNCHANGED vars
  <2> USE <1>2 DEF vars, stopVars, registryVars, queueVars, queryVars
  <2>1. TypeOK'
    BY DEF IInv, TypeOK, StopTypeOK, RegistryTypeOK, QueueTypeOK, QueryTypeOK
  <2>2. RegistryInv' /\ HolderInv' /\ ServerInv'
    BY DEF IInv, RegistryInv, NoOrphanThread, Alive, Registered, HolderInv, ServerInv
  <2>3. QueryInv'
    BY DEF IInv, QueryInv, Sent
  <2>4. EnqueueInv'
    BY DEF IInv, EnqueueInv, AcceptedIsEnqueued, EnqueuedOnce, SenderOrder, IsEnqueued
  <2> QED
    BY <2>1, <2>2, <2>3, <2>4 DEF IInv
<1> QED
  BY <1>1, <1>2

\* The invariant holds throughout.
LEMMA Invariance == Spec => []IInv
<1> QED
  BY InitHolds, InvariantStep, PTL DEF Spec

\* Types, and which variables are set at which program points.
THEOREM TypeCorrect == Spec => []TypeOK
<1>1. IInv => TypeOK
  BY DEF IInv
<1> QED
  BY <1>1, Invariance, PTL

\* A live delivery thread belongs to a queue that is in the dictionary, so that
\* no name ever has two (MqServer.cs:347-359, 364-389).
THEOREM NoOrphans == Spec => []NoOrphanThread
<1>1. IInv => NoOrphanThread
  BY DEF IInv, RegistryInv
<1> QED
  BY <1>1, Invariance, PTL

\* Stop ends with the delivery threads of all the queues gone
\* (MqServer.cs:319-326, 347-359).
THEOREM StopIsComplete == Spec => []StopSweeps
<1>1. IInv => StopSweeps
  BY DEF IInv, HolderInv, StopSweeps, Alive
<1> QED
  BY <1>1, Invariance, PTL

\* A client is told of success only for a message that was added, although a
\* handler that finds the server stopped adds nothing and reports success
\* (MqServer.cs:462-493).
THEOREM Acceptance == Spec => []AcceptedIsEnqueued
<1>1. IInv => AcceptedIsEnqueued
  BY DEF IInv, EnqueueInv
<1> QED
  BY <1>1, Invariance, PTL

\* However often its loop goes round, a handler adds its message once
\* (MqServer.cs:466-491).
THEOREM SingleEnqueue == Spec => []EnqueuedOnce
<1>1. IInv => EnqueuedOnce
  BY DEF IInv, EnqueueInv
<1> QED
  BY <1>1, Invariance, PTL

\* Messages that a connection has sent one after the other, with replies, are in
\* the queue in that order (MqServer.cs:462-493).
THEOREM OrderOfSender == Spec => []SenderOrder
<1>1. IInv => SenderOrder
  BY DEF IInv, EnqueueInv
<1> QED
  BY <1>1, Invariance, PTL

\* RmServer_OnDisconnected is through only when it has seen every queue
\* (MqServer.cs:276-300).
THEOREM SubscriptionsGone == Spec => SubscriptionsRemoved
<1>1. IInv /\ [Next]_vars =>
         [\A c \in Connections :
             connection[c] # "Removed" /\ connection'[c] = "Removed" =>
                 \A o \in Registered : c \notin subscribers'[o]]_vars
  <2> SUFFICES ASSUME IInv, Next, NEW c \in Connections, connection[c] # "Removed",
                      connection'[c] = "Removed", NEW o \in Registered
               PROVE  c \notin subscribers'[o]
    OBVIOUS
  <2>1. o \in Objects
    BY DEF IInv, TypeOK, RegistryTypeOK, Registered, Objects
  <2>2. ~Client /\ ~Stop /\ ~Stopping /\ ~Start
    BY DEF Client, Connect, Disconnect, Query, QueryTimeout, Stop, Stopping, Start,
       Stop_Flag, Stop_Use, Stop_Queue, Stop_Joined, Stop_Return, IInv, TypeOK,
       QueryTypeOK
  <2>3. PICK d \in Connections : OnDisconnected(d)
    BY <2>2, Frames DEF Next
  <2>4. RmServer_OnDisconnected(d) /\ c = d
    BY <2>3 DEF OnDisconnected, OnDisconnected_Test, RmServer_OnDisconnected, IInv,
       TypeOK, QueryTypeOK
  <2>5. PICK missed \in SUBSET { p \in Registered : Holds(p) } :
            /\ subscribers' = [p \in Objects |->
                   IF p \in Registered \ missed THEN subscribers[p] \ {d}
                                                ELSE subscribers[p]]
            /\ connection' = [connection EXCEPT ![d] =
                   IF missed = {} THEN "Removed" ELSE "Loop"]
    BY <2>4 DEF RmServer_OnDisconnected
  <2>6. missed = {}
    BY <2>4, <2>5 DEF IInv, TypeOK, QueryTypeOK
  <2> QED
    BY <2>1, <2>4, <2>5, <2>6
<1> QED
  BY <1>1, Invariance, PTL DEF Spec, SubscriptionsRemoved
=============================================================================
