------------------------------ MODULE MqServer ------------------------------
(***************************************************************************)
(* MqServer with several queues: the dictionary _messageQueues, the query  *)
(* handlers that run on pool threads and loop while their locks are taken, *)
(* the removal of a closed connection's subscriptions, Stop and Start.     *)
(*                                                                         *)
(* Handlers do their work inside _messageQueues.Use, one at a time.  The   *)
(* lock is held from one step to another only while MessageQueue.Stop      *)
(* joins a delivery thread (variable holder).  The delivery thread of a    *)
(* queue is cut down to what its neighbours see of it: whether it holds    *)
(* the queue's two locks ("Holding"), waits for a client ("Query"), wants  *)
(* the locks back ("Remove"), or is gone.  Its details are in              *)
(* MessageQueue.                                                           *)
(***************************************************************************)
EXTENDS Integers, FiniteSets, SequencesExt, Sublists

CONSTANTS
    Connections,    \* connection ids, never reused
    QueueNames,     \* lower-cased queue names, the keys of the dictionary
    InitialQueues,  \* names of the queues that exist at first
    Operations,     \* operations clients ask for, among AllOperations
    MaxQueries,     \* bound: queries sent in one behaviour
    MaxCreated      \* bound: MessageQueue objects created in one behaviour

AllOperations == {"CreateQueue", "DeleteQueue", "SubscribeToQueue",
                  "UnsubscribeFromQueue", "EnqueueMessage", "PurgeQueue"}

ASSUME ServerAssumption ==
    /\ IsFiniteSet(InitialQueues)
    /\ InitialQueues \subseteq QueueNames
    /\ Operations \subseteq AllOperations
    /\ MaxQueries \in Nat
    /\ MaxCreated \in Nat
    /\ Cardinality(InitialQueues) <= MaxCreated

VARIABLES
    serverRunning,  \* MqServer._keepRunning
    listening,      \* _rmServer is started
    stopPc,         \* where MqServer.Stop is
    toStop,         \* queues Stop has yet to stop
    registry,       \* _messageQueues: the object registered under a name, or 0
    holder,         \* who holds _messageQueues across a Join
    joined,         \* the object whose thread is being joined
    created,        \* number of MessageQueue objects made
    KeepRunning,    \* MessageQueue.KeepRunning
    subscribers,    \* MessageQueue.Subscribers
    messages,       \* MessageQueue.EnqueuedMessages: the queries that brought them
    thread,         \* program point of MessageQueue.DeliveryThread
    topMessage,     \* the message in the hands of the thread, or 0
    connection,     \* state of a connection and of its RmServer_OnDisconnected
    query,          \* what query number n asks for
    handlerPc,      \* program point of its handler
    answer,         \* what its sender has learned
    enqueued        \* history: the enqueued messages of an object, in order

stopVars == <<serverRunning, listening, stopPc, toStop>>
registryVars == <<registry, holder, joined, created>>
queueVars == <<KeepRunning, subscribers, messages, thread, topMessage>>
queryVars == <<query, handlerPc, answer>>
vars == <<stopVars, registryVars, queueVars, connection, queryVars, enqueued>>

Objects == 1..MaxCreated
Queries == 1..MaxQueries

NoQuery == [connection |-> "none", operation |-> "none", queue |-> "none"]

Registered == { registry[q] : q \in QueueNames } \ {0}

\* The queue a handler finds in the dictionary, 0 if there is none.
Found(n) == registry[query[n].queue]

\* _messageQueues can be had.
DictionaryFree == holder = "none"

\* The thread is inside TryUseAll: a TryUse of a handler would time out.
Holds(o) == thread[o] = "Holding"

\* DeleteQueue keeps EnqueuedMessages of the object while it joins.
ListFree(o) == ~(holder = "DeleteQueue" /\ joined = o)

-----------------------------------------------------------------------------
Init ==
    /\ serverRunning = TRUE /\ listening = TRUE
    /\ stopPc = "running" /\ toStop = {}
    /\ created = Cardinality(InitialQueues)
    /\ registry \in { r \in [QueueNames -> 0..created] :
            /\ \A q \in QueueNames : r[q] # 0 <=> q \in InitialQueues
            /\ \A p, q \in InitialQueues : r[p] = r[q] => p = q }
    /\ holder = "none" /\ joined = 0
    /\ KeepRunning = [o \in Objects |-> o <= created]
    /\ subscribers = [o \in Objects |-> {}]
    /\ messages = [o \in Objects |-> <<>>]
    /\ thread = [o \in Objects |-> IF o <= created THEN "Loop" ELSE "Unstarted"]
    /\ topMessage = [o \in Objects |-> 0]
    /\ connection = [c \in Connections |-> "new"]
    /\ query = [n \in Queries |-> NoQuery]
    /\ handlerPc = [n \in Queries |-> "unsent"]
    /\ answer = [n \in Queries |-> "none"]
    /\ enqueued = [o \in Objects |-> <<>>]

-----------------------------------------------------------------------------
(* Clients.  A call of MqClient blocks on the Result of its query, so a    *)
(* connection has one query outstanding, which ends with the reply or with *)
(* a timeout while the handler goes on.                                    *)

Connect(c) ==
    /\ listening /\ connection[c] = "new"
    /\ connection' = [connection EXCEPT ![c] = "open"]
    /\ UNCHANGED <<stopVars, registryVars, queueVars, queryVars, enqueued>>

\* The handler of CreateQueue has no loop and does not look at _keepRunning.
FirstStep(op) == IF op = "CreateQueue" THEN "Use" ELSE "Loop"

\* Faulty variant: the caller does not wait for the result of the last query.
Query_NoWait(c, op, q) == \E n \in Queries :
    /\ connection[c] = "open"
    /\ \A m \in Queries : handlerPc[m] = "unsent" <=> m >= n
    /\ query' = [query EXCEPT ![n] = [connection |-> c, operation |-> op, queue |-> q]]
    /\ handlerPc' = [handlerPc EXCEPT ![n] = FirstStep(op)]
    /\ UNCHANGED <<stopVars, registryVars, queueVars, connection, answer, enqueued>>

Query(c, op, q) == \E n \in Queries :
    /\ connection[c] = "open"
    /\ \A m \in Queries : query[m].connection = c => answer[m] # "none"
    /\ \A m \in Queries : handlerPc[m] = "unsent" <=> m >= n
    /\ query' = [query EXCEPT ![n] = [connection |-> c, operation |-> op, queue |-> q]]
    /\ handlerPc' = [handlerPc EXCEPT ![n] = FirstStep(op)]
    /\ UNCHANGED <<stopVars, registryVars, queueVars, connection, answer, enqueued>>

\* QueryTimeout, or the connection went away.
QueryTimeout(n) ==
    /\ handlerPc[n] # "unsent" /\ answer[n] = "none"
    /\ answer' = [answer EXCEPT ![n] = "timeout"]
    /\ UNCHANGED <<stopVars, registryVars, queueVars, connection, query, handlerPc,
                   enqueued>>

Disconnect(c) ==
    /\ connection[c] = "open"
    /\ connection' = [connection EXCEPT ![c] = "Loop"]
    /\ UNCHANGED <<stopVars, registryVars, queueVars, queryVars, enqueued>>

-----------------------------------------------------------------------------
(* Handlers: while (_keepRunning) { Use ...; if (success) return; Sleep }  *)

At(n, op, pc) == handlerPc[n] = pc /\ query[n].operation = op

HandlerGoto(n, pc) == handlerPc' = [handlerPc EXCEPT ![n] = pc]

\* With the server stopped the handler returns, and the reply says success.
TestKeepRunning(n) ==
    /\ handlerPc[n] = "Loop"
    /\ HandlerGoto(n, IF serverRunning THEN "Use" ELSE "Success")
    /\ UNCHANGED <<stopVars, registryVars, queueVars, connection, query, answer,
                   enqueued>>

\* Faulty variant: the handler does not look at whether TryUse had the lock.
Retry_Ignored(n) ==
    /\ handlerPc[n] = "Use" /\ query[n].operation # "CreateQueue"
    /\ DictionaryFree
    /\ Found(n) # 0 /\ Holds(Found(n))
    /\ HandlerGoto(n, "Success")
    /\ UNCHANGED <<stopVars, registryVars, queueVars, connection, query, answer,
                   enqueued>>

\* TryUse(10) did not get the lock of the queue: success is false.
Retry(n) ==
    /\ handlerPc[n] = "Use" /\ query[n].operation # "CreateQueue"
    /\ DictionaryFree
    /\ Found(n) # 0 /\ Holds(Found(n))
    /\ HandlerGoto(n, "Loop")
    /\ UNCHANGED <<stopVars, registryVars, queueVars, connection, query, answer,
                   enqueued>>

\* Faulty variant: a handler that finds no queue goes round again.
QueueNotFound_Retry(n) ==
    /\ handlerPc[n] = "Use" /\ query[n].operation # "CreateQueue"
    /\ DictionaryFree
    /\ Found(n) = 0
    /\ HandlerGoto(n, "Loop")
    /\ UNCHANGED <<stopVars, registryVars, queueVars, connection, query, answer,
                   enqueued>>

\* The dictionary has no such queue: an exception for EnqueueMessage and
\* PurgeQueue, nothing to do for the others.
QueueNotFound(n) ==
    /\ handlerPc[n] = "Use" /\ query[n].operation # "CreateQueue"
    /\ DictionaryFree
    /\ Found(n) = 0
    /\ HandlerGoto(n, IF query[n].operation \in {"EnqueueMessage", "PurgeQueue"}
                      THEN "Failed" ELSE "Success")
    /\ UNCHANGED <<stopVars, registryVars, queueVars, connection, query, answer,
                   enqueued>>

\* Faulty variant: the dictionary is used although another holds it.
CreateQueue_NoLock(n) ==
    /\ At(n, "CreateQueue", "Use")
    /\ Found(n) = 0 /\ created < MaxCreated
    /\ created' = created + 1
    /\ registry' = [registry EXCEPT ![query[n].queue] = created']
    /\ KeepRunning' = [KeepRunning EXCEPT ![created'] = TRUE]
    /\ thread' = [thread EXCEPT ![created'] = "Loop"]
    /\ HandlerGoto(n, "Success")
    /\ UNCHANGED <<stopVars, holder, joined, subscribers, messages, topMessage,
                   connection, query, answer, enqueued>>

CreateQueue(n) ==
    /\ At(n, "CreateQueue", "Use")
    /\ DictionaryFree
    /\ \/ /\ Found(n) = 0
          /\ created < MaxCreated
          /\ created' = created + 1
          /\ registry' = [registry EXCEPT ![query[n].queue] = created']
          /\ KeepRunning' = [KeepRunning EXCEPT ![created'] = TRUE]
          /\ thread' = [thread EXCEPT ![created'] = "Loop"]
       \/ /\ Found(n) # 0
          /\ UNCHANGED <<created, registry, KeepRunning, thread>>
    /\ HandlerGoto(n, "Success")
    /\ UNCHANGED <<stopVars, holder, joined, subscribers, messages, topMessage,
                   connection, query, answer, enqueued>>

\* The handler has both the dictionary and the lock of the queue it found.
Serves(n, op) ==
    /\ At(n, op, "Use")
    /\ DictionaryFree
    /\ Found(n) # 0 /\ ~Holds(Found(n))

\* Faulty variant: the queue is removed without waiting for its thread.
DeleteQueue_NoJoin(n) ==
    /\ Serves(n, "DeleteQueue")
    /\ KeepRunning' = [KeepRunning EXCEPT ![Found(n)] = FALSE]
    /\ registry' = [registry EXCEPT ![query[n].queue] = 0]
    /\ HandlerGoto(n, "Success")
    /\ UNCHANGED <<stopVars, holder, joined, created, subscribers, messages, thread,
                   topMessage, connection, query, answer, enqueued>>

DeleteQueue(n) ==
    /\ Serves(n, "DeleteQueue")
    /\ KeepRunning' = [KeepRunning EXCEPT ![Found(n)] = FALSE]
    /\ holder' = "DeleteQueue" /\ joined' = Found(n)
    /\ HandlerGoto(n, "Join")
    /\ UNCHANGED <<stopVars, registry, created, subscribers, messages, thread,
                   topMessage, connection, query, answer, enqueued>>

DeleteQueue_Joined(n) ==
    /\ At(n, "DeleteQueue", "Join")
    /\ thread[joined] = "Exited"
    /\ registry' = [registry EXCEPT ![query[n].queue] = 0]
    /\ holder' = "none" /\ joined' = 0
    /\ HandlerGoto(n, "Success")
    /\ UNCHANGED <<stopVars, created, queueVars, connection, query, answer, enqueued>>

SubscribeToQueue(n) ==
    /\ Serves(n, "SubscribeToQueue")
    /\ subscribers' = [subscribers EXCEPT ![Found(n)] = @ \cup {query[n].connection}]
    /\ HandlerGoto(n, "Success")
    /\ UNCHANGED <<stopVars, registryVars, KeepRunning, messages, thread, topMessage,
                   connection, query, answer, enqueued>>

UnsubscribeFromQueue(n) ==
    /\ Serves(n, "UnsubscribeFromQueue")
    /\ subscribers' = [subscribers EXCEPT ![Found(n)] = @ \ {query[n].connection}]
    /\ HandlerGoto(n, "Success")
    /\ UNCHANGED <<stopVars, registryVars, KeepRunning, messages, thread, topMessage,
                   connection, query, answer, enqueued>>

\* Faulty variant: success is not recorded, and the handler goes round again.
EnqueueMessage_Again(n) ==
    /\ Serves(n, "EnqueueMessage")
    /\ messages' = [messages EXCEPT ![Found(n)] = Append(@, n)]
    /\ enqueued' = [enqueued EXCEPT ![Found(n)] = Append(@, n)]
    /\ Len(enqueued[Found(n)]) < 2
    /\ HandlerGoto(n, "Loop")
    /\ UNCHANGED <<stopVars, registryVars, KeepRunning, subscribers, thread,
                   topMessage, connection, query, answer>>

EnqueueMessage(n) ==
    /\ Serves(n, "EnqueueMessage")
    /\ messages' = [messages EXCEPT ![Found(n)] = Append(@, n)]
    /\ enqueued' = [enqueued EXCEPT ![Found(n)] = Append(@, n)]
    /\ HandlerGoto(n, "Success")
    /\ UNCHANGED <<stopVars, registryVars, KeepRunning, subscribers, thread,
                   topMessage, connection, query, answer>>

PurgeQueue(n) ==
    /\ Serves(n, "PurgeQueue")
    /\ messages' = [messages EXCEPT ![Found(n)] = <<>>]
    /\ HandlerGoto(n, "Success")
    /\ UNCHANGED <<stopVars, registryVars, KeepRunning, subscribers, thread,
                   topMessage, connection, query, answer, enqueued>>

\* InternalServerQueryHandlers turns the outcome into a reply, which reaches a
\* client that still waits on an open connection.
Reply(n) ==
    /\ handlerPc[n] \in {"Success", "Failed"}
    /\ answer' = [answer EXCEPT ![n] =
          IF @ = "none" /\ connection[query[n].connection] = "open"
          THEN handlerPc[n] ELSE @]
    /\ HandlerGoto(n, "Replied")
    /\ UNCHANGED <<stopVars, registryVars, queueVars, connection, query, enqueued>>

-----------------------------------------------------------------------------
(* RmServer_OnDisconnected: the same loop, over all the queues.            *)

OnDisconnected_Test(c) ==
    /\ connection[c] = "Loop"
    /\ connection' = [connection EXCEPT ![c] =
                          IF serverRunning THEN "Use" ELSE "Abandoned"]
    /\ UNCHANGED <<stopVars, registryVars, queueVars, queryVars, enqueued>>

\* Faulty variant: success is that of the last queue of the foreach only.
OnDisconnected_LastWins(c) ==
    /\ connection[c] = "Use"
    /\ DictionaryFree
    /\ \E missed \in SUBSET { o \in Registered : Holds(o) } :
          /\ subscribers' = [o \in Objects |->
                 IF o \in Registered \ missed THEN subscribers[o] \ {c}
                                              ELSE subscribers[o]]
          /\ connection' = [connection EXCEPT ![c] =
                 IF Registered \ missed # {} THEN "Removed" ELSE "Loop"]
    /\ UNCHANGED <<stopVars, registryVars, KeepRunning, messages, thread, topMessage,
                   queryVars, enqueued>>

\* A queue whose locks its thread holds may be missed; then all are done again.
RmServer_OnDisconnected(c) ==
    /\ connection[c] = "Use"
    /\ DictionaryFree
    /\ \E missed \in SUBSET { o \in Registered : Holds(o) } :
          /\ subscribers' = [o \in Objects |->
                 IF o \in Registered \ missed THEN subscribers[o] \ {c}
                                              ELSE subscribers[o]]
          /\ connection' = [connection EXCEPT ![c] =
                 IF missed = {} THEN "Removed" ELSE "Loop"]
    /\ UNCHANGED <<stopVars, registryVars, KeepRunning, messages, thread, topMessage,
                   queryVars, enqueued>>

-----------------------------------------------------------------------------
(* Stop and Start. *)

\* Faulty variant: the flag is cleared while clients are still connected.
Stop_FlagFirst ==
    /\ stopPc = "running"
    /\ serverRunning' = FALSE
    /\ stopPc' = "closed"
    /\ UNCHANGED <<listening, toStop, registryVars, queueVars, connection, queryVars,
                   enqueued>>

\* _rmServer.Stop: no more connections or replies; handlers go on.
Stop ==
    /\ stopPc = "running"
    /\ listening' = FALSE
    /\ connection' = [c \in Connections |->
           IF connection[c] = "open" THEN "Loop" ELSE connection[c]]
    /\ stopPc' = "closed"
    /\ UNCHANGED <<serverRunning, toStop, registryVars, queueVars, queryVars, enqueued>>

Stop_Flag ==
    /\ stopPc = "closed"
    /\ serverRunning' = FALSE
    /\ stopPc' = "flagged"
    /\ UNCHANGED <<listening, toStop, registryVars, queueVars, connection, queryVars,
                   enqueued>>

Stop_Use ==
    /\ stopPc = "flagged" /\ DictionaryFree
    /\ holder' = "Stop"
    /\ toStop' = Registered
    /\ stopPc' = "queues"
    /\ UNCHANGED <<serverRunning, listening, registry, joined, created, queueVars,
                   connection, queryVars, enqueued>>

\* Faulty variant: the thread is joined before KeepRunning is cleared.
Stop_Queue_JoinsFirst(o) ==
    /\ stopPc = "queues" /\ joined = 0
    /\ o \in toStop
    /\ joined' = o
    /\ UNCHANGED <<stopVars, registry, holder, created, queueVars, connection,
                   queryVars, enqueued>>

Stop_Queue(o) ==
    /\ stopPc = "queues" /\ joined = 0
    /\ o \in toStop
    /\ KeepRunning' = [KeepRunning EXCEPT ![o] = FALSE]
    /\ joined' = o
    /\ UNCHANGED <<stopVars, registry, holder, created, subscribers, messages, thread,
                   topMessage, connection, queryVars, enqueued>>

Stop_Joined ==
    /\ stopPc = "queues" /\ joined # 0
    /\ thread[joined] = "Exited"
    /\ toStop' = toStop \ {joined}
    /\ joined' = 0
    /\ UNCHANGED <<serverRunning, listening, stopPc, registry, holder, created,
                   queueVars, connection, queryVars, enqueued>>

Stop_Return ==
    /\ stopPc = "queues" /\ joined = 0 /\ toStop = {}
    /\ holder' = "none"
    /\ stopPc' = "stopped"
    /\ UNCHANGED <<serverRunning, listening, toStop, registry, joined, created,
                   queueVars, connection, queryVars, enqueued>>

Start ==
    /\ stopPc = "stopped"
    /\ serverRunning' = TRUE /\ listening' = TRUE
    /\ stopPc' = "running"
    /\ UNCHANGED <<toStop, registryVars, queueVars, connection, queryVars, enqueued>>

-----------------------------------------------------------------------------
(* The delivery thread of object o, as its neighbours see it. *)

ThreadGoto(o, pc) == thread' = [thread EXCEPT ![o] = pc]

Thread_Exit(o) ==
    /\ thread[o] = "Loop" /\ ~KeepRunning[o]
    /\ ThreadGoto(o, "Exited")
    /\ UNCHANGED <<stopVars, registryVars, KeepRunning, subscribers, messages,
                   topMessage, connection, queryVars, enqueued>>

Thread_TryUseAll(o) ==
    /\ thread[o] = "Loop" /\ KeepRunning[o]
    /\ ListFree(o)
    /\ ThreadGoto(o, "Holding")
    /\ UNCHANGED <<stopVars, registryVars, KeepRunning, subscribers, messages,
                   topMessage, connection, queryVars, enqueued>>

\* Faulty variant: FirstOrDefault without the test for null.
Thread_Scan_NoNullTest(o) ==
    /\ thread[o] = "Holding"
    /\ IF subscribers[o] # {}
       THEN /\ topMessage' = [topMessage EXCEPT ![o] =
                    IF messages[o] = <<>> THEN 0 ELSE Head(messages[o])]
            /\ ThreadGoto(o, "Query")
       ELSE ThreadGoto(o, "Loop") /\ UNCHANGED topMessage
    /\ UNCHANGED <<stopVars, registryVars, KeepRunning, subscribers, messages,
                   connection, queryVars, enqueued>>

\* Expired messages go, and the first of the rest is taken up.
Thread_Scan(o) ==
    /\ thread[o] = "Holding"
    /\ \E rest \in Sublists(messages[o]) :
          messages' = [messages EXCEPT ![o] = rest]
    /\ \/ /\ subscribers[o] # {} /\ messages'[o] # <<>>
          /\ topMessage' = [topMessage EXCEPT ![o] = Head(messages'[o])]
          /\ ThreadGoto(o, "Query")
       \/ /\ subscribers[o] = {} \/ messages'[o] = <<>>
          /\ ThreadGoto(o, "Loop")
          /\ UNCHANGED topMessage
    /\ UNCHANGED <<stopVars, registryVars, KeepRunning, subscribers, connection,
                   queryVars, enqueued>>

\* The queries to the subscribers are over, one way or another.
Thread_Delivered(o) ==
    /\ thread[o] = "Query"
    /\ IF KeepRunning[o]
       THEN ThreadGoto(o, "Remove") /\ UNCHANGED topMessage
       ELSE ThreadGoto(o, "Exited") /\ topMessage' = [topMessage EXCEPT ![o] = 0]
    /\ UNCHANGED <<stopVars, registryVars, KeepRunning, subscribers, messages,
                   connection, queryVars, enqueued>>

Thread_UseAll(o) ==
    /\ thread[o] = "Remove"
    /\ ListFree(o)
    /\ \/ messages' = [messages EXCEPT ![o] = RemoveFirst(@, topMessage[o])]
       \/ UNCHANGED messages
    /\ topMessage' = [topMessage EXCEPT ![o] = 0]
    /\ ThreadGoto(o, "Loop")
    /\ UNCHANGED <<stopVars, registryVars, KeepRunning, subscribers, connection,
                   queryVars, enqueued>>

-----------------------------------------------------------------------------
HandlerUse(n) ==
    \/ QueueNotFound(n) \/ CreateQueue(n)
    \/ DeleteQueue(n) \/ DeleteQueue_Joined(n)
    \/ SubscribeToQueue(n) \/ UnsubscribeFromQueue(n)
    \/ EnqueueMessage(n) \/ PurgeQueue(n)

Handler(n) == TestKeepRunning(n) \/ Retry(n) \/ HandlerUse(n) \/ Reply(n)

Client ==
    \/ \E c \in Connections : Connect(c) \/ Disconnect(c)
    \/ \E c \in Connections, op \in Operations, q \in QueueNames : Query(c, op, q)
    \/ \E n \in Queries : QueryTimeout(n)

OnDisconnected(c) == OnDisconnected_Test(c) \/ RmServer_OnDisconnected(c)

\* What Stop does once called.
Stopping ==
    \/ Stop_Flag \/ Stop_Use \/ \E o \in Objects : Stop_Queue(o)
    \/ Stop_Joined \/ Stop_Return

DeliveryThread(o) ==
    \/ Thread_Exit(o) \/ Thread_TryUseAll(o) \/ Thread_Scan(o)
    \/ Thread_Delivered(o) \/ Thread_UseAll(o)

Next ==
    \/ Client \/ Stop \/ Stopping \/ Start
    \/ \E n \in Queries : Handler(n)
    \/ \E c \in Connections : OnDisconnected(c)
    \/ \E o \in Objects : DeliveryThread(o)

Spec == Init /\ [][Next]_vars

(* Fairness.  Threads are scheduled, and queries to subscribers end.  A    *)
(* handler that waits for a lock gets it when the lock is free time and    *)
(* again, and TryUse(10) does not miss for ever, neither for a handler nor *)
(* for RmServer_OnDisconnected: the thread keeps the locks for one scan of *)
(* the list and then waits or queries.                                     *)
FairSpec ==
    /\ Spec
    /\ \A n \in Queries :
          /\ WF_vars(TestKeepRunning(n) \/ Reply(n))
          /\ SF_vars(HandlerUse(n))
          /\ <>[][~Retry(n)]_vars
    /\ \A c \in Connections :
          /\ WF_vars(OnDisconnected_Test(c))
          /\ SF_vars(RmServer_OnDisconnected(c) /\ connection'[c] = "Removed")
    /\ \A o \in Objects : WF_vars(DeliveryThread(o))
    /\ SF_vars(Stopping)

-----------------------------------------------------------------------------
(* Properties *)

StopTypeOK ==
    /\ serverRunning \in BOOLEAN /\ listening \in BOOLEAN
    /\ stopPc \in {"running", "closed", "flagged", "queues", "stopped"}
    /\ toStop \subseteq Objects

RegistryTypeOK ==
    /\ registry \in [QueueNames -> 0..MaxCreated]
    /\ holder \in {"none", "DeleteQueue", "Stop"}
    /\ joined \in 0..MaxCreated
    /\ created \in 0..MaxCreated
    /\ joined # 0 => holder # "none"
    /\ holder = "DeleteQueue" <=> \E n \in Queries : handlerPc[n] = "Join"

QueueTypeOK ==
    /\ KeepRunning \in [Objects -> BOOLEAN]
    /\ subscribers \in [Objects -> SUBSET Connections]
    /\ messages \in [Objects -> Seq(Queries)]
    /\ thread \in [Objects -> {"Unstarted", "Loop", "Holding", "Query", "Remove",
                               "Exited"}]
    /\ topMessage \in [Objects -> 0..MaxQueries]
    /\ \A o \in Objects :
          /\ thread[o] \in {"Query", "Remove"} <=> topMessage[o] # 0
          /\ thread[o] = "Unstarted" <=> o > created

QueryTypeOK ==
    /\ connection \in [Connections -> {"new", "open", "Loop", "Use", "Removed",
                                       "Abandoned"}]
    /\ DOMAIN query = Queries
    /\ \A n \in Queries : query[n] = NoQuery \/
          query[n] \in [connection : Connections, operation : AllOperations,
                        queue : QueueNames]
    /\ handlerPc \in [Queries -> {"unsent", "Loop", "Use", "Join", "Success",
                                  "Failed", "Replied"}]
    /\ answer \in [Queries -> {"none", "Success", "Failed", "timeout"}]
    /\ enqueued \in [Objects -> Seq(Queries)]

\* Types, and which variables are set at which program points.
TypeOK == StopTypeOK /\ RegistryTypeOK /\ QueueTypeOK /\ QueryTypeOK

Alive(o) == thread[o] \notin {"Unstarted", "Exited"}

\* A live delivery thread belongs to a queue that clients can reach: no name
\* ever has two threads, and no thread outlives the removal of its queue.
NoOrphanThread == \A o \in Objects : Alive(o) => o \in Registered

\* When Stop has been through its queues no registered queue has a live thread:
\* none was added or missed on the way (MqServer.cs:319-326).
StopSweeps == stopPc = "queues" /\ toStop = {} => \A o \in Registered : ~Alive(o)

\* A client that is told its message was accepted has it in a queue, although
\* handlers report success when they give up on a stopped server.
AcceptedIsEnqueued ==
    \A n \in Queries :
        query[n].operation = "EnqueueMessage" /\ answer[n] = "Success" =>
            \E o \in Objects : \E i \in DOMAIN enqueued[o] : enqueued[o][i] = n

\* The retry loop adds a message once.
EnqueuedOnce ==
    \A o, p \in Objects : \A i \in DOMAIN enqueued[o], j \in DOMAIN enqueued[p] :
        enqueued[o][i] = enqueued[p][j] => o = p /\ i = j

\* The messages of one connection stand in a queue in the order it sent them,
\* but for a message whose sender gave up waiting for the reply.
SenderOrder ==
    \A o \in Objects : \A i, j \in DOMAIN enqueued[o] :
        LET m == enqueued[o][i]
            n == enqueued[o][j]
        IN  i < j /\ query[m].connection = query[n].connection =>
                m < n \/ answer[n] = "timeout"

\* Once RmServer_OnDisconnected is through, no queue has the subscription of
\* the closed connection, unless a late SubscribeToQueue brings it in.
SubscriptionsRemoved ==
    [][\A c \in Connections :
          connection[c] # "Removed" /\ connection'[c] = "Removed" =>
              \A o \in Registered : c \notin subscribers'[o]]_vars

\* DeleteQueue joins a thread that waits for the list DeleteQueue holds.
JoinDeadlock == holder = "DeleteQueue" /\ thread[joined] = "Remove"

\* The handlers end, those of queries, CreateQueue's among them, and that of a
\* connection that has closed, whatever they wait for, unless a DeleteQueue has
\* run into its deadlock: nothing else holds one up for ever (MqServer.cs:276-303,
\* 347-527).
HandlerEnds ==
    /\ \A n \in Queries :
          []<>(handlerPc[n] \in {"unsent", "Replied"} \/ JoinDeadlock)
    /\ \A c \in Connections :
          []<>(connection[c] \notin {"Loop", "Use"} \/ JoinDeadlock)

\* Every Stop returns, with that one exception.
StopReturns == stopPc = "closed" ~> stopPc = "stopped" \/ JoinDeadlock
=============================================================================
