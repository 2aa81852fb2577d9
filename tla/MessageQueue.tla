---------------------------- MODULE MessageQueue ----------------------------
(***************************************************************************)
(* One MessageQueue object from its creation to its removal: the list of   *)
(* enqueued messages, the subscriber dictionary, the delivery thread       *)
(* (MessageQueue.DeliveryThreadProc) and the MqServer handlers that reach  *)
(* into the queue while that thread runs.                                  *)
(*                                                                         *)
(* Every handler works inside MqServer._messageQueues.Use, so handlers     *)
(* never overlap each other; the delivery thread does not take that lock.  *)
(* Both reach the lists only under the queue's own locks, so a critical    *)
(* section is one step, of a handler or of the thread.  An attempt that    *)
(* misses the locks (a handler's TryUse, the thread's TryUseAll) changes   *)
(* nothing, is made again, and is a stuttering step here.  The exception   *)
(* is MessageQueue.Stop, which waits for the thread inside the critical    *)
(* section of its caller.  Between critical sections the thread takes one  *)
(* step from each point to the next at which a handler, a disconnection or *)
(* a reply can come in between.                                            *)
(*                                                                         *)
(* Messages are numbered in the order of EnqueueMessage; 0 is "no          *)
(* message" (topMessage == null).                                          *)
(***************************************************************************)
EXTENDS Integers, FiniteSets, SequencesExt, Sublists

CONSTANTS
    Connections,          \* connection ids (RmContext.ConnectionId), never reused
    NoConnection,         \* "no subscriber is being served"
    ConsumptionScheme,    \* MqQueueConfiguration.ConsumptionScheme
    MaxDeliveryAttempts,  \* MqQueueConfiguration.MaxDeliveryAttempts, 0 = infinite
    Expires,              \* MqQueueConfiguration.MaxMessageAge > TimeSpan.Zero
    MaxEnqueued,          \* bound: messages enqueued in one behaviour
    AttemptCap            \* bound: attempt counters saturate here

ASSUME ConstantsAssumption ==
    /\ NoConnection \notin Connections
    /\ ConsumptionScheme \in {"SuccessfulDeliveryToAllSubscribers",
                              "FirstConsumedSubscriber"}
    /\ MaxDeliveryAttempts \in Nat
    /\ Expires \in BOOLEAN
    /\ MaxEnqueued \in Nat
    /\ AttemptCap \in Nat \ {0}
    /\ MaxDeliveryAttempts < AttemptCap

VARIABLES
    \* Connections and handlers in flight.
    connected,      \* connections RmServer has open
    subscribing,    \* connections with a SubscribeToQueue handler not yet through
    disconnecting,  \* closed connections whose OnDisconnected has not run yet
    \* The server.
    serverRunning,  \* MqServer._keepRunning
    registered,     \* the queue is in MqServer._messageQueues
    stopper,        \* who is inside MessageQueue.Stop, holding _messageQueues
    \* The queue.
    KeepRunning,            \* MessageQueue.KeepRunning
    subscribers,            \* keys of MessageQueue.Subscribers
    messages,               \* MessageQueue.EnqueuedMessages
    TotalEnqueuedMessages,  \* MessageQueue.TotalEnqueuedMessages
    satisfied,      \* EnqueuedMessage.SatisfiedSubscribersConnectionIDs
    attempts,       \* EnqueuedMessage.SubscriberMessageDeliveries[..].DeliveryAttempts
    \* The delivery thread.
    pc,
    topMessage,
    yetToBeDelivered,              \* rest of the foreach over the snapshot
    subscriber,                    \* the connection being served
    successfulDeliveryAndConsume,
    \* History, read by properties only.
    calls,          \* DeliverMessage calls made for a message and a connection
    delivered,      \* connections whose reply to a message came back without error
    consumedBy      \* ... and reported the message as consumed

clientVars == <<connected, subscribing, disconnecting>>
serverVars == <<serverRunning, registered, stopper, KeepRunning>>
messageVars == <<satisfied, attempts>>
listVars == <<messages, TotalEnqueuedMessages>>
threadVars == <<pc, topMessage, yetToBeDelivered, subscriber,
                successfulDeliveryAndConsume>>
history == <<calls, delivered, consumedBy>>
vars == <<clientVars, serverVars, subscribers, listVars, messageVars,
          threadVars, history>>

Messages == 1..MaxEnqueued

FirstConsumed == ConsumptionScheme = "FirstConsumedSubscriber"

Bump(n) == IF n < AttemptCap THEN n + 1 ELSE n

-----------------------------------------------------------------------------
(* MessageQueue.Stop joins the thread while its caller holds locks:        *)
(* _messageQueues in any case, and EnqueuedMessages too in DeleteQueue.    *)

EnqueuedMessagesFree == stopper # "delete"

\* A handler holds _messageQueues and has found the queue in it.
QueueReachable == registered /\ stopper = "none"

-----------------------------------------------------------------------------
(* MqServer.CreateQueue has built the queue and started its thread. *)

Init ==
    /\ connected = Connections
    /\ subscribing = {}
    /\ disconnecting = {}
    /\ serverRunning = TRUE
    /\ registered = TRUE
    /\ stopper = "none"
    /\ KeepRunning = TRUE
    /\ subscribers = {}
    /\ messages = <<>>
    /\ TotalEnqueuedMessages = 0
    /\ satisfied = [m \in Messages |-> {}]
    /\ attempts = [m \in Messages |-> [c \in Connections |-> 0]]
    /\ pc = "Loop"
    /\ topMessage = 0
    /\ yetToBeDelivered = {}
    /\ subscriber = NoConnection
    /\ successfulDeliveryAndConsume = FALSE
    /\ calls = [m \in Messages |-> [c \in Connections |-> 0]]
    /\ delivered = [m \in Messages |-> {}]
    /\ consumedBy = [m \in Messages |-> {}]

-----------------------------------------------------------------------------
(* Handlers.  _keepRunning is tested before the lock is taken, so a        *)
(* handler that passed the test may still act after Stop cleared it.       *)

\* A SubscribeToQueueQuery arrives on an open connection; its handler runs on
\* another thread and has yet to get the locks.
SubscribeToQueueQuery(c) ==
    /\ c \in connected \ subscribing
    /\ subscribing' = subscribing \cup {c}
    /\ UNCHANGED <<connected, disconnecting, serverVars, subscribers, listVars,
                   messageVars, threadVars, history>>

\* The handler gets the locks; or it finds no queue, or gives up because the
\* server is stopped, and reports success all the same.
SubscribeToQueue(c) ==
    /\ c \in subscribing
    /\ subscribing' = subscribing \ {c}
    /\ \/ /\ QueueReachable
          /\ subscribers' = subscribers \cup {c}
       \/ /\ ~serverRunning \/ ~registered
          /\ UNCHANGED subscribers
    /\ UNCHANGED <<connected, disconnecting, serverVars, listVars, messageVars,
                   threadVars, history>>

\* The handler of an UnsubscribeFromQueueQuery has the locks; its connection
\* may have closed since the query arrived.
UnsubscribeFromQueue(c) ==
    /\ c \in subscribers
    /\ QueueReachable
    /\ subscribers' = subscribers \ {c}
    /\ UNCHANGED <<clientVars, serverVars, listVars, messageVars, threadVars,
                   history>>

\* The connection goes away: closed by the client, lost, or closed by Stop.
Disconnect(c) ==
    /\ c \in connected
    /\ connected' = connected \ {c}
    /\ disconnecting' = disconnecting \cup {c}
    /\ UNCHANGED <<subscribing, serverVars, subscribers, listVars, messageVars,
                   threadVars, history>>

\* Once the server is stopped the handler's loop gives up without the removal.
RmServer_OnDisconnected(c) ==
    /\ c \in disconnecting
    /\ disconnecting' = disconnecting \ {c}
    /\ \/ /\ QueueReachable
          /\ subscribers' = subscribers \ {c}
       \/ /\ ~serverRunning \/ ~registered
          /\ UNCHANGED subscribers
    /\ UNCHANGED <<connected, subscribing, serverVars, listVars, messageVars,
                   threadVars, history>>

\* Faulty variant: the new message goes to the front of the list.
EnqueueMessage_Front ==
    /\ QueueReachable
    /\ TotalEnqueuedMessages < MaxEnqueued
    /\ TotalEnqueuedMessages' = TotalEnqueuedMessages + 1
    /\ messages' = <<TotalEnqueuedMessages'>> \o messages
    /\ UNCHANGED <<clientVars, serverVars, subscribers, messageVars, threadVars,
                   history>>

\* Faulty variant: the counter also counts attempts that missed the lock.
EnqueueMessage_CountsRetry ==
    /\ QueueReachable
    /\ TotalEnqueuedMessages < MaxEnqueued
    /\ \E missed \in 0..2 :
          TotalEnqueuedMessages' = TotalEnqueuedMessages + 1 + missed
    /\ messages' = Append(messages, TotalEnqueuedMessages + 1)
    /\ UNCHANGED <<clientVars, serverVars, subscribers, messageVars, threadVars,
                   history>>

EnqueueMessage ==
    /\ QueueReachable
    /\ TotalEnqueuedMessages < MaxEnqueued
    /\ TotalEnqueuedMessages' = TotalEnqueuedMessages + 1
    /\ messages' = Append(messages, TotalEnqueuedMessages')
    /\ UNCHANGED <<clientVars, serverVars, subscribers, messageVars, threadVars,
                   history>>

PurgeQueue ==
    /\ QueueReachable
    /\ messages # <<>>
    /\ messages' = <<>>
    /\ UNCHANGED <<clientVars, serverVars, subscribers, TotalEnqueuedMessages,
                   messageVars, threadVars, history>>

\* DeleteQueue calls MessageQueue.Stop with both locks held and waits there.
DeleteQueue ==
    /\ QueueReachable
    /\ KeepRunning' = FALSE
    /\ stopper' = "delete"
    /\ UNCHANGED <<clientVars, serverRunning, registered, subscribers, listVars,
                   messageVars, threadVars, history>>

DeleteQueue_Joined ==
    /\ stopper = "delete"
    /\ pc = "Exited"
    /\ registered' = FALSE
    /\ stopper' = "none"
    /\ UNCHANGED <<clientVars, serverRunning, KeepRunning, subscribers, listVars,
                   messageVars, threadVars, history>>

\* MqServer.Stop: first the flag, then every queue under _messageQueues only.
Stop ==
    /\ serverRunning
    /\ serverRunning' = FALSE
    /\ UNCHANGED <<clientVars, registered, stopper, KeepRunning, subscribers,
                   listVars, messageVars, threadVars, history>>

\* Faulty variant: the thread is joined before KeepRunning is cleared.
StopQueue_JoinsFirst ==
    /\ ~serverRunning
    /\ QueueReachable /\ KeepRunning
    /\ stopper' = "stop"
    /\ UNCHANGED <<clientVars, serverRunning, registered, KeepRunning,
                   subscribers, listVars, messageVars, threadVars, history>>

StopQueue ==
    /\ ~serverRunning
    /\ QueueReachable /\ KeepRunning
    /\ KeepRunning' = FALSE
    /\ stopper' = "stop"
    /\ UNCHANGED <<clientVars, serverRunning, registered, subscribers, listVars,
                   messageVars, threadVars, history>>

StopQueue_Joined ==
    /\ stopper = "stop"
    /\ pc = "Exited"
    /\ stopper' = "none"
    /\ UNCHANGED <<clientVars, serverRunning, registered, KeepRunning,
                   subscribers, listVars, messageVars, threadVars, history>>

-----------------------------------------------------------------------------
(* The delivery thread: one iteration of while (messageQueue.KeepRunning). *)

\* The subscribers still owed a copy of m, whatever the order they are served
\* in.
YetToBeDelivered_All(m) == subscribers     \* faulty variant
YetToBeDelivered(m) == subscribers \ satisfied[m]

\* Faulty variants: one attempt too many, and never.
MaxAttemptsReached_Late(n) == MaxDeliveryAttempts > 0 /\ n > MaxDeliveryAttempts
MaxAttemptsReached_Never(n) == FALSE
MaxAttemptsReached(n) == MaxDeliveryAttempts > 0 /\ n >= MaxDeliveryAttempts

\* The locals of an iteration start over.
EndIteration ==
    /\ topMessage' = 0
    /\ yetToBeDelivered' = {}
    /\ subscriber' = NoConnection
    /\ successfulDeliveryAndConsume' = FALSE

LoopExit ==
    /\ pc = "Loop" /\ ~KeepRunning
    /\ pc' = "Exited"
    /\ UNCHANGED <<clientVars, serverVars, subscribers, listVars, messageVars,
                   topMessage, yetToBeDelivered, subscriber,
                   successfulDeliveryAndConsume, history>>

\* The critical section of TryUseAll: drop the expired messages and take the
\* first of the rest if there are subscribers.
Scan ==
    /\ pc = "Loop" /\ KeepRunning
    /\ EnqueuedMessagesFree
    /\ messages' \in IF Expires THEN Sublists(messages) ELSE {messages}
    /\ \/ /\ subscribers # {} /\ messages' # <<>>
          /\ topMessage' = Head(messages')
          /\ yetToBeDelivered' = YetToBeDelivered(topMessage')
          /\ pc' = "Deliver"
       \/ /\ subscribers = {} \/ messages' = <<>>
          /\ UNCHANGED <<pc, topMessage, yetToBeDelivered>>
    /\ UNCHANGED <<clientVars, serverVars, subscribers, TotalEnqueuedMessages,
                   messageVars, subscriber, successfulDeliveryAndConsume,
                   history>>

\* The foreach takes its next subscriber and DeliverMessage sends the query.
DeliverMessage(c) ==
    /\ pc = "Deliver" /\ KeepRunning
    /\ c \in yetToBeDelivered
    /\ yetToBeDelivered' = yetToBeDelivered \ {c}
    /\ subscriber' = c
    /\ calls' = [calls EXCEPT ![topMessage][c] = Bump(@)]
    /\ pc' = "Query"
    /\ UNCHANGED <<clientVars, serverVars, subscribers, listVars, messageVars,
                   topMessage, successfulDeliveryAndConsume, delivered, consumedBy>>

\* The foreach is over, or left because the queue is stopping.
DeliverDone ==
    /\ pc = "Deliver"
    /\ yetToBeDelivered = {} \/ ~KeepRunning
    /\ \/ /\ KeepRunning
          /\ pc' = "Remove"
          /\ UNCHANGED <<topMessage, yetToBeDelivered, subscriber,
                         successfulDeliveryAndConsume>>
       \/ /\ ~KeepRunning
          /\ pc' = "Exited"
          /\ EndIteration
    /\ UNCHANGED <<clientVars, serverVars, subscribers, listVars, messageVars,
                   history>>

\* The client's reply arrived and carries no error; the throttle sleep follows.
DeliveryReplied(wasMessageConsumed) ==
    /\ pc = "Query"
    /\ subscriber \in connected
    /\ successfulDeliveryAndConsume' =
          (successfulDeliveryAndConsume \/ wasMessageConsumed)
    /\ delivered' = [delivered EXCEPT ![topMessage] = @ \cup {subscriber}]
    /\ consumedBy' = [consumedBy EXCEPT ![topMessage] =
                          IF wasMessageConsumed THEN @ \cup {subscriber} ELSE @]
    /\ pc' = "Delivered"
    /\ UNCHANGED <<clientVars, serverVars, subscribers, listVars, messageVars,
                   topMessage, yetToBeDelivered, subscriber, calls>>

\* Per-message metrics, and giving up on a subscriber tried too often.
RecordAttempt(alreadySatisfied) ==
    LET tried == Bump(attempts[topMessage][subscriber])
    IN  /\ attempts' = [attempts EXCEPT ![topMessage][subscriber] = tried]
        /\ satisfied' = [satisfied EXCEPT ![topMessage] =
              IF alreadySatisfied \/ MaxAttemptsReached(tried)
              THEN @ \cup {subscriber} ELSE @]

\* The query timed out, the connection is gone, or the reply is an error.
DeliveryFailed ==
    /\ pc = "Query"
    /\ RecordAttempt(FALSE)
    /\ subscriber' = NoConnection
    /\ pc' = "Deliver"
    /\ UNCHANGED <<clientVars, serverVars, subscribers, listVars, topMessage,
                   yetToBeDelivered, successfulDeliveryAndConsume, history>>

\* Faulty variant: the loop goes on after the message has been consumed.
DeliverySettled_NoBreak ==
    /\ pc = "Delivered" /\ KeepRunning
    /\ RecordAttempt(TRUE)
    /\ subscriber' = NoConnection
    /\ pc' = "Deliver"
    /\ UNCHANGED <<clientVars, serverVars, subscribers, listVars, topMessage,
                   yetToBeDelivered, successfulDeliveryAndConsume, history>>

\* Faulty variant: an acknowledged delivery only counts as an attempt.
DeliverySettled_NotSatisfied ==
    /\ pc = "Delivered" /\ KeepRunning
    /\ RecordAttempt(FALSE)
    /\ subscriber' = NoConnection
    /\ pc' = "Deliver"
    /\ UNCHANGED <<clientVars, serverVars, subscribers, listVars, topMessage,
                   yetToBeDelivered, successfulDeliveryAndConsume, history>>

\* After the throttle sleep.  When the message has been consumed and the first
\* consumer takes it, the foreach is left before the metrics.
DeliverySettled ==
    /\ pc = "Delivered" /\ KeepRunning
    /\ IF FirstConsumed /\ successfulDeliveryAndConsume
       THEN /\ satisfied' = [satisfied EXCEPT ![topMessage] = @ \cup {subscriber}]
            /\ yetToBeDelivered' = {}
            /\ UNCHANGED attempts
       ELSE /\ RecordAttempt(TRUE)
            /\ UNCHANGED yetToBeDelivered
    /\ subscriber' = NoConnection
    /\ pc' = "Deliver"
    /\ UNCHANGED <<clientVars, serverVars, subscribers, listVars, topMessage,
                   successfulDeliveryAndConsume, history>>

\* The queue was stopped during the query or the sleep: nothing is recorded.
DeliveryAbandoned ==
    /\ pc = "Delivered" /\ ~KeepRunning
    /\ pc' = "Exited"
    /\ EndIteration
    /\ UNCHANGED <<clientVars, serverVars, subscribers, listVars, messageVars,
                   history>>

\* Faulty variant: the subscribers of the earlier snapshot decide.
ShouldRemove_Snapshot ==
    \/ FirstConsumed /\ successfulDeliveryAndConsume
    \/ yetToBeDelivered = {}
ShouldRemove ==
    \/ FirstConsumed /\ successfulDeliveryAndConsume
    \/ YetToBeDelivered(topMessage) = {}

\* Faulty variant: the first message is removed, whatever was taken in hand.
RemoveMessage_First ==
    /\ pc = "Remove"
    /\ EnqueuedMessagesFree
    /\ messages' = IF ShouldRemove /\ messages # <<>> THEN Tail(messages)
                                                     ELSE messages
    /\ pc' = "Loop"
    /\ EndIteration
    /\ UNCHANGED <<clientVars, serverVars, subscribers, TotalEnqueuedMessages,
                   messageVars, history>>

\* The critical section of UseAll, which waits for the locks.
RemoveMessage ==
    /\ pc = "Remove"
    /\ EnqueuedMessagesFree
    /\ messages' = IF ShouldRemove THEN RemoveFirst(messages, topMessage)
                                   ELSE messages
    /\ pc' = "Loop"
    /\ EndIteration
    /\ UNCHANGED <<clientVars, serverVars, subscribers, TotalEnqueuedMessages,
                   messageVars, history>>

-----------------------------------------------------------------------------
Subscriptions == \E c \in Connections :
    \/ SubscribeToQueueQuery(c) \/ SubscribeToQueue(c) \/ UnsubscribeFromQueue(c)
    \/ Disconnect(c) \/ RmServer_OnDisconnected(c)

Administration ==
    \/ EnqueueMessage \/ PurgeQueue
    \/ DeleteQueue \/ DeleteQueue_Joined
    \/ Stop \/ StopQueue \/ StopQueue_Joined

DeliveryThreadProc ==
    \/ LoopExit \/ Scan \/ DeliverDone
    \/ \E c \in Connections : DeliverMessage(c)
    \/ \E consumed \in BOOLEAN : DeliveryReplied(consumed)
    \/ DeliveryFailed \/ DeliverySettled \/ DeliveryAbandoned
    \/ RemoveMessage

Next == Subscriptions \/ Administration \/ DeliveryThreadProc

Spec == Init /\ [][Next]_vars

(* Fairness.  The thread is scheduled, and every query ends, with a reply  *)
(* or after QueryTimeout.  Other holders of the queue's locks keep them    *)
(* for one list or dictionary operation only, so the thread, which tries   *)
(* every 10 ms, gets them in the end.  A joined thread wakes the joiner.   *)
FairSpec ==
    /\ Spec
    /\ WF_vars(DeliveryThreadProc)
    /\ WF_vars(DeleteQueue_Joined)
    /\ WF_vars(StopQueue_Joined)

-----------------------------------------------------------------------------
(* Properties *)

\* Connections, handlers, server flags and subscribers.
OuterTypeOK ==
    /\ connected \subseteq Connections
    /\ subscribing \subseteq Connections
    /\ disconnecting \subseteq Connections
    /\ serverRunning \in BOOLEAN /\ registered \in BOOLEAN
    /\ stopper \in {"none", "delete", "stop"}
    /\ KeepRunning \in BOOLEAN
    /\ subscribers \subseteq Connections

\* The list, the messages, the delivery thread and the history.
CoreTypeOK ==
    /\ messages \in Seq(Messages)
    /\ TotalEnqueuedMessages \in 0..MaxEnqueued
    /\ satisfied \in [Messages -> SUBSET Connections]
    /\ attempts \in [Messages -> [Connections -> 0..AttemptCap]]
    /\ pc \in {"Loop", "Deliver", "Query", "Delivered", "Remove", "Exited"}
    /\ topMessage \in Messages \cup {0}
    /\ yetToBeDelivered \subseteq Connections
    /\ subscriber \in Connections \cup {NoConnection}
    /\ successfulDeliveryAndConsume \in BOOLEAN
    /\ calls \in [Messages -> [Connections -> 0..AttemptCap]]
    /\ delivered \in [Messages -> SUBSET Connections]
    /\ consumedBy \in [Messages -> SUBSET Connections]

\* Every variable has its type: ids, counters and program points of the code.
TypeOK == OuterTypeOK /\ CoreTypeOK

\* Messages leave in the order they were enqueued: while a message is offered
\* to a subscriber (DeliverMessage), no later message has been offered to
\* anyone, whatever retries, purges, expirations and enqueues came in between.
InOrder ==
    pc = "Query" =>
        \A m \in Messages : m > topMessage => \A c \in Connections : calls[m][c] = 0

\* MaxDeliveryAttempts bounds the number of times DeliverMessage is called for
\* one message and one connection, across iterations, re-subscriptions and
\* failures.
AttemptsBounded ==
    MaxDeliveryAttempts > 0 =>
        \A m \in Messages, c \in Connections : calls[m][c] <= MaxDeliveryAttempts

\* Under FirstConsumedSubscriber a message the server has seen consumed by one
\* subscriber is never offered to another one: subscribers compete.
AtMostOneConsumer ==
    FirstConsumed => \A m \in Messages :
        \A c, d \in consumedBy[m] : c = d

\* A subscriber that acknowledged a message is not sent it again on the same
\* connection, even if it unsubscribes and subscribes while it is in flight.
NoRedelivery ==
    [][\A c \in Connections :
          DeliverMessage(c) => c \notin delivered[topMessage]]_vars

\* A connection with nothing more to expect of m: m reached it, or every
\* allowed attempt was spent on it.
Settled(m, c) ==
    \/ c \in delivered[m]
    \/ MaxDeliveryAttempts > 0 /\ calls[m][c] >= MaxDeliveryAttempts

\* The delivery thread removes a message only when it has been consumed (first
\* consumer takes it) or when every connection subscribed at that moment is
\* settled, those that subscribed during the deliveries included.
RemovedOnlyWhenSettled ==
    [][RemoveMessage /\ messages' # messages =>
          \/ FirstConsumed /\ consumedBy[topMessage] # {}
          \/ \A c \in subscribers : Settled(topMessage, c)]_vars

Queued(m) == \E i \in DOMAIN messages : messages[i] = m

(* The inductive invariant behind the properties above, in named parts.    *)

\* The thread has a message in hand.
InFlight == pc \in {"Deliver", "Query", "Delivered", "Remove"}

\* An offer of m to c is open: made, and not recorded yet.
Open(m, c) == pc \in {"Query", "Delivered"} /\ m = topMessage /\ c = subscriber

\* The list is in the order of enqueueing.
QueueSorted ==
    /\ \A i, j \in DOMAIN messages : i < j => messages[i] < messages[j]
    /\ \A i \in DOMAIN messages : messages[i] <= TotalEnqueuedMessages

\* The locals of the iteration fit together, and nobody is served twice.
ThreadState ==
    /\ InFlight <=> topMessage # 0
    /\ topMessage <= TotalEnqueuedMessages
    /\ pc \in {"Query", "Delivered"} <=> subscriber # NoConnection
    /\ subscriber \notin yetToBeDelivered
    /\ InFlight => yetToBeDelivered \cap satisfied[topMessage] = {}
    /\ subscriber # NoConnection => subscriber \notin satisfied[topMessage]
    /\ pc = "Remove" => yetToBeDelivered = {}

\* A message that has been offered is older than everything still queued, and
\* not younger than the message in hand.
Oldest ==
    /\ InFlight => \A i \in DOMAIN messages : topMessage <= messages[i]
    /\ \A m \in Messages, c \in Connections : calls[m][c] > 0 =>
          /\ m <= TotalEnqueuedMessages
          /\ InFlight => m <= topMessage
          /\ \A i \in DOMAIN messages : m <= messages[i]

\* Calls and recorded attempts agree, but for the open offer.
Budget ==
    MaxDeliveryAttempts > 0 => \A m \in Messages, c \in Connections :
        LET open == IF Open(m, c) THEN 1 ELSE 0
        IN  /\ attempts[m][c] + open <= calls[m][c]
            /\ calls[m][c] <= MaxDeliveryAttempts
            /\ pc # "Exited" /\ c \notin satisfied[m] =>
                  /\ attempts[m][c] < MaxDeliveryAttempts
                  /\ calls[m][c] = attempts[m][c] + open

\* Acknowledged deliveries are recorded before the next offer, and a connection
\* is marked satisfied for a reason.
Acknowledged ==
    \A m \in Messages, c \in Connections :
        /\ c \in delivered[m] =>
              \/ c \in satisfied[m]
              \/ pc = "Exited"
              \/ pc = "Delivered" /\ Open(m, c)
        /\ pc = "Delivered" /\ Open(m, c) => c \in delivered[m]
        /\ c \in satisfied[m] => Settled(m, c)

\* A message that was consumed is removed in the same iteration, and nobody
\* else is served before.
Consumed ==
    /\ successfulDeliveryAndConsume =>
          InFlight /\ consumedBy[topMessage] # {}
    /\ \A m \in Messages : consumedBy[m] # {} => m <= TotalEnqueuedMessages
    /\ FirstConsumed =>
          /\ AtMostOneConsumer
          /\ successfulDeliveryAndConsume =>
                pc # "Query" /\ (pc = "Deliver" => yetToBeDelivered = {})
          /\ \A m \in Messages : consumedBy[m] # {} =>
                \/ pc = "Exited"
                \/ InFlight /\ m = topMessage /\ successfulDeliveryAndConsume
                \/ ~Queued(m) /\ ~(InFlight /\ m = topMessage)

IInv ==
    /\ TypeOK /\ QueueSorted /\ ThreadState /\ Oldest /\ Budget
    /\ Acknowledged /\ Consumed

\* MqServer.Stop returns: every Stop of a queue ends with its thread joined.
StopCompletes == stopper = "stop" ~> stopper # "stop"

\* With a bound on attempts, once the set of subscribers is stable and not
\* empty every message leaves the queue: a subscriber that never answers, or a
\* dead one, does not block the head of the line for ever.
EveryMessageLeaves ==
    \A S \in (SUBSET Connections) \ {{}} :
        <>[](subscribers = S /\ KeepRunning) =>
            \A m \in Messages : Queued(m) ~> ~Queued(m)

-----------------------------------------------------------------------------
(* What comments of the code say, and the code does not do. *)

\* MessageQueue.cs:80-81: messages are not discarded as delivered for queues
\* with no subscribers.
NoDiscardWithoutSubscribers ==
    [][RemoveMessage /\ messages' # messages =>
          subscribers # {} \/ satisfied[topMessage] # {}]_vars

\* MqServer.cs:282: when a client disconnects, its subscriptions are removed.
DisconnectRemovesSubscription ==
    serverRunning => subscribers \subseteq connected \cup disconnecting

\* MqServer.cs:362: DeleteQueue deletes the queue.
DeleteCompletes == stopper = "delete" ~> ~registered
=============================================================================
