# A TLA+ model of NTDLS.MemoryQueue

NTDLS.MemoryQueue is an in-memory message queue. A server (`MqServer`) keeps
named queues; clients (`MqClient`) create and delete them, subscribe to them and
put messages into them over NTDLS.ReliableMessaging connections. One thread for
each queue (`MessageQueue.DeliveryThreadProc`) hands the first message to the
subscribers, as queries that the clients answer.

This directory holds the TLA+ modules that model it, the TLC configurations that
check them, and proofs for TLAPS. Paths below are relative to
`src/NTDLS.MemoryQueue/`.

## Inventory

| Component | State | Operations |
|---|---|---|
| `Server/MessageQueue.cs`, `EnqueuedMessage.cs`, `SubscriberMessageDelivery.cs` | `EnqueuedMessages` and `Subscribers`, each behind a lock; `KeepRunning`; per message the satisfied connections and the attempts per connection; the locals of an iteration | `Start`, `Stop` (a join), `DeliveryThreadProc` |
| `MqServer.cs` | `_messageQueues` (dictionary behind a lock), `_keepRunning`, `_rmServer` | `Start`, `Stop`, `CreateQueue`, `DeleteQueue`, `SubscribeToQueue`, `UnsubscribeFromQueue`, `EnqueueMessage`, `PurgeQueue`, `DeliverMessage`, `RmServer_OnDisconnected`, and the reads `GetQueues`, `GetSubscribers`, `GetQueueMessages`, `GetQueueMessage` |
| `Server/QueryHandlers/InternalServerQueryHandlers.cs` | none | one handler per query: calls `MqServer`, turns an exception into a failed reply |
| `MqClient.cs` | `_explicitDisconnect`, the last address, the `RmClient` | `Connect`, `Disconnect`, the queries, the reconnect thread |
| `Client/QueryHandlers/InternalClientQueryHandlers.cs` | the reflection cache | `MessageDeliveryQuery`: deserialize, call `OnReceived`, reply |
| `Payloads/`, `Management/`, `Mq*Configuration.cs` | records | none |

How they interact:

- A client call is a query; the caller blocks on its result, until a reply or
  `QueryTimeout`. The handler runs on a pool thread of the server and goes on
  after its client has given up.
- Handlers loop: `while (_keepRunning)`, take `_messageQueues`, look the queue
  up, `TryUse(10)` the lock of a list, and go round again when they missed it.
- The delivery thread takes both locks of its queue to pick the first message
  and a snapshot of the subscribers, releases them, sends a query to each
  subscriber in turn, and takes the locks again to remove the message.
- `MessageQueue.Stop` joins that thread. `MqServer.Stop` calls it with
  `_messageQueues` held, `DeleteQueue` with the lock of `EnqueuedMessages` too.
- A lost connection runs `RmServer_OnDisconnected`, which is a handler like the
  others, over all queues.

What is hard here, and what each part has to get right:

- *Queue and delivery thread.* Between the snapshot and the removal the
  subscribers and the list change. Messages must be delivered in order; one must
  stay until every subscriber of the moment has had it or was given up after
  exactly `MaxDeliveryAttempts` attempts; no subscriber that acknowledged gets it
  again; under `FirstConsumedSubscriber` one subscriber consumes it; a mute
  subscriber must not block the queue for ever when attempts are bounded.
- *Registry and handlers.* Handlers retry, outlive their callers, and meet Stop,
  Start and the deletion of their queue. A message is added once, in the order
  of its sender, and acceptance is not reported for one that was dropped; no
  delivery thread outlives its queue; joins under locks must end.
- *Connection of the client.* `_explicitDisconnect` is written by the user, by the
  pump of a connection and read by reconnect threads, without a lock. `Disconnect`
  must be final although such threads are asleep, but for the windows of the code,
  which must be known; a lost connection must be made anew however many attempts fail;
  the threads must end.
- *Delivery, seen from the client.* A reply may be lost, late, empty or an error. The
  server knows connections, not clients, so a client that reconnects is a new
  subscriber while its old connection may still be one.
- *Clock.* Messages expire by a search every ten seconds, the throttle is slept in
  seconds, and the thread may be late anywhere. A message must not be arbitrarily old
  when it is taken up; deliveries must keep their distance; a throttle of minutes must
  not hold up Stop, which waits with the dictionary locked.

PROJECT.json lists each hazard at its line, with the properties aimed at it.

## Modules

| Module | What it is |
|---|---|
| `Sublists` | what `List.RemoveAll` may leave of a list: expiration |
| `MessageQueue` | one queue in detail: list, subscribers, delivery thread, and the handlers that reach into it |
| `QueueContract` | what a queue promises, as an abstract specification |
| `MessageQueueRefinement` | the refinement mapping from `MessageQueue` to `QueueContract` |
| `MCMessageQueue` | the symmetry of connections for TLC |
| `MessageQueueProofs` | that the invariant of `MessageQueue` is inductive, and its safety theorems |
| `MessageQueueRefinementProofs` | that `MessageQueue` implements `QueueContract` |
| `MqServer` | several queues: dictionary and its lock, query handlers with their loops, disconnections, Stop and Start; the delivery threads cut down to their locks |
| `MqServerProofs` | the safety properties of `MqServer` |
| `ServerContract` | what a server promises to its clients, as an abstract specification |
| `MqServerRefinement` | the refinement mapping from `MqServer` to `ServerContract` |
| `MqServerRefinementProofs` | that `MqServer` implements `ServerContract` |
| `MqClient` | the connection of a client: Connect, Disconnect, losses, reconnect threads |
| `MqClientProofs` | its types, and that `Disconnect` is final |
| `ClientDelivery` | extends `MqClient`: one client and one queue of the server, with the delivery queries between them |
| `ClientDeliveryProofs` | its safety properties |
| `ClientDeliveryRefinement` | the refinement mapping from `ClientDelivery` to `QueueContract` |
| `ClientDeliveryRefinementProofs` | that `ClientDelivery` implements `QueueContract` |
| `DeliveryTiming` | the delivery thread with a clock: interval, expiration, throttle |
| `DeliveryTimingProofs` | its safety properties |

### MessageQueue

The grain of atomicity is the critical section. Handlers run inside
`_messageQueues.Use`, so no two of them overlap; the thread does not take that
lock, but it reaches the lists only with both locks of the queue. An attempt that
misses a lock changes nothing and is repeated, so it is a stuttering step. The
exception is a join, where a caller keeps its locks from one step to another: the
variable `stopper` says who is in it, `QueueReachable` that a handler can get
`_messageQueues`, `EnqueuedMessagesFree` that the thread can get the list.

| Program point of the thread (`pc`) | Code (`Server/MessageQueue.cs`) |
|---|---|
| `Loop`, action `Scan` | test of `KeepRunning`, `TryUseAll` (l. 42-108): drop expired messages, take the first, compute who is owed a copy |
| `Deliver`, action `DeliverMessage` | head of the `foreach`, attempt counted, query sent (l. 112-123) |
| `Query`, actions `DeliveryReplied`, `DeliveryFailed` | the wait in `MqServer.DeliverMessage` |
| `Delivered`, actions `DeliverySettled`, `DeliveryAbandoned` | the throttle sleep, then the record of the outcome (l. 132-188) |
| `Remove`, action `RemoveMessage` | `UseAll` (l. 197-216) |
| `Exited` | the thread has ended |

`subscribers` and `messages` are the two lists; a message is its number in the
order of `EnqueueMessage`. `satisfied` and `attempts` are the per-message records.
`calls`, `delivered` and `consumedBy` are history: no guard reads them.

`connected`, `subscribing` and `disconnecting` model connections and the two
handlers that may overtake each other: the subscription in flight and the
removal after a disconnection.

Assumptions about what lies around the queue:

- Connection ids are not reused (`RmContext.ConnectionId` is a fresh Guid).
- *When* a message expires is open here, so the ten-second pace of the search (l. 69) is
  covered. `RemoveAll` reads the clock anew for each message, so one may come of age
  between two of them: any of the messages may go in a scan, and the others keep their
  order (`Sublists`). Which ones may go when is in `DeliveryTiming`.
- `OnException` handlers of the host do not throw; they run on the delivery thread.
- `UseAll` waits until it has all its locks.
- A test of `KeepRunning` commutes with the steps of others up to the next lock
  or query, so it is taken together with what follows it.
- The order in which subscribers are served is any order; this covers both
  values of `DeliveryScheme` and says nothing about either.

### QueueContract

The contract has no locks, no thread, no record of attempts and no join. It serves
messages in rounds: `Take` picks the oldest message and notes to whom it is owed,
`Offer` sends it to each of them once, `Acknowledge` and `Fail` end an offer, and
`Finish` removes that message, and no other, exactly when it is done. After `Stop`
no round begins and nothing is offered; a round under way may be given up. Two modules
implement it: `MessageQueue`, the queue with its locks and threads, which starts empty,
and `ClientDelivery`, where the other side of a delivery is a client, which starts with
`Initial` messages.

`MessageQueueRefinement` maps a round to an iteration with a message in hand
(`serving <- topMessage`), an open offer to `pc = "Query"`, and the contract's
`offers` and `received` to the history variables. What takes an argument is that
the code decides by `satisfied` and `attempts`, records kept after a sleep and
dropped on a stop, and the contract by what was offered and acknowledged; that
`RemoveFirst` in the code removes the head or nothing; and that under
`FirstConsumedSubscriber` the local flag tells the same as the history.

`ClientDeliveryRefinement` reads an offer off `deliveries`: it is a delivery query, open
while the server waits for the reply and acknowledged if the server took the reply for a
success. So a reply after the server gave up acknowledges nothing, and an error reply
with an empty text does. What happens on the client is not seen unless it ends the wait.
Again the code decides by `satisfied` and `attempts`, which the mapping does not use.

### MqServer

Here the loop of a handler is spelled out: `handlerPc` goes from `Loop` (the test
of `_keepRunning`) to `Use` (inside `_messageQueues.Use`) and back (`Retry`), or
on to `Success` or `Failed` and, after `Reply`, `Replied`. `CreateQueue` starts at
`Use`, as it has no loop. `registry` is the dictionary; its values are numbers of
`MessageQueue` objects, so a deleted queue and a new one of the same name differ.
`holder` and `joined` tell who keeps `_messageQueues` during a join, and which
object is joined. `connection` also holds the program point of the connection's
`RmServer_OnDisconnected`. `stopPc` walks through `MqServer.Stop`: close the
connections, clear the flag, take the lock, stop and join each queue in turn.

The delivery thread keeps its lock behaviour only: `Holding` both locks while it
scans, `Query` while it waits for clients, `Remove` when it wants the locks back.
Whether it removes the message is left open here, as `MessageQueue` decides it.

Assumptions: pool threads that run handlers outlive `RmServer.Stop`, and no reply
reaches a client after it; a client is one thread, so its connection has one call
outstanding (every method of `MqClient` blocks on `.Result`); and Stop and Start
are called by one thread.

### ServerContract

The contract has no dictionary, lock, join, retry or `MessageQueue` object. A queue
is its name. A query sent is pending until it takes effect, once and in one step; then
comes its reply. Only a server that is being stopped or was stopped may end a query
without effect, and only for a connection that is not open any more (`GiveUp`). A
queue has at most one message in hand. Messages leave it by expiring, any of
them, while none is in hand; by `Finish`, which takes the message in hand and no other; or
by a purge. It is deleted after its delivery has ended, and a queue
created later under its name begins empty. Stop returns when no queue delivers.

`MqServerRefinement` looks each queue up in `registry` and shows the contract what its
object has. A handler in `Loop`, `Use` or `Join` is a pending query. It takes effect in
the step in which it has all its locks, DeleteQueue where its join ends. `Retry`, the
locking of `DeleteQueue` before the join, and the steps of Stop between
closing the connections and the end are stutters. What takes an argument:

- that a success reported without an effect, by a handler that found `_keepRunning`
  cleared, belongs to a connection that is closed;
- that `List.Remove` of the message in hand, which compares all the elements, takes
  the head or nothing, whatever was purged and enqueued meanwhile;
- that delivery ends only because somebody joins, so `EndDelivery` always has its
  DeleteQueue or Stop;
- that an object taken for a new queue is blank.

### MqClient

| Step | Code (`MqClient.cs`) |
|---|---|
| `Connect`, `Connect_Rm` | l. 179-202: the flag is cleared, then `RmClient.Connect` is called |
| `Disconnect`, `Disconnect_Rm` | l. 207-211: the flag is set, then `RmClient.Disconnect` is called |
| `RmClient_OnConnected` | l. 128-132, on the pump of a fresh connection |
| `RmClient_OnDisconnected` | l. 134-168, on the pump of a closed one: the test and the start of a thread |
| `Reconnect_TestFlag`, `Reconnect_TestConnected` | l. 142, the two reads of the loop's condition, with no lock over them |
| `Reconnect_Connect`, `Reconnect_Sleep` | l. 144-165, the body of that loop |

A reconnect thread bears the number of the connection whose loss started it; several
may run at once. Both overloads of `Connect` act alike. A thread always has an
address, since connections come from `Connect` (the `break` of l. 156 is out of
reach). `Configured` says which constructor made the client: the one with a
configuration attaches no handlers. `lastCall` and `overtaken` are history.

`overtaken` says that `Disconnect` was called in one of the windows the code leaves
(`AttemptUnderWay`): a reconnect thread has read the flag and goes on to read
`IsConnected` or to connect, or a fresh connection has yet to raise `OnConnected`, which
clears the flag. In both the client may have a connection after `Disconnect`, and lose
it and reconnect later. `DisconnectIsFinal` says that there is no third.

`RmClient` is not in `src/`, so the module states what it takes it to do: `Connect`
makes a connection, throws when the server is out of reach, or has no effect on a
client that is connected; a connection has one pump thread, which raises
`OnConnected` first and `OnDisconnected` last; the user is one thread, and the
callbacks do not call the client.

### ClientDelivery

It composes the actions of `MqClient`, unchanged, with one queue under
`SuccessfulDeliveryToAllSubscribers`, whose subscribers are connections of this
client. `top` is the number of the first message, `deliveries` the list of the
delivery queries sent so far: for each the message, the connection, where its handler
on the client is, how that ended, and what the server made of the reply. The handler
of a query runs on a pool thread, so it may begin (`QueryArrives`, then
`MessageDeliveryQuery`), as it may go on, when the server has given the query up or the
connection is closed, and several handlers may be at work. `Reading` is `MqServer.DeliverMessage` (l. 335): a
reply with an `ErrorMessage` that is not empty becomes an exception.

`Subscribe` is one step here (its retries are in `MqServer`), and what other clients,
Stop and the throttle do to the queue is left to `MessageQueue`.

### DeliveryTiming

`now` counts ticks. Each reading of `DateTime.UtcNow` and each test of `KeepRunning` is a
step of its own, and the clock may advance, and Stop be called, between any two steps: the
thread may be late anywhere, also with the locks of the queue, and a sleep lasts at least
as long as it was asked to. The clock does not run backwards. A message is its
timestamp. `Second`, `Millisecond` and `ScanPeriod` are the second, the millisecond and
the ten seconds of the code in ticks, so a tick may be a fraction of a millisecond.

| Program points (`pc`) | Code (`Server/MessageQueue.cs`) |
|---|---|
| `Start`, `Started` | l. 39, 40: the first times noted |
| `Loop`, `Batch`, `Note` | l. 42; l. 50, whose sleep of a millisecond and `continue` change nothing; l. 57 |
| `Scan` | l. 64 (`TryUseAllMissed`) and l. 69: whether a search is due |
| `Search` | l. 73, message by message (`RemoveAll`), and l. 77 (`SearchNoted`) |
| `Take` | l. 82-106 |
| `Deliver`, `Query` | l. 114-123, and the wait for the client; `DeliveryFails` skips the throttle |
| `Throttle`, `FallAsleep`, `Sleep` | l. 132-144: the test of l. 137, the call of `Thread.Sleep`, its end |
| `Test`, `Remove` | l. 192 and l. 197-221; whether the message goes is left open |
| `Exited` | the thread has ended |

A throttle of a second or more is slept in whole seconds; one below is cut to whole
milliseconds by the cast of l. 144 (`SleepTime`). `dueAt`, `searchTook`, `deliveredAt` and
`sleptStopped` are history.

The queue has one subscriber, which comes and goes, and is not purged.

## Runs

| Run | Instance | What it shows |
|---|---|---|
| `mq_two` | 2 connections, 2 messages, 1 attempt, first consumer | `InOrder`: nothing is offered while an earlier message is open. `AtMostOneConsumer`. `RemovedOnlyWhenSettled`: a newcomer keeps the message in the queue until it was served. `ImplementsContract`: the round removes the message in hand, not what a purge and an enqueue put in its place. `TypeOK` and `IInv`, the invariant of the proofs |
| `mq_live` | 1 connection, 2 messages, 2 attempts, fair | `AttemptsBounded`, `NoRedelivery`. `StopCompletes`: the join of Stop ends. `EveryMessageLeaves`: messages leave a queue with stable subscribers, answering or not |
| `server` | 1 connection, 2 names of which 1 exists, 2 objects, 2 queries of all six kinds | `NoOrphanThread` and `StopSweeps` under deletion, creation, Stop and Start; `AcceptedIsEnqueued`, `EnqueuedOnce`, `SenderOrder` under retries and timeouts; `SubscriptionsRemoved`, with the lock of one queue had and of another missed; `ImplementsServerContract`: to the clients it all looks like queries that take effect one after the other; `TypeOK` |
| `server_live` | 1 connection, 1 name, 2 objects, 2 queries, fair | `HandlerEnds`, `StopReturns`: every handler, that of CreateQueue and the loop of `RmServer_OnDisconnected` included, ends, and every Stop returns, unless DeleteQueue is in the deadlock that `mq_delete` shows, so that one is the only one |
| `client` | 4 connections made, fair | `DisconnectIsFinal`, but for the two windows; `Reconnects`; `ReconnectThreadsEnd` |
| `client_delivery` | 2 connections of a client, 2 messages, 2 attempts, 2 deliveries | `OneAtATime`: handlers overlap on the client only when the server gave the earlier one up. `HandledAgainOnlyAfterFailure`. `LeavesForAReason`: when a message leaves, each subscriber has had it or used up its attempts, where an empty error text counts as success. `ImplementsQueueContract`: whatever replies, losses and reconnections do, the queue keeps `QueueContract`. `TypeOK` |
| `timing` | interval 1, age 1, throttles 3 and 5, search every 3, second 4, millisecond 2, 2 messages, 9 ticks | `FreshWhenTaken`: a message taken up exceeds its age by less than the time between searches, what the last search took and the lateness after the test. `ThrottleKept`: deliveries keep their distance, but for less than a millisecond below a second. `StopCutsThrottle`: one sleep at most ends after Stop. `TypeOK` |

`mq_two` uses the scheme `FirstConsumedSubscriber` because it covers the other one: as long
as no subscriber reports the message consumed the code does the same under both, and
`SuccessfulDeliveryToAllSubscribers` never looks at that report. The theorems are about
both, and about unbounded attempts.

Five more runs are expected to fail: the code and a comment on it disagree, and
TLC finds the behaviour. Each checks a single property.

| Run | Comment | What happens |
|---|---|---|
| `mq_discard` | `MessageQueue.cs:80-81` messages are not discarded as delivered for queues with no subscribers | the only subscriber leaves during its failed delivery; nobody is left to satisfy and the message is removed |
| `mq_disconnect` | `MqServer.cs:282` a disconnection removes the subscriptions | a SubscribeToQueue handler gets the locks after `RmServer_OnDisconnected` did |
| `mq_delete` | `MqServer.cs:362` DeleteQueue deletes a queue | the thread passes its test of `KeepRunning`, then wants the list that DeleteQueue holds while it joins the thread: deadlock |
| `client_configured` | `MqClientConfiguration.cs:11` AutoReconnect: whether the client should reconnect when unexpectedly disconnected | the constructor that takes a configuration attaches no handlers, so such a client never reconnects |
| `timing_batch` | `MqQueueConfiguration.cs:16` BatchDeliveryInterval is the interval in which the queue will deliver all of its contents | every iteration begins a new interval (l. 57) and delivers one message, so a second one that was there waits for the next interval |

Smaller differences were met and have no run:

- `Stop` stops all queues (`MqServer.cs:312`, `321`), but a CreateQueue handler in
  flight does not test `_keepRunning` (l. 347) and starts a thread after Stop is
  through. While Stop is in the dictionary it cannot: `StopSweeps`.
- `Start` after `Stop` (l. 305-309) finds the queues of before still registered, with
  their threads ended, and does nothing about them: `Start` in `ServerContract` leaves
  `delivering` false.
- `Disconnect` (`MqClient.cs:205`, "Disconnects the client from the queue server") does not last
  when a reconnect thread is between its two reads of l. 142 or past them, as it then
  connects, or when a fresh connection has yet to raise `OnConnected`, which clears the
  flag (l. 130): the exceptions in `DisconnectIsFinal`.
- `MqQueueConfiguration.cs:31` calls MaxMessageAge the time a message can remain in the
  queue "before being removed". Removal takes a search, which is made every ten seconds and
  when the thread gets there: `FreshWhenTaken` says how much older a message may be.
- `MqQueueConfiguration.cs:21` has DeliveryThrottle between individual messages. There is
  none after a failed delivery, and a fraction of a millisecond is dropped below a second
  (`MessageQueue.cs:144`), so half a millisecond is no throttle.
- An error reply whose text is empty is taken for a success (`MqServer.cs:335`), one of
  the reasons `LeavesForAReason` names.
- A client that has the reply to Unsubscribe may be sent one more message, as the
  `foreach` runs over a snapshot (`MessageQueue.cs:112`).
- The doc of `WasMessageConsumed` (`CreateQueueQuery.cs:23-25`, server to client) wants
  a message to stay until all have consumed it, where `MessageQueue.cs:153-154` counts
  a reply without consumption too; the doc of `ConsumptionScheme` (`MqClient.cs:24`)
  describes what the code does.

### Bounds, and why they are enough

- `MaxEnqueued` (messages in a behaviour), `MaxQueries`, `MaxCreated` bound what
  clients do. Two messages give an order and a second one behind the one in hand.
  Two connections give a
  newcomer during a delivery and competition; two attempts tell the last one from
  another. Two objects give a deleted queue and its successor, or two queues of which
  one may be missed. Two queries give a message and one that overtakes it, or a
  deletion and a creation or use of the queue at once. They do not make a queue be
  subscribed to, filled, purged and filled again while a message is in hand: `mq_two`
  does, and the theorem about `ImplementsServerContract` covers it.
- `AttemptCap` makes attempt counters saturate above `MaxDeliveryAttempts`. The
  code compares the counter with that limit only, so larger values act alike.
- Messages have no content, queues no statistics: no guard reads them.
- `MaxConnections` bounds the connections of a client. With four, three may be lost and
  three reconnect threads be at work together. The last connection is never lost, so
  that the bound does not pass for an outage. Two in `client_delivery` give the old and
  the new connection of a client that has reconnected.
- `MaxDeliveries` bounds delivery queries: two give a repeated delivery, the overlap of
  its handlers, and a message given up. The thread stops at the bound.
- `MaxTime` bounds the clock. In `timing` a throttle of 5 ticks is a second and a quarter,
  so its last second is not a whole one, and one of 3 ticks is a millisecond and a half, so
  the cast drops something; nine ticks hold two searches or a throttle slept out in two
  sleeps. In `timing_batch` two intervals fit in.
- The proofs need none of these bounds: they hold for all constants.

### Deadlock checks

All runs set `CHECK_DEADLOCK FALSE`, for the systems do stop. Once every connection is
closed and the queue is deleted or stopped nothing is left to do in `MessageQueue` and
`MqServer`; the clock and the deliveries end at their bounds, and a client out of
connections has nobody to call. The deadlock of DeleteQueue is the violation of a
property in `mq_delete`, and `server_live` shows that it is the only way a handler or
Stop hangs (`JoinDeadlock`).

### Fairness

`MessageQueue!FairSpec` has weak fairness of the delivery thread as a whole: it is
scheduled, and each of its waits ends, as a query ends with a reply or after
`QueryTimeout`, and the locks it tries every 10 ms are held by others for one list
operation. The two joiners are woken when the thread has ended. Nothing is assumed
of clients, of connections or of answers: `DeliveryFailed` alone may be taken for
ever.

`MqServer!FairSpec` has weak fairness of the steps that wait for nothing, and
strong fairness of those that wait for `_messageQueues`, which others take in
between: .NET monitors hand a lock to some waiter each time. So it is with a connection
that has closed: weak fairness of its test of `_keepRunning`, strong fairness of a round
of `RmServer_OnDisconnected` that misses no lock. It also says
`<>[][~Retry(n)]_vars`, that `TryUse(10)` does not miss for ever: the thread keeps
the locks for a scan of the list only, and between scans it waits 10 ms or for a
client.

`ClientFairness` has weak fairness of the calls the user is in, of each pump and of
each reconnect thread: they are threads, and RmClient's calls return. Nobody has to
call, and `Reconnects` asks for a server that can be reached from some time on.

`ClientDelivery` and `DeliveryTiming` state safety only.

## Proofs

`MessageQueueProofs` proves, for every set of connections, both consumption
schemes, every `MaxDeliveryAttempts`, any number of messages, with and without
expiration:

| Theorem | Statement |
|---|---|
| `Invariance` | `Spec => []IInv` |
| `TypeCorrect` | `Spec => []TypeOK` |
| `OrderOfDelivery` | `Spec => []InOrder` |
| `BoundedAttempts` | `Spec => []AttemptsBounded` |
| `SingleConsumer` | `Spec => []AtMostOneConsumer` |
| `NoDuplicateDelivery` | `Spec => NoRedelivery` |
| `RemovalIsJustified` | `Spec => RemovedOnlyWhenSettled` |
| `Implementation` (`MessageQueueRefinementProofs`) | `Spec => ImplementsContract` |

The only assumption is `ConstantsAssumption` of `MessageQueue`.

None of these properties is inductive. `IInv` adds:

- `QueueSorted`: the list is in the order of enqueueing, under the counter. The
  lemmas on `Sublists` and `RemoveFirst` (`SublistFacts`, `Dropped`) show that
  expiration, purge and removal keep it.
- `ThreadState`: the locals fit the program point, and the subscribers still to
  serve exclude those satisfied and the one being served.
- `Oldest`: what has been offered is not younger than the message in hand nor than
  the first of the list. `InOrder` follows. It needs `QueueSorted` to survive the
  next scan.
- `Budget`: attempts recorded and calls made agree, but for the open call, and a
  connection that is not satisfied has attempts left. `AttemptsBounded` follows.
  After the thread has ended the agreement is given up, since Stop throws the last
  outcome away.
- `Acknowledged`: an acknowledgement is recorded before the next offer, and a
  connection is satisfied for a reason. `NoRedelivery` and
  `RemovedOnlyWhenSettled` follow with `ThreadState`.
- `Consumed`: a consumed message is in hand with nobody left to serve, or gone from
  the list for good. `AtMostOneConsumer` is part of it; it needs `Oldest` and
  `QueueSorted` to know that a removed message does not come back.

The proof splits a step into those that leave list, messages and thread alone
(`coreVars`) and the eleven others, and has one lemma per part of `IInv`, with a
step per action.

`Implementation` maps each action to one of the contract or to a stutter, from
`IInv`. Its lemma `SatisfiedIsSettled` (from `Budget` and `Acknowledged`) says that
between offers the records of the code agree with the contract's account; `Oldest`
and `QueueSorted` give that the removed message is the head.

`MqServerProofs`, for any number of connections, queues, objects and queries, from
`ServerAssumption`:

| Theorem | Statement |
|---|---|
| `TypeCorrect` | `Spec => []TypeOK` |
| `NoOrphans` | `Spec => []NoOrphanThread` |
| `StopIsComplete` | `Spec => []StopSweeps` |
| `Acceptance` | `Spec => []AcceptedIsEnqueued` |
| `SingleEnqueue` | `Spec => []EnqueuedOnce` |
| `OrderOfSender` | `Spec => []SenderOrder` |
| `SubscriptionsGone` | `Spec => SubscriptionsRemoved` |

Its `IInv` adds what the lock of the dictionary guards: two names never share an
object (`RegistryInv`), the one who joins holds the lock, and the queues Stop has not
yet been to are all in `toStop` (`HolderInv`). `ServerInv` says that no connection is
open when `_keepRunning` is cleared, which is why a handler that gives up and reports
success cannot mislead its client. `QueryInv` says that a connection has one query
unanswered at most; with it, `EnqueueInv` gets `SenderOrder`: an earlier message can only
be enqueued later if its sender has stopped waiting.

`MqServerRefinementProofs`, under the same assumption:

| Theorem | Statement |
|---|---|
| `ServerImplementation` | `Spec => ImplementsServerContract` |

It needs two parts beside `IInv`. `ObjectInv`: an object not yet created has no messages
and no subscribers, and a thread told to end while it lives is being joined. `HandInv`:
a list has a message once, and the message in hand is the first of its list or not in
it; since the queries that put messages into a list or a hand are over (`Over`), none of
these numbers comes a second time. Then there is one lemma for each kind of step: of
clients, of handlers, of disconnections, of Stop, and of a delivery thread, where
`RemoveFirstHead` says that `List.Remove` of a first element is `Tail`. `ObjectChange`
carries a change of an object over to the name it is registered under, which rests on
two names not sharing one (`RegistryInv`).

`MqClientProofs`, for any number of connections and both constructors:

| Theorem | Statement |
|---|---|
| `ClientTypeCorrect` | `ClientSpec => []ClientTypeOK` |
| `FinalDisconnect` | `ClientSpec => []DisconnectIsFinal` |

The strengthening `Final` says what `Disconnect` leaves behind when it was called in none
of the windows: the flag set, and nobody past its read of the flag or about to raise
`OnConnected`, so that every reconnect thread ends at that read.

`ClientDeliveryProofs`, for any number of connections, messages and deliveries:

| Theorem | Statement |
|---|---|
| `DeliveryTypeCorrect` | `Spec => []TypeOK` |
| `OneAtATimeHolds` | `Spec => []OneAtATime` |
| `NotHandledTwice` | `Spec => []HandledAgainOnlyAfterFailure` |
| `ReasonToLeave` | `Spec => LeavesForAReason` |

The types of the client part come from `MqClientProofs`, as the composition leaves the
actions of `MqClient` alone. `EndedInv` ties success at the server to a handler that has ended; `ThreadInv` keeps the
connections still to serve apart from those satisfied; `RecordInv` says that every
acknowledgement of the first message is recorded, but for the one just received.
`AttemptInv`, for `ReasonToLeave`, relates a counter of the code to the history: the
attempts of a connection that is not satisfied are the number of its failed deliveries of
the first message, but for one that the thread has yet to record (`Unrecorded`), and it
has attempts left; a satisfied one has acknowledged the message or seen as many failures
as are allowed.

`ClientDeliveryRefinementProofs`, under the same assumption:

| Theorem | Statement |
|---|---|
| `QueueKeepsContract` | `Spec => ImplementsQueueContract` |

It needs no more than the invariant of `ReasonToLeave`. The heart is `SatisfiedIsSettled`:
between offers a connection is satisfied just when the contract calls it settled. One way
every failure is an offer, so as many failures as are allowed are enough offers
(`GivenUpMonotone`). The other way, a connection that is not satisfied has acknowledged
nothing (`RecordInv`), so its offers are all failures, the failures are its attempts, and
these are not used up (`AttemptInv`). Then there is a lemma for each kind of step;
`EntryRefines` is the one for handlers on the client, where a reply that the server
has stopped waiting for is shown to change nothing of what the contract sees.

`DeliveryTimingProofs`, for every interval, age, throttle and bound:

| Theorem | Statement |
|---|---|
| `TypeCorrect` | `Spec => []TypeOK` |
| `Freshness` | `Spec => FreshWhenTaken` |
| `ThrottleRespected` | `Spec => ThrottleKept` |
| `StopIsPrompt` | `Spec => []StopCutsThrottle` |

The invariant says of each time the thread notes what it stands for: what is in the queue
was young enough when the last search began, or came later, and a search under way says
so of the messages it has passed, although each was compared with another reading of the
clock (`FreshInv`); the sleeps done add up to the time since the delivery, where
`SleepTimeFacts` bounds what the cast drops (`SleepInv`); once a sleep has ended with the
queue stopped the thread is on its way out (`StopInv`).

Only model-checked: liveness (`StopCompletes`, `EveryMessageLeaves`, `HandlerEnds`,
`StopReturns`, `Reconnects`, `ReconnectThreadsEnd`), as the prover does not do fairness.

## Not modelled

- The order of `DeliveryScheme`: any order is allowed. Round robin relies on the order in
  which .NET's Dictionary lists its keys after removals, which `src/` does not have.
- Counters for display (`TotalDeliveredMessages` and others): no guard reads them.
- `GetQueues`, `GetSubscribers`, `GetQueueMessages`, `GetQueueMessage` change nothing.
  They read `SubscriberMessageDeliveries` and hand out
  `SatisfiedSubscribersConnectionIDs` while the delivery thread may be writing
  them; what a reader then sees depends on the .NET collections.
- Deserialization and its cache on the client: it fails or it does not, which
  `OnReceivedEnds` has, and a lost race to fill the cache adds nothing.
- `DeliveryThreadWaitEvent` shortens a wait of 10 ms that ends by itself; no property
  depends on it.
- The web interface, the sample programs and the vendored scripts
  (`wwwroot/js/site.js` is a comment): no state of the queue.

## Plan

What a further extension would take up:

1. A second mapping: one queue of `MqServer` as an abstraction of `MessageQueue`, so that
   the coarse delivery thread is shown to allow what the detailed one does.
2. `ClientDelivery` under `FirstConsumedSubscriber` with two clients: what consumption by
   one client means when the reply of another is late.
