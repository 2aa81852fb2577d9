--------------------------- MODULE DeliveryTiming ---------------------------
(***************************************************************************)
(* The clock in MessageQueue.DeliveryThreadProc: BatchDeliveryInterval,    *)
(* the search for messages older than MaxMessageAge, and the sleeps of     *)
(* DeliveryThrottle, for a queue with one subscriber that comes and goes   *)
(* and answers or fails.                                                   *)
(*                                                                         *)
(* Each reading of DateTime.UtcNow and each test of KeepRunning is a step  *)
(* of its own.  Time may pass, and Stop may be called, between any two     *)
(* steps, so the thread may be late everywhere, and it sleeps at least as  *)
(* long as it is told.  Messages of a queue that is never purged leave by  *)
(* expiration and by delivery only; the rest is in MessageQueue.           *)
(***************************************************************************)
EXTENDS Integers, SequencesExt

CONSTANTS
    BatchDeliveryInterval, MaxMessageAge,  \* in ticks, 0: off
    Throttles,     \* the values of DeliveryThrottle, in ticks, 0: off
    ScanPeriod,    \* ticks in the ten seconds between two searches
    Second,        \* ticks in a second
    Millisecond,   \* ticks in a millisecond
    MaxEnqueued,   \* bound: messages in one behaviour
    MaxTime        \* bound: the clock

ASSUME TimingAssumption ==
    /\ BatchDeliveryInterval \in Nat /\ MaxMessageAge \in Nat
    /\ Throttles \subseteq Nat
    /\ ScanPeriod \in Nat \ {0} /\ Second \in Nat \ {0} /\ Millisecond \in Nat \ {0}
    /\ MaxEnqueued \in Nat /\ MaxTime \in Nat

VARIABLES
    now,                   \* DateTime.UtcNow, from the creation of the queue
    DeliveryThrottle,      \* of the configuration: never changes
    KeepRunning,           \* MessageQueue.KeepRunning
    subscribed,            \* the queue has its subscriber
    messages,              \* EnqueuedMessages: their timestamps
    enqueued,              \* number of messages enqueued
    pc,                    \* program point of the thread
    lastBatchDelivery, lastStaleMessageScan, topMessage,  \* its locals
    index,                 \* the message RemoveAll is at
    sleep, wakeAt,         \* its count of sleeps and the end of the current one
    dueAt,                 \* history: the reading of l.69 in this iteration
    searchTook,            \* history: from that reading to the noted time, last search
    deliveredAt,           \* history: when the last delivery succeeded; -1: it failed
    sleptStopped           \* history: sleeps that ended with the queue stopped

locals == <<lastBatchDelivery, lastStaleMessageScan, topMessage, index>>
sleepVars == <<sleep, wakeAt>>
searchHistory == <<dueAt, searchTook>>
history == <<searchHistory, deliveredAt, sleptStopped>>
queueVars == <<DeliveryThrottle, KeepRunning, subscribed, messages, enqueued>>
vars == <<now, queueVars, pc, locals, sleepVars, history>>

Init ==
    /\ now = 0
    /\ DeliveryThrottle \in Throttles
    /\ KeepRunning = TRUE /\ subscribed = FALSE
    /\ messages = <<>> /\ enqueued = 0
    /\ pc = "Start"
    /\ lastBatchDelivery = 0 /\ lastStaleMessageScan = 0 /\ topMessage = 0 /\ index = 0
    /\ sleep = 0 /\ wakeAt = 0
    /\ dueAt = 0 /\ searchTook = 0 /\ deliveredAt = -1 /\ sleptStopped = 0

-----------------------------------------------------------------------------
(* The clock, and what others do to the queue. *)

Tick ==
    /\ now < MaxTime
    /\ now' = now + 1
    /\ UNCHANGED <<queueVars, pc, locals, sleepVars, history>>

\* The thread is inside TryUseAll, with the locks of messages and subscribers.
Holding == pc \in {"Search", "Take"}

SubscriberComesOrGoes ==
    /\ ~Holding
    /\ subscribed' = ~subscribed
    /\ UNCHANGED <<now, DeliveryThrottle, KeepRunning, messages, enqueued, pc, locals,
                   sleepVars, history>>

\* Faulty variant: the newest message goes to the front.
EnqueueMessage_Front ==
    /\ ~Holding /\ enqueued < MaxEnqueued
    /\ enqueued' = enqueued + 1
    /\ messages' = <<now>> \o messages
    /\ UNCHANGED <<now, DeliveryThrottle, KeepRunning, subscribed, pc, locals, sleepVars,
                   history>>

\* The message is stamped and added under the lock of the messages.
EnqueueMessage ==
    /\ ~Holding /\ enqueued < MaxEnqueued
    /\ enqueued' = enqueued + 1
    /\ messages' = Append(messages, now)
    /\ UNCHANGED <<now, DeliveryThrottle, KeepRunning, subscribed, pc, locals, sleepVars,
                   history>>

Stop ==
    /\ KeepRunning
    /\ KeepRunning' = FALSE
    /\ UNCHANGED <<now, DeliveryThrottle, subscribed, messages, enqueued, pc, locals,
                   sleepVars, history>>

-----------------------------------------------------------------------------
(* The delivery thread, up to the choice of a message.  What counts as the *)
(* first search is the creation of the queue, until the thread starts.     *)

Goto(point) == pc' = point

ThreadStarts ==
    \/ /\ pc = "Start"
       /\ lastStaleMessageScan' = now /\ searchTook' = now
       /\ Goto("Started")
       /\ UNCHANGED <<now, queueVars, lastBatchDelivery, topMessage, index, sleepVars,
                      dueAt, deliveredAt, sleptStopped>>
    \/ /\ pc = "Started"
       /\ lastBatchDelivery' = now
       /\ Goto("Loop")
       /\ UNCHANGED <<now, queueVars, lastStaleMessageScan, topMessage, index, sleepVars,
                      history>>

LoopTest ==
    /\ pc = "Loop"
    /\ Goto(IF KeepRunning THEN "Batch" ELSE "Exited")
    /\ UNCHANGED <<now, queueVars, locals, sleepVars, history>>

\* The thread sleeps for a millisecond and tests again until the interval is over.
BatchTest ==
    /\ pc = "Batch"
    /\ Goto(IF now - lastBatchDelivery < BatchDeliveryInterval THEN "Loop" ELSE "Note")
    /\ UNCHANGED <<now, queueVars, locals, sleepVars, history>>

\* Every iteration that gets here begins an interval, with a message or without.
BatchNoted ==
    /\ pc = "Note"
    /\ lastBatchDelivery' = now /\ topMessage' = 0
    /\ Goto("Scan")
    /\ UNCHANGED <<now, queueVars, lastStaleMessageScan, index, sleepVars, history>>

TryUseAllMissed ==
    /\ pc = "Scan"
    /\ Goto("Loop")
    /\ UNCHANGED <<now, queueVars, locals, sleepVars, history>>

ScanDue == MaxMessageAge > 0 /\ now - lastStaleMessageScan >= ScanPeriod

SearchBegins ==
    /\ pc = "Scan" /\ ScanDue
    /\ dueAt' = now
    /\ index' = 1
    /\ Goto("Search")
    /\ UNCHANGED <<now, queueVars, lastBatchDelivery, lastStaleMessageScan, topMessage,
                   sleepVars, searchTook, deliveredAt, sleptStopped>>

\* Faulty variant: the time is noted although nothing was searched.
SearchNotDue_Noted ==
    /\ pc = "Scan" /\ ~ScanDue
    /\ dueAt' = now /\ lastStaleMessageScan' = now
    /\ Goto("Take")
    /\ UNCHANGED <<now, queueVars, lastBatchDelivery, topMessage, index, sleepVars,
                   searchTook, deliveredAt, sleptStopped>>

SearchNotDue ==
    /\ pc = "Scan" /\ ~ScanDue
    /\ dueAt' = now
    /\ Goto("Take")
    /\ UNCHANGED <<now, queueVars, locals, sleepVars, searchTook, deliveredAt,
                   sleptStopped>>

Expired(timestamp) == now - timestamp > MaxMessageAge

\* RemoveAll reads the clock for each message.
RemoveAll ==
    /\ pc = "Search" /\ index \in DOMAIN messages
    /\ \/ Expired(messages[index]) /\ messages' = RemoveAt(messages, index)
                                   /\ UNCHANGED index
       \/ ~Expired(messages[index]) /\ index' = index + 1 /\ UNCHANGED messages
    /\ UNCHANGED <<now, DeliveryThrottle, KeepRunning, subscribed, enqueued, pc,
                   lastBatchDelivery, lastStaleMessageScan, topMessage, sleepVars, history>>

SearchNoted ==
    /\ pc = "Search" /\ index > Len(messages)
    /\ lastStaleMessageScan' = now /\ searchTook' = now - dueAt
    /\ index' = 0
    /\ Goto("Take")
    /\ UNCHANGED <<now, queueVars, lastBatchDelivery, topMessage, sleepVars, dueAt,
                   deliveredAt, sleptStopped>>

\* The first message is taken up, if there is one and a subscriber for it.
Take ==
    /\ pc = "Take"
    /\ subscribed /\ messages # <<>>
    /\ topMessage' = Head(messages)
    /\ Goto("Deliver")
    /\ UNCHANGED <<now, queueVars, lastBatchDelivery, lastStaleMessageScan, index,
                   sleepVars, history>>

NothingToTake ==
    /\ pc = "Take"
    /\ ~subscribed \/ messages = <<>>
    /\ Goto("Loop")
    /\ UNCHANGED <<now, queueVars, locals, sleepVars, history>>

-----------------------------------------------------------------------------
(* The delivery, its throttle, and the removal of the message. *)

\* The subscriber was satisfied before, or the queue is stopped.
NobodyServed ==
    /\ pc = "Deliver"
    /\ Goto("Test")
    /\ UNCHANGED <<now, queueVars, locals, sleepVars, history>>

DeliverMessage ==
    /\ pc = "Deliver" /\ KeepRunning
    /\ deliveredAt' = -1
    /\ Goto("Query")
    /\ UNCHANGED <<now, queueVars, locals, sleepVars, searchHistory, sleptStopped>>

DeliverySucceeds ==
    /\ pc = "Query"
    /\ deliveredAt' = now
    /\ Goto("Throttle")
    /\ UNCHANGED <<now, queueVars, locals, sleepVars, searchHistory, sleptStopped>>

\* An exception: no throttle.
DeliveryFails ==
    /\ pc = "Query"
    /\ Goto("Test")
    /\ UNCHANGED <<now, queueVars, locals, sleepVars, history>>

\* Faulty variant: whole seconds only.
SleepsLeft_Floor == IF DeliveryThrottle >= Second
    THEN (sleep + 1) * Second <= DeliveryThrottle /\ KeepRunning
    ELSE DeliveryThrottle > 0 /\ sleep = 0

\* Faulty variant: the throttle is slept out although the queue is stopped.
SleepsLeft_NoStop == IF DeliveryThrottle >= Second
    THEN sleep * Second < DeliveryThrottle
    ELSE DeliveryThrottle > 0 /\ sleep = 0

\* From a second on, sleeps of a second while KeepRunning; below, one sleep.
SleepsLeft == IF DeliveryThrottle >= Second
    THEN sleep * Second < DeliveryThrottle /\ KeepRunning
    ELSE DeliveryThrottle > 0 /\ sleep = 0

\* Below a second the throttle is cut to whole milliseconds.
SleepTime == IF DeliveryThrottle >= Second
    THEN Second
    ELSE (DeliveryThrottle \div Millisecond) * Millisecond

ThrottleTest ==
    /\ pc = "Throttle" /\ SleepsLeft
    /\ Goto("FallAsleep")
    /\ UNCHANGED <<now, queueVars, locals, sleepVars, history>>

ThrottleSleep ==
    /\ pc = "FallAsleep"
    /\ sleep' = sleep + 1
    /\ wakeAt' = now + SleepTime
    /\ Goto("Sleep")
    /\ UNCHANGED <<now, queueVars, locals, history>>

Wake ==
    /\ pc = "Sleep" /\ now >= wakeAt
    /\ wakeAt' = 0
    /\ sleptStopped' = sleptStopped + IF KeepRunning THEN 0 ELSE 1
    /\ Goto("Throttle")
    /\ UNCHANGED <<now, queueVars, locals, sleep, searchHistory, deliveredAt>>

\* Whether the delivery counts for a queue stopped meanwhile is in MessageQueue.
ThrottleOver ==
    /\ pc = "Throttle" /\ ~SleepsLeft
    /\ sleep' = 0
    /\ Goto("Test")
    /\ UNCHANGED <<now, queueVars, locals, wakeAt, history>>

RemoveTest ==
    /\ pc = "Test"
    /\ Goto(IF KeepRunning THEN "Remove" ELSE "Exited")
    /\ UNCHANGED <<now, queueVars, locals, sleepVars, history>>

\* Whether the subscriber was the last to be satisfied is in MessageQueue.
RemoveMessage ==
    /\ pc = "Remove"
    /\ messages' \in {messages, Tail(messages)}
    /\ Goto("Loop")
    /\ UNCHANGED <<now, DeliveryThrottle, KeepRunning, subscribed, enqueued, locals,
                   sleepVars, history>>

-----------------------------------------------------------------------------
Choose ==
    \/ ThreadStarts \/ LoopTest \/ BatchTest \/ BatchNoted \/ TryUseAllMissed
    \/ SearchBegins \/ SearchNotDue \/ RemoveAll \/ SearchNoted
    \/ Take \/ NothingToTake

Deliver ==
    \/ NobodyServed \/ DeliverMessage \/ DeliverySucceeds \/ DeliveryFails
    \/ ThrottleTest \/ ThrottleSleep \/ Wake \/ ThrottleOver
    \/ RemoveTest \/ RemoveMessage

Next ==
    \/ Tick \/ SubscriberComesOrGoes \/ EnqueueMessage \/ Stop
    \/ Choose \/ Deliver

Spec == Init /\ [][Next]_vars

-----------------------------------------------------------------------------
(* Properties *)

\* Types; the message in hand is still the first of the queue when it is
\* removed.
TypeOK ==
    /\ now \in Nat /\ DeliveryThrottle \in Nat
    /\ KeepRunning \in BOOLEAN /\ subscribed \in BOOLEAN
    /\ messages \in Seq(Nat) /\ enqueued \in Nat
    /\ pc \in {"Start", "Started", "Loop", "Batch", "Note", "Scan", "Search", "Take",
               "Deliver", "Query", "Throttle", "FallAsleep", "Sleep", "Test", "Remove",
               "Exited"}
    /\ lastBatchDelivery \in Nat /\ lastStaleMessageScan \in Nat /\ topMessage \in Nat
    /\ index \in Nat /\ sleep \in Nat /\ wakeAt \in Nat
    /\ dueAt \in Nat /\ searchTook \in Nat
    /\ deliveredAt \in Nat \cup {-1} /\ sleptStopped \in Nat
    /\ pc \in {"Deliver", "Query", "Throttle", "FallAsleep", "Sleep", "Test", "Remove"} =>
          messages # <<>> /\ topMessage = Head(messages)

\* Expired messages are looked for now and then only (MessageQueue.cs:69), so an
\* expired one may be taken up; but not one that exceeds MaxMessageAge by the
\* time between two searches or more, not counting what the last search took
\* from its beginning until its time was noted (l.77), and how late the thread
\* is after its test of the time (l.69).
FreshWhenTaken ==
    [][pc = "Take" /\ pc' = "Deliver" /\ MaxMessageAge > 0 =>
          now - topMessage' < MaxMessageAge + ScanPeriod
                                  + searchTook + (now - dueAt)]_vars

\* After a delivery that succeeded the next message is not sent before
\* DeliveryThrottle has passed, also if that is not a whole number of seconds;
\* below a second less than a millisecond may be missing (MessageQueue.cs:132-146).
ThrottleKept ==
    [][pc = "Deliver" /\ pc' = "Query" /\ deliveredAt >= 0 =>
          IF DeliveryThrottle >= Second
          THEN now - deliveredAt >= DeliveryThrottle
          ELSE now - deliveredAt > DeliveryThrottle - Millisecond]_vars

\* A stopped queue does not sleep out a long throttle, which Stop would wait for
\* with the dictionary of queues locked: at most one sleep, of a second or less,
\* ends after Stop, be it that it had begun or that the thread was about to
\* begin it (MessageQueue.cs:137-139).
StopCutsThrottle == sleptStopped <= 1

\* "The interval in which the queue will deliver all of its contents to the
\* subscribers" (MqQueueConfiguration.cs:16): when the thread, after a successful
\* delivery in the current interval, waits for the next one, no message is left
\* that the queue held behind the delivered one when the interval began.
BatchDeliversAll ==
    [][pc = "Batch" /\ pc' = "Loop" /\ deliveredAt > lastBatchDelivery =>
          \A i \in DOMAIN messages :
              messages[i] <= topMessage \/ messages[i] >= lastBatchDelivery]_vars
=============================================================================
