------------------------ MODULE DeliveryTimingProofs ------------------------
(***************************************************************************)
(* Proofs about DeliveryTiming, for every interval, age, throttle and      *)
(* bound.                                                                  *)
(*                                                                         *)
(* The inductive invariant IInv says of each time the thread keeps what it *)
(* stands for: how old at most the messages were that the last search      *)
(* left, also half way through a search; how far the sleeps of a throttle  *)
(* have brought the thread since the delivery; and where the thread may be *)
(* once a sleep has ended with the queue stopped.                          *)
(***************************************************************************)
EXTENDS DeliveryTiming, SequenceTheorems, TLAPS

\* No noted time is in the future.
PastInv == lastStaleMessageScan <= now /\ dueAt <= now /\ deliveredAt <= now

\* A message in the queue was young enough when the last search began, or came
\* later; a search under way says so of what it has passed; and a message is
\* only chosen when the last search is not too long ago.
FreshInv ==
    MaxMessageAge > 0 =>
        /\ \A i \in DOMAIN messages :
               lastStaleMessageScan - searchTook <= messages[i] + MaxMessageAge
        /\ pc = "Search" => \A i \in DOMAIN messages :
               i < index => dueAt <= messages[i] + MaxMessageAge
        /\ pc = "Take" => dueAt - lastStaleMessageScan < ScanPeriod

Throttling == pc \in {"Throttle", "FallAsleep", "Sleep"}

\* As much time as the throttle asks for has passed since the delivery.
Kept == IF DeliveryThrottle >= Second
        THEN now - deliveredAt >= DeliveryThrottle
        ELSE now - deliveredAt > DeliveryThrottle - Millisecond

\* How far the throttle of the last delivery has been slept out.
SleepInv ==
    /\ ~Throttling => sleep = 0
    /\ Throttling => deliveredAt >= 0
    /\ ~Throttling /\ KeepRunning /\ deliveredAt >= 0 => Kept
    /\ pc \in {"Throttle", "FallAsleep"} => sleep * SleepTime <= now - deliveredAt
    /\ pc = "Sleep" => sleep * SleepTime <= wakeAt - deliveredAt /\ sleep # 0
    /\ DeliveryThrottle < Second => sleep \in {0, 1}
    /\ DeliveryThrottle < Second /\ pc = "FallAsleep" => sleep = 0

\* Once a sleep has ended with the queue stopped the thread is on its way out.
StopInv ==
    \/ sleptStopped = 0
    \/ /\ sleptStopped = 1 /\ ~KeepRunning
       /\ \/ pc \in {"Test", "Exited"}
          \/ pc = "Throttle" /\ sleep # 0

IInv == TypeOK /\ PastInv /\ FreshInv /\ SleepInv /\ StopInv

-----------------------------------------------------------------------------
\* A list without one of its elements.
LEMMA RemoveAtFacts ==
    ASSUME NEW s \in Seq(Nat), NEW i \in DOMAIN s
    PROVE  /\ RemoveAt(s, i) \in Seq(Nat)
           /\ Len(RemoveAt(s, i)) = Len(s) - 1
           /\ \A j \in DOMAIN RemoveAt(s, i) :
                 \/ j < i /\ j \in DOMAIN s /\ RemoveAt(s, i)[j] = s[j]
                 \/ j >= i /\ j + 1 \in DOMAIN s /\ RemoveAt(s, i)[j] = s[j + 1]
<1>1. i \in 1..Len(s) /\ Len(s) \in Nat /\ \A j \in 1..Len(s) : s[j] \in Nat
  OBVIOUS
<1>2. PICK front : front = SubSeq(s, 1, i - 1)
  OBVIOUS
<1>3. /\ front \in Seq(Nat) /\ Len(front) = i - 1
      /\ \A j \in 1..(i - 1) : front[j] = s[j]
  <2>1. \A j \in 1..(i - 1) : s[j] \in Nat
    BY <1>1
  <2> QED
    BY <1>1, <1>2, <2>1, SubSeqProperties
<1>4. PICK back : back = SubSeq(s, i + 1, Len(s))
  OBVIOUS
<1>5. /\ back \in Seq(Nat) /\ Len(back) = Len(s) - i
      /\ \A j \in 1..(Len(s) - i) : back[j] = s[i + j]
  <2>1. \A j \in (i + 1)..Len(s) : s[j] \in Nat
    BY <1>1
  <2> QED
    BY <1>1, <1>4, <2>1, SubSeqProperties
<1>6. /\ front \o back \in Seq(Nat) /\ Len(front \o back) = Len(s) - 1
      /\ \A j \in 1..(Len(s) - 1) : (front \o back)[j] =
                IF j <= i - 1 THEN front[j] ELSE back[j - (i - 1)]
  <2>1. /\ front \o back \in Seq(Nat)
        /\ Len(front \o back) = Len(front) + Len(back)
        /\ \A j \in 1..(Len(front) + Len(back)) : (front \o back)[j] =
                  IF j <= Len(front) THEN front[j] ELSE back[j - Len(front)]
    BY <1>3, <1>5, ConcatProperties
  <2>2. Len(front) + Len(back) = Len(s) - 1
    BY <1>1, <1>3, <1>5
  <2> QED
    BY <1>3, <2>1, <2>2
<1>7. ASSUME NEW j \in 1..(Len(s) - 1), j < i
      PROVE  (front \o back)[j] = s[j]
  <2>1. j \in 1..(i - 1) /\ j <= i - 1
    BY <1>1, <1>7
  <2> QED
    BY <1>3, <1>6, <2>1
<1>8. ASSUME NEW j \in 1..(Len(s) - 1), j >= i
      PROVE  (front \o back)[j] = s[j + 1]
  <2> DEFINE m == j - (i - 1)
  <2>1. m \in 1..(Len(s) - i) /\ i + m = j + 1 /\ ~(j <= i - 1)
    BY <1>1, <1>8
  <2>2. (front \o back)[j] = back[m]
    BY <1>6, <2>1
  <2> HIDE DEF m
  <2> QED
    BY <1>5, <2>1, <2>2
<1>9. /\ DOMAIN (front \o back) = 1..(Len(s) - 1) /\ DOMAIN s = 1..Len(s)
      /\ \A j \in 1..(Len(s) - 1) : j \in 1..Len(s) /\ j + 1 \in 1..Len(s)
                                     /\ (j < i \/ j >= i)
  BY <1>1, <1>6
<1>10. RemoveAt(s, i) = front \o back
  BY <1>2, <1>4 DEF RemoveAt
<1> QED
  BY <1>6, <1>7, <1>8, <1>9, <1>10

\* A sleep below a second lacks less than a millisecond of the throttle.
LEMMA SleepTimeFacts ==
    ASSUME DeliveryThrottle \in Nat
    PROVE  /\ SleepTime \in Nat
           /\ DeliveryThrottle >= Second => SleepTime = Second
           /\ DeliveryThrottle < Second => SleepTime > DeliveryThrottle - Millisecond
<1> USE TimingAssumption
<1> DEFINE n == DeliveryThrottle \div Millisecond
<1>1. n \in Nat /\ DeliveryThrottle = (Millisecond * n) + (DeliveryThrottle % Millisecond)
  OBVIOUS
<1>2. DeliveryThrottle % Millisecond \in 0..(Millisecond - 1)
  OBVIOUS
<1>3. n * Millisecond = Millisecond * n /\ n * Millisecond \in Nat
  BY <1>1
<1>4. n * Millisecond > DeliveryThrottle - Millisecond
  BY <1>1, <1>2, <1>3
<1> QED
  BY <1>3, <1>4 DEF SleepTime

-----------------------------------------------------------------------------
(* The invariant is kept. *)

\* A queue that was just created has nothing to account for.
LEMMA InitHolds == Init => IInv
<1> SUFFICES ASSUME Init PROVE IInv
  OBVIOUS
<1>1. messages \in Seq(Nat) /\ DOMAIN messages = {} /\ KeepRunning
  BY DEF Init
<1>2. TypeOK
  BY <1>1, TimingAssumption DEF Init, TypeOK
<1>3. PastInv /\ FreshInv
  BY <1>1, TimingAssumption DEF Init, PastInv, FreshInv
<1>4. SleepInv /\ StopInv
  BY <1>1 DEF Init, SleepInv, StopInv, Throttling
<1> QED
  BY <1>2, <1>3, <1>4 DEF IInv

\* What the others and the clock do.
LEMMA OthersStep ==
    ASSUME IInv, Tick \/ SubscriberComesOrGoes \/ EnqueueMessage \/ Stop
    PROVE  IInv'
<1> USE TimingAssumption DEF IInv, queueVars, locals, sleepVars, history, searchHistory,
        Holding
<1>1. CASE Tick
  <2>1. TypeOK' /\ PastInv' /\ FreshInv'
    BY <1>1 DEF Tick, TypeOK, PastInv, FreshInv
  <2>2. SleepInv' /\ StopInv'
    <3>1. SleepTime' = SleepTime /\ SleepTime \in Nat
      BY <1>1, SleepTimeFacts DEF Tick, SleepTime, TypeOK
    <3>2. sleep * SleepTime \in Nat
      BY <3>1 DEF TypeOK
    <3> HIDE DEF SleepTime
    <3> QED
      BY <1>1, <3>1, <3>2 DEF Tick, SleepInv, StopInv, Throttling, Kept, TypeOK
  <2> QED
    BY <2>1, <2>2
<1>2. CASE SubscriberComesOrGoes
  <2>1. TypeOK' /\ PastInv' /\ FreshInv'
    BY <1>2 DEF SubscriberComesOrGoes, TypeOK, PastInv, FreshInv
  <2>2. SleepInv' /\ StopInv'
    BY <1>2 DEF SubscriberComesOrGoes, SleepInv, StopInv, Throttling, Kept, SleepTime
  <2> QED
    BY <2>1, <2>2
<1>3. CASE EnqueueMessage
  <2>1. /\ messages \in Seq(Nat) /\ now \in Nat
        /\ messages' = Append(messages, now) /\ pc \notin {"Search", "Take"}
        /\ UNCHANGED <<now, DeliveryThrottle, KeepRunning, pc, locals, sleepVars, history>>
    BY <1>3 DEF EnqueueMessage, TypeOK
  <2>2. /\ messages' \in Seq(Nat)
        /\ \A i \in DOMAIN messages' :
              \/ i \in DOMAIN messages /\ messages'[i] = messages[i]
              \/ messages'[i] = now
        /\ messages # <<>> => messages' # <<>> /\ Head(messages') = Head(messages)
    BY <2>1
  <2>3. TypeOK'
    BY <1>3, <2>1, <2>2 DEF EnqueueMessage, TypeOK
  <2>4. PastInv' /\ FreshInv'
    BY <2>1, <2>2 DEF PastInv, FreshInv, TypeOK
  <2>5. SleepInv' /\ StopInv'
    BY <2>1 DEF SleepInv, StopInv, Throttling, Kept, SleepTime
  <2> QED
    BY <2>3, <2>4, <2>5
<1>4. CASE Stop
  <2>1. TypeOK' /\ PastInv' /\ FreshInv'
    BY <1>4 DEF Stop, TypeOK, PastInv, FreshInv
  <2>2. SleepInv' /\ StopInv'
    BY <1>4 DEF Stop, SleepInv, StopInv, Throttling, Kept, SleepTime
  <2> QED
    BY <2>1, <2>2
<1> QED
  BY <1>1, <1>2, <1>3, <1>4

\* The thread up to the choice of a message does not touch the throttle.
LEMMA ChooseKeepsSleep ==
    ASSUME IInv, Choose
    PROVE  SleepInv' /\ StopInv'
<1>1. /\ UNCHANGED <<now, DeliveryThrottle, KeepRunning, sleep, wakeAt, deliveredAt,
                     sleptStopped>>
      /\ pc \notin {"Throttle", "FallAsleep", "Sleep", "Test", "Exited"}
      /\ pc' \notin {"Throttle", "FallAsleep", "Sleep"}
  BY DEF Choose, ThreadStarts, LoopTest, BatchTest, BatchNoted, TryUseAllMissed,
         SearchBegins, SearchNotDue, RemoveAll, SearchNoted, Take, NothingToTake, Goto,
         queueVars, locals, sleepVars, history, searchHistory
<1> QED
  BY <1>1 DEF IInv, SleepInv, StopInv, Throttling, Kept, SleepTime

\* The search, message by message, and the choice.
LEMMA ChooseStep ==
    ASSUME IInv, Choose
    PROVE  IInv'
<1> USE TimingAssumption DEF queueVars, locals, sleepVars, history, searchHistory, Goto
<1>1. TypeOK /\ PastInv /\ FreshInv
  BY DEF IInv
<1>2. SleepInv' /\ StopInv'
  BY ChooseKeepsSleep
<1>3. TypeOK' /\ PastInv' /\ FreshInv'
  <2>1. CASE ThreadStarts
    <3>1. TypeOK'
      BY <1>1, <2>1 DEF ThreadStarts, TypeOK
    <3>6. PastInv'
      BY <1>1, <2>1 DEF ThreadStarts, PastInv, TypeOK
    <3>2. lastStaleMessageScan' - searchTook' = lastStaleMessageScan - searchTook
          \/ lastStaleMessageScan' - searchTook' = 0
      BY <1>1, <2>1 DEF ThreadStarts, TypeOK
    <3>3. \A i \in DOMAIN messages : messages[i] \in Nat
      BY <1>1 DEF TypeOK
    <3>4. UNCHANGED messages /\ pc' \notin {"Search", "Take"}
      BY <2>1 DEF ThreadStarts
    <3>5. FreshInv'
      BY <1>1, <3>2, <3>3, <3>4 DEF FreshInv
    <3> QED
      BY <3>1, <3>5, <3>6
  <2>2. CASE LoopTest \/ BatchTest \/ BatchNoted \/ TryUseAllMissed
    <3>1. TypeOK'
      <4>1. CASE LoopTest
        BY <1>1, <4>1 DEF LoopTest, TypeOK
      <4>2. CASE BatchTest \/ TryUseAllMissed
        BY <1>1, <4>2 DEF BatchTest, TryUseAllMissed, TypeOK
      <4>3. CASE BatchNoted
        BY <1>1, <4>3 DEF BatchNoted, TypeOK
      <4> QED
        BY <2>2, <4>1, <4>2, <4>3
    <3>2. /\ UNCHANGED <<now, messages, lastStaleMessageScan, searchHistory, deliveredAt>>
          /\ pc' \notin {"Search", "Take"}
      BY <2>2 DEF LoopTest, BatchTest, BatchNoted, TryUseAllMissed
    <3>3. PastInv' /\ FreshInv'
      BY <1>1, <3>2 DEF PastInv, FreshInv
    <3> QED
      BY <3>1, <3>3
  <2>3. CASE SearchBegins
    BY <1>1, <2>3 DEF SearchBegins, TypeOK, PastInv, FreshInv
  <2>4. CASE SearchNotDue
    BY <1>1, <2>4 DEF SearchNotDue, ScanDue, TypeOK, PastInv, FreshInv
  <2>5. CASE RemoveAll
    <3>1. /\ pc = "Search" /\ pc' = pc /\ index \in DOMAIN messages
          /\ UNCHANGED <<now, lastStaleMessageScan, dueAt, searchTook, deliveredAt>>
          /\ messages \in Seq(Nat)
      BY <1>1, <2>5 DEF RemoveAll, TypeOK
    <3>2. CASE Expired(messages[index]) /\ messages' = RemoveAt(messages, index)
               /\ UNCHANGED index
      <4>1. /\ messages' \in Seq(Nat)
            /\ \A j \in DOMAIN messages' :
                  \/ j < index /\ j \in DOMAIN messages /\ messages'[j] = messages[j]
                  \/ j >= index /\ j + 1 \in DOMAIN messages
                     /\ messages'[j] = messages[j + 1]
        BY <3>1, <3>2, RemoveAtFacts
      <4>2. TypeOK'
        BY <1>1, <2>5, <3>1, <3>2, <4>1 DEF RemoveAll, TypeOK
      <4>3. PastInv' /\ FreshInv'
        <5>1. PastInv'
          BY <1>1, <3>1 DEF PastInv
        <5>2. ASSUME MaxMessageAge > 0, NEW j \in DOMAIN messages'
              PROVE  /\ lastStaleMessageScan - searchTook <= messages'[j] + MaxMessageAge
                     /\ j < index => dueAt <= messages'[j] + MaxMessageAge
          BY <1>1, <3>1, <4>1, <5>2 DEF FreshInv
        <5> QED
          BY <3>1, <3>2, <5>1, <5>2 DEF FreshInv
      <4> QED
        BY <4>2, <4>3
    <3>3. CASE ~Expired(messages[index]) /\ index' = index + 1 /\ UNCHANGED messages
      <4>1. TypeOK' /\ PastInv'
        BY <1>1, <2>5, <3>1, <3>3 DEF RemoveAll, TypeOK, PastInv
      <4>2. dueAt <= messages[index] + MaxMessageAge
        BY <1>1, <3>1, <3>3 DEF Expired, TypeOK, PastInv
      <4>3. \A i \in DOMAIN messages : i < index' => i < index \/ i = index
        BY <1>1, <3>1, <3>3 DEF TypeOK
      <4>4. FreshInv'
        BY <1>1, <3>1, <3>3, <4>2, <4>3 DEF FreshInv
      <4> QED
        BY <4>1, <4>4
    <3> QED
      BY <2>5, <3>2, <3>3 DEF RemoveAll
  <2>6. CASE SearchNoted
    <3>1. /\ now - dueAt \in Nat /\ dueAt - now < ScanPeriod
          /\ now - (now - dueAt) = dueAt
      BY <1>1 DEF TypeOK, PastInv
    <3>2. \A i \in DOMAIN messages : i < index
      BY <1>1, <2>6 DEF SearchNoted, TypeOK
    <3>3. TypeOK' /\ PastInv'
      BY <1>1, <2>6, <3>1 DEF SearchNoted, TypeOK, PastInv
    <3>4. FreshInv'
      BY <1>1, <2>6, <3>1, <3>2 DEF SearchNoted, FreshInv
    <3> QED
      BY <3>3, <3>4
  <2>7. CASE Take
    <3>1. messages # <<>> /\ Head(messages) \in Nat
      BY <1>1, <2>7 DEF Take, TypeOK
    <3> QED
      BY <1>1, <2>7, <3>1 DEF Take, TypeOK, PastInv, FreshInv
  <2>8. CASE NothingToTake
    BY <1>1, <2>8 DEF NothingToTake, TypeOK, PastInv, FreshInv
  <2> QED
    BY <2>1, <2>2, <2>3, <2>4, <2>5, <2>6, <2>7, <2>8 DEF Choose
<1> QED
  BY <1>2, <1>3 DEF IInv

\* The delivery, its throttle, and the removal of the message.
LEMMA DeliverStep ==
    ASSUME IInv, Deliver
    PROVE  IInv'
<1> USE DEF queueVars, locals, sleepVars, history, searchHistory, Goto
<1>1. TypeOK /\ PastInv /\ FreshInv /\ SleepInv /\ StopInv
  BY DEF IInv
<1>2. SleepTime \in Nat /\ sleep * SleepTime \in Nat
  BY <1>1, SleepTimeFacts DEF TypeOK
<1>3. SleepTime' = SleepTime
  BY DEF Deliver, NobodyServed, DeliverMessage, DeliverySucceeds, DeliveryFails,
         ThrottleTest, ThrottleSleep, Wake, ThrottleOver, RemoveTest, RemoveMessage,
         SleepTime
<1>4. CASE NobodyServed \/ DeliverMessage \/ DeliverySucceeds \/ DeliveryFails
           \/ RemoveTest
  <2>1. /\ pc' \in {"Test", "Query", "Throttle", "Remove", "Exited"}
        /\ pc \notin {"Throttle", "FallAsleep", "Sleep"}
        /\ pc' = "Throttle" => deliveredAt' = now
        /\ pc' # "Throttle" => deliveredAt' \in {deliveredAt, -1}
        /\ UNCHANGED <<now, queueVars, locals, sleepVars, searchHistory, sleptStopped>>
    BY <1>4 DEF NobodyServed, DeliverMessage, DeliverySucceeds, DeliveryFails, RemoveTest
  <2>2. TypeOK'
    BY <1>1, <1>4 DEF NobodyServed, DeliverMessage, DeliverySucceeds, DeliveryFails,
       RemoveTest, TypeOK
  <2>3. PastInv' /\ FreshInv'
    BY <1>1, <2>1 DEF PastInv, FreshInv, TypeOK
  <2>4. sleep = 0 /\ sleep * SleepTime = 0
    BY <1>1, <1>2, <2>1 DEF SleepInv, Throttling
  <2>5. SleepInv'
    BY <1>1, <1>3, <2>1, <2>4 DEF SleepInv, Throttling, Kept, TypeOK
  <2>6. StopInv'
    BY <1>1, <1>4 DEF NobodyServed, DeliverMessage, DeliverySucceeds, DeliveryFails,
       RemoveTest, StopInv
  <2> QED
    BY <2>2, <2>3, <2>5, <2>6 DEF IInv
<1>5. CASE ThrottleTest
  <2>1. TypeOK' /\ PastInv' /\ FreshInv'
    BY <1>1, <1>5 DEF ThrottleTest, TypeOK, PastInv, FreshInv
  <2>2. /\ pc = "Throttle" /\ pc' = "FallAsleep"
        /\ UNCHANGED <<now, queueVars, sleepVars, deliveredAt, sleptStopped>>
        /\ DeliveryThrottle < Second => sleep = 0
        /\ sleep # 0 => KeepRunning
    BY <1>1, <1>5, TimingAssumption DEF ThrottleTest, SleepsLeft, TypeOK
  <2>3. SleepInv'
    BY <1>1, <1>3, <2>2 DEF SleepInv, Throttling, Kept
  <2>4. StopInv'
    BY <1>1, <2>2 DEF StopInv
  <2> QED
    BY <2>1, <2>3, <2>4 DEF IInv
<1>6. CASE ThrottleSleep
  <2>1. TypeOK' /\ PastInv' /\ FreshInv'
    BY <1>1, <1>2, <1>6 DEF ThrottleSleep, TypeOK, PastInv, FreshInv
  <2>2. (sleep + 1) * SleepTime = sleep * SleepTime + SleepTime
    BY <1>1, <1>2 DEF TypeOK
  <2>3. SleepInv'
    BY <1>1, <1>2, <1>3, <1>6, <2>2 DEF ThrottleSleep, SleepInv, Throttling, Kept, TypeOK
  <2>4. StopInv'
    BY <1>1, <1>6 DEF ThrottleSleep, StopInv
  <2> QED
    BY <2>1, <2>3, <2>4 DEF IInv
<1>7. CASE Wake
  <2>1. TypeOK' /\ PastInv' /\ FreshInv'
    BY <1>1, <1>7 DEF Wake, TypeOK, PastInv, FreshInv
  <2>2. SleepInv'
    BY <1>1, <1>2, <1>3, <1>7 DEF Wake, SleepInv, Throttling, Kept, TypeOK
  <2>3. StopInv'
    BY <1>1, <1>7 DEF Wake, StopInv, SleepInv
  <2> QED
    BY <2>1, <2>2, <2>3 DEF IInv
<1>8. CASE ThrottleOver
  <2>1. TypeOK' /\ PastInv' /\ FreshInv'
    BY <1>1, <1>8 DEF ThrottleOver, TypeOK, PastInv, FreshInv
  <2>2. KeepRunning => Kept
    <3>1. CASE DeliveryThrottle >= Second
      BY <1>1, <1>2, <1>8, <3>1, SleepTimeFacts DEF ThrottleOver, SleepsLeft, SleepInv,
         Kept, TypeOK
    <3>2. CASE DeliveryThrottle < Second /\ sleep = 0
      BY <1>1, <1>8, <3>2, TimingAssumption DEF ThrottleOver, SleepsLeft, PastInv, Kept,
         TypeOK
    <3>3. CASE DeliveryThrottle < Second /\ sleep = 1
      <4>1. 1 * SleepTime = SleepTime
        BY <1>2
      <4> QED
        BY <1>1, <1>2, <1>8, <3>3, <4>1, SleepTimeFacts, TimingAssumption
           DEF ThrottleOver, SleepInv, Kept, TypeOK
    <3> QED
      BY <1>1, <3>1, <3>2, <3>3, TimingAssumption DEF SleepInv, TypeOK
  <2>3. SleepInv' /\ StopInv'
    BY <1>1, <1>8, <2>2 DEF ThrottleOver, SleepInv, StopInv, Throttling, Kept
  <2> QED
    BY <2>1, <2>3 DEF IInv
<1>9. CASE RemoveMessage
  <2>1. /\ messages \in Seq(Nat) /\ messages # <<>>
        /\ messages' = messages \/ messages' = Tail(messages)
    BY <1>1, <1>9 DEF RemoveMessage, TypeOK
  <2>2. /\ messages' \in Seq(Nat)
        /\ \A i \in DOMAIN messages' :
              \E j \in DOMAIN messages : messages'[i] = messages[j]
    <3>1. CASE messages' = messages
      BY <2>1, <3>1
    <3>2. CASE messages' = Tail(messages)
      <4>1. \A i \in DOMAIN messages' :
               i + 1 \in DOMAIN messages /\ messages'[i] = messages[i + 1]
        BY <2>1, <3>2
      <4> QED
        BY <2>1, <3>2, <4>1
    <3> QED
      BY <2>1, <3>1, <3>2
  <2>3. TypeOK' /\ PastInv' /\ FreshInv'
    BY <1>1, <1>9, <2>2 DEF RemoveMessage, TypeOK, PastInv, FreshInv
  <2>4. SleepInv' /\ StopInv'
    BY <1>1, <1>9 DEF RemoveMessage, SleepInv, StopInv, Throttling, Kept
  <2> QED
    BY <2>3, <2>4 DEF IInv
<1> QED
  BY <1>4, <1>5, <1>6, <1>7, <1>8, <1>9 DEF Deliver

\* Every step keeps the invariant.
LEMMA InvariantStep == IInv /\ [Next]_vars => IInv'
<1> SUFFICES ASSUME IInv, [Next]_vars PROVE IInv'
  OBVIOUS
<1>1. CASE UNCHANGED vars
  BY <1>1 DEF IInv, vars, queueVars, locals, sleepVars, history, searchHistory, TypeOK,
              PastInv, FreshInv, SleepInv, StopInv, Throttling, Kept, SleepTime
<1>2. CASE Next
  BY <1>2, OthersStep, ChooseStep, DeliverStep DEF Next
<1> QED
  BY <1>1, <1>2

\* The invariant holds throughout.
LEMMA Invariance == Spec => []IInv
<1> QED
  BY InitHolds, InvariantStep, PTL DEF Spec

-----------------------------------------------------------------------------
\* Types, and the message in hand is the first of the queue (MessageQueue.cs:84,
\* 199-214).
THEOREM TypeCorrect == Spec => []TypeOK
<1>1. IInv => TypeOK
  BY DEF IInv
<1> QED
  BY <1>1, Invariance, PTL

\* A message taken up exceeds MaxMessageAge by less than the time between two
\* searches for expired messages, what the last search took, and how late the
\* thread is after its test of the time (MessageQueue.cs:68-84).
THEOREM Freshness == Spec => FreshWhenTaken
<1>1. IInv /\ [Next]_vars =>
         [pc = "Take" /\ pc' = "Deliver" /\ MaxMessageAge > 0 =>
             now - topMessage' < MaxMessageAge + ScanPeriod + searchTook + (now - dueAt)]_vars
  <2> SUFFICES ASSUME IInv, Next, pc = "Take", pc' = "Deliver", MaxMessageAge > 0
               PROVE  now - topMessage' < MaxMessageAge + ScanPeriod
                                              + searchTook + (now - dueAt)
    OBVIOUS
  <2>1. Take
    BY DEF Next, Choose, Deliver, Tick, SubscriberComesOrGoes, EnqueueMessage, Stop,
           ThreadStarts, LoopTest, BatchTest, BatchNoted, TryUseAllMissed, SearchBegins,
           SearchNotDue, RemoveAll, SearchNoted, NothingToTake, NobodyServed,
           DeliverMessage, DeliverySucceeds, DeliveryFails, ThrottleTest, ThrottleSleep,
           Wake, ThrottleOver, RemoveTest, RemoveMessage, Goto
  <2>2. /\ 1 \in DOMAIN messages /\ topMessage' = messages[1] /\ messages[1] \in Nat
    BY <2>1 DEF Take, IInv, TypeOK
  <2>3. /\ lastStaleMessageScan - searchTook <= topMessage' + MaxMessageAge
        /\ dueAt - lastStaleMessageScan < ScanPeriod
    BY <2>2 DEF IInv, FreshInv
  <2> DEFINE stamp == topMessage'
  <2>4. /\ now \in Nat /\ stamp \in Nat /\ lastStaleMessageScan \in Nat
        /\ searchTook \in Nat /\ dueAt \in Nat
        /\ lastStaleMessageScan - searchTook <= stamp + MaxMessageAge
    BY <2>2, <2>3 DEF IInv, TypeOK
  <2> HIDE DEF stamp
  <2>5. now - stamp < MaxMessageAge + ScanPeriod + searchTook + (now - dueAt)
    BY <2>3, <2>4, TimingAssumption
  <2> QED
    BY <2>5 DEF stamp
<1> QED
  BY <1>1, Invariance, PTL DEF Spec, FreshWhenTaken

\* A message is not sent before DeliveryThrottle has passed since the delivery
\* before it, if that succeeded, cut to milliseconds below a second
\* (MessageQueue.cs:132-146).
THEOREM ThrottleRespected == Spec => ThrottleKept
<1>1. IInv /\ [Next]_vars =>
         [pc = "Deliver" /\ pc' = "Query" /\ deliveredAt >= 0 =>
             IF DeliveryThrottle >= Second
             THEN now - deliveredAt >= DeliveryThrottle
             ELSE now - deliveredAt > DeliveryThrottle - Millisecond]_vars
  <2> SUFFICES ASSUME IInv, Next, pc = "Deliver", pc' = "Query", deliveredAt >= 0
               PROVE  Kept
    BY DEF Kept
  <2>1. KeepRunning
    BY DEF Next, Choose, Deliver, Tick, SubscriberComesOrGoes, EnqueueMessage, Stop,
           ThreadStarts, LoopTest, BatchTest, BatchNoted, TryUseAllMissed, SearchBegins,
           SearchNotDue, RemoveAll, SearchNoted, Take, NothingToTake, NobodyServed,
           DeliverMessage, DeliverySucceeds, DeliveryFails, ThrottleTest, ThrottleSleep,
           Wake, ThrottleOver, RemoveTest, RemoveMessage, Goto
  <2> QED
    BY <2>1 DEF IInv, SleepInv, Throttling
<1> QED
  BY <1>1, Invariance, PTL DEF Spec, ThrottleKept

\* At most one sleep of a throttle ends after Stop (MessageQueue.cs:137-139, 144).
THEOREM StopIsPrompt == Spec => []StopCutsThrottle
<1>1. IInv => StopCutsThrottle
  BY DEF IInv, StopInv, StopCutsThrottle
<1> QED
  BY <1>1, Invariance, PTL
=============================================================================
