------------------------ MODULE ClientDeliveryProofs ------------------------
(***************************************************************************)
(* Proofs about ClientDelivery, for every number of connections, messages, *)
(* attempts and deliveries.                                                *)
(*                                                                         *)
(* The inductive invariant DeliveryInv relates what the queue has recorded *)
(* of its first message to the deliveries that were made of it.            *)
(***************************************************************************)
EXTENDS ClientDelivery, MqClientProofs, FiniteSetTheorems

\* A success is known only of a delivery that has ended on the client.
EndedInv == \A d \in DOMAIN deliveries :
    deliveries[d].reply = "success" => deliveries[d].handler = "Ended"

\* The thread in its loop: there is a message, and who is owed it was not
\* served.
ThreadInv ==
    /\ thread # "Loop" => top <= NumMessages
    /\ owed \cap satisfied = {}
    /\ thread = "Query" =>
          /\ Current >= 1
          /\ deliveries[Current].message = top
          /\ ConnectionOf(Current) \notin owed

\* Acknowledgements of the first message are recorded, but for the current one,
\* and nobody who acknowledged a message is sent it again.
RecordInv ==
    /\ \A d \in DOMAIN deliveries : deliveries[d].message <= top
    /\ \A d \in DOMAIN deliveries :
          deliveries[d].message = top /\ deliveries[d].reply = "success" =>
              ConnectionOf(d) \in satisfied \/ (thread = "Query" /\ d = Current)
    /\ \A d, e \in DOMAIN deliveries :
          /\ d < e /\ deliveries[d].message = deliveries[e].message
          /\ ConnectionOf(d) = ConnectionOf(e)
          => deliveries[d].reply # "success"

DeliveryInv == TypeOK /\ EndedInv /\ ThreadInv /\ RecordInv

-----------------------------------------------------------------------------
\* Each step of the composition is a step of the client or leaves it alone, so
\* that the types of the client can be cited.
LEMMA ClientIsRefined == Spec => ClientSpec
<1>1. Init => ClientInit
  BY DEF Init
<1>2. [Next]_vars => [ClientNext]_clientVars
  BY DEF Next, vars, ClientStep, DeliveryThread, Scan, QueryFails, DeliveryRecorded,
     RemoveMessage, DeliverMessage, Subscribe, RmServer_OnDisconnected, Handler,
     QueryArrives, MessageDeliveryQuery, OnReceivedEnds, Reply
<1> QED
  BY <1>1, <1>2, PTL DEF Spec, ClientSpec

\* The list of deliveries and an entry of it changed.
LEMMA EntryChanged ==
    ASSUME deliveries \in Seq(Deliveries), NEW d \in DOMAIN deliveries,
           NEW entry \in Deliveries,
           deliveries' = [deliveries EXCEPT ![d] = entry]
    PROVE  /\ deliveries' \in Seq(Deliveries) /\ Current' = Current
           /\ DOMAIN deliveries' = DOMAIN deliveries
           /\ deliveries'[d] = entry
           /\ \A e \in DOMAIN deliveries : e # d => deliveries'[e] = deliveries[e]
  BY DEF Current

\* The invariant holds when the queue is new.
LEMMA DeliveryInit == Init => DeliveryInv
<1> SUFFICES ASSUME Init PROVE DeliveryInv
  OBVIOUS
<1>1. ClientTypeOK
  BY ClientInitTypes DEF Init
<1>2. deliveries \in Seq(Deliveries) /\ DOMAIN deliveries = {} /\ top = 1
  BY DEF Init
<1>3. TypeOK
  BY <1>1, <1>2, DeliveryAssumption DEF Init, TypeOK
<1>4. EndedInv /\ ThreadInv /\ RecordInv
  BY <1>2 DEF Init, EndedInv, ThreadInv, RecordInv
<1> QED
  BY <1>3, <1>4 DEF DeliveryInv

\* Steps that leave the deliveries and the thread alone.
LEMMA OutsideStep ==
    ASSUME DeliveryInv, ClientTypeOK', UNCHANGED <<top, satisfied, attempts, thread, owed,
           deliveries>>, subscribed' \subseteq Links
    PROVE  DeliveryInv'
<1>1. TypeOK'
  BY DEF DeliveryInv, TypeOK, Current
<1>2. EndedInv' /\ ThreadInv' /\ RecordInv'
  BY DEF DeliveryInv, EndedInv, ThreadInv, RecordInv, Current, ConnectionOf
<1> QED
  BY <1>1, <1>2 DEF DeliveryInv

\* Steps that change one delivery, whether or not it becomes a success.
LEMMA EntryStep ==
    ASSUME DeliveryInv, ClientTypeOK', UNCHANGED queueVars,
           NEW d \in DOMAIN deliveries, NEW entry \in Deliveries,
           deliveries' = [deliveries EXCEPT ![d] = entry],
           entry.message = deliveries[d].message,
           entry.connection = deliveries[d].connection,
           entry.reply # deliveries[d].reply =>
               deliveries[d].reply = "waiting" /\ entry.reply # "waiting",
           entry.reply = "success" => entry.handler = "Ended"
    PROVE  DeliveryInv'
<1> USE DEF queueVars
<1>1. /\ deliveries' \in Seq(Deliveries) /\ Current' = Current
      /\ DOMAIN deliveries' = DOMAIN deliveries
      /\ deliveries'[d] = entry
      /\ \A e \in DOMAIN deliveries : e # d => deliveries'[e] = deliveries[e]
  BY EntryChanged DEF DeliveryInv, TypeOK
<1>2. \A e \in DOMAIN deliveries :
          /\ deliveries'[e].message = deliveries[e].message
          /\ ConnectionOf(e)' = ConnectionOf(e)
          /\ deliveries'[e].reply = "success" =>
                deliveries[e].reply = "success"
                \/ (deliveries[e].reply = "waiting" /\ e = d)
          /\ deliveries'[e].reply = "waiting" => deliveries[e].reply = "waiting"
  BY <1>1 DEF ConnectionOf
<1>3. TypeOK'
  BY <1>1, <1>2 DEF DeliveryInv, TypeOK
<1>4. EndedInv'
  BY <1>1 DEF DeliveryInv, EndedInv
<1>5. ThreadInv'
  <2>1. thread = "Query" => Current \in DOMAIN deliveries
    BY DEF DeliveryInv, ThreadInv, TypeOK, Current
  <2> QED
    BY <1>1, <1>2, <2>1 DEF DeliveryInv, ThreadInv
<1>6. deliveries[d].reply = "waiting" => d = Current /\ thread = "Query"
  BY DEF DeliveryInv, TypeOK
<1>7. \A e \in DOMAIN deliveries : e <= Current
  BY DEF DeliveryInv, TypeOK, Current
<1>8. RecordInv'
  <2>1. \A e, f \in DOMAIN deliveries : e < f /\ e = d => deliveries[d].reply # "waiting"
    BY <1>6, <1>7 DEF DeliveryInv, TypeOK, Current
  <2> QED
    BY <1>1, <1>2, <1>6, <2>1 DEF DeliveryInv, RecordInv
<1> QED
  BY <1>3, <1>4, <1>5, <1>8 DEF DeliveryInv

\* The handler of a delivery, and the end of the wait for it.
LEMMA HandlerStep ==
    ASSUME DeliveryInv, ClientTypeOK',
           QueryFails \/ \E d \in DOMAIN deliveries : Handler(d)
    PROVE  DeliveryInv'
<1> USE DEF SetDelivery
<1>1. \A d \in DOMAIN deliveries : deliveries[d] \in Deliveries
  BY DEF DeliveryInv, TypeOK
<1>2. CASE QueryFails
  <2> DEFINE entry == [deliveries[Current] EXCEPT !.reply = "exception"]
  <2>1. Current \in DOMAIN deliveries
    BY <1>2 DEF QueryFails, DeliveryInv, ThreadInv, TypeOK, Current
  <2>2. deliveries' = [deliveries EXCEPT ![Current] = entry] /\ UNCHANGED queueVars
    BY <1>2 DEF QueryFails
  <2>3. /\ entry \in Deliveries /\ entry.message = deliveries[Current].message
        /\ entry.connection = deliveries[Current].connection
        /\ entry.reply = "exception" /\ deliveries[Current].reply = "waiting"
    BY <1>1, <1>2, <2>1 DEF QueryFails, Deliveries
  <2> HIDE DEF entry
  <2> QED
    BY <2>1, <2>2, <2>3, EntryStep
<1>3. ASSUME NEW d \in DOMAIN deliveries, MessageDeliveryQuery(d) PROVE DeliveryInv'
  <2> DEFINE entry == [deliveries[d] EXCEPT !.handler = "OnReceived"]
  <2>1. deliveries' = [deliveries EXCEPT ![d] = entry] /\ UNCHANGED queueVars
    BY <1>3 DEF MessageDeliveryQuery
  <2>2. /\ entry \in Deliveries /\ entry.message = deliveries[d].message
        /\ entry.connection = deliveries[d].connection
        /\ entry.reply = deliveries[d].reply /\ entry.reply # "success"
    BY <1>1, <1>3 DEF MessageDeliveryQuery, Deliveries, DeliveryInv, EndedInv
  <2> HIDE DEF entry
  <2> QED
    BY <2>1, <2>2, EntryStep
<1>4. ASSUME NEW d \in DOMAIN deliveries, OnReceivedEnds(d) PROVE DeliveryInv'
  <2>1. PICK result \in {"returned", "error", "emptyError"} :
            deliveries' = [deliveries EXCEPT ![d].handler = "Reply", ![d].result = result]
    BY <1>4 DEF OnReceivedEnds
  <2> DEFINE entry == [deliveries[d] EXCEPT !.handler = "Reply", !.result = result]
  <2>2. deliveries' = [deliveries EXCEPT ![d] = entry] /\ UNCHANGED queueVars
    BY <1>4, <2>1 DEF OnReceivedEnds, DeliveryInv, TypeOK
  <2>3. /\ entry \in Deliveries /\ entry.message = deliveries[d].message
        /\ entry.connection = deliveries[d].connection
        /\ entry.reply = deliveries[d].reply /\ entry.reply # "success"
    BY <1>1, <1>4 DEF OnReceivedEnds, Deliveries, DeliveryInv, EndedInv
  <2> HIDE DEF entry
  <2> QED
    BY <2>2, <2>3, EntryStep
<1>5. ASSUME NEW d \in DOMAIN deliveries, Reply(d) PROVE DeliveryInv'
  <2> DEFINE reply == IF deliveries[d].reply = "waiting" /\ ConnectionOf(d) \in open
                      THEN Reading(deliveries[d].result) ELSE deliveries[d].reply
             entry == [deliveries[d] EXCEPT !.handler = "Ended", !.reply = reply]
  <2>1. reply \in {"success", "exception"} \/ reply = deliveries[d].reply
    BY DEF Reading
  <2>2. reply # deliveries[d].reply => deliveries[d].reply = "waiting"
    OBVIOUS
  <2>3. deliveries' = [deliveries EXCEPT ![d] = entry] /\ UNCHANGED queueVars
    BY <1>5 DEF Reply, DeliveryInv, TypeOK
  <2> HIDE DEF reply
  <2>4. /\ entry \in Deliveries /\ entry.message = deliveries[d].message
        /\ entry.connection = deliveries[d].connection
        /\ entry.reply = reply /\ entry.handler = "Ended"
    BY <1>1, <2>1 DEF Deliveries
  <2> HIDE DEF entry
  <2> QED
    BY <2>1, <2>2, <2>3, <2>4, EntryStep
<1>6. ASSUME NEW d \in DOMAIN deliveries, QueryArrives(d) PROVE DeliveryInv'
  <2> DEFINE entry == [deliveries[d] EXCEPT !.handler = "arrived"]
  <2>1. deliveries' = [deliveries EXCEPT ![d] = entry] /\ UNCHANGED queueVars
    BY <1>6 DEF QueryArrives
  <2>2. /\ entry \in Deliveries /\ entry.message = deliveries[d].message
        /\ entry.connection = deliveries[d].connection
        /\ entry.reply = deliveries[d].reply /\ entry.reply # "success"
    BY <1>1, <1>6 DEF QueryArrives, Deliveries, DeliveryInv, EndedInv
  <2> HIDE DEF entry
  <2> QED
    BY <2>1, <2>2, EntryStep
<1> QED
  BY <1>2, <1>3, <1>4, <1>5, <1>6 DEF Handler

\* The delivery thread.
LEMMA ThreadStep ==
    ASSUME DeliveryInv, DeliveryThread
    PROVE  DeliveryInv'
<1>1. UNCHANGED clientVars => ClientTypeOK'
  BY DEF DeliveryInv, TypeOK, ClientTypeOK, clientVars
<1>2. CASE Scan
  <2>1. TypeOK'
    BY <1>1, <1>2 DEF Scan, DeliveryInv, TypeOK, Current
  <2>2. EndedInv' /\ ThreadInv' /\ RecordInv'
    BY <1>2 DEF Scan, DeliveryInv, EndedInv, ThreadInv, RecordInv, Current, ConnectionOf
  <2> QED
    BY <2>1, <2>2 DEF DeliveryInv
<1>3. ASSUME NEW k \in Links, DeliverMessage(k) PROVE DeliveryInv'
  <2> DEFINE entry == [message |-> top, connection |-> k, handler |-> "sent",
                       result |-> "none", reply |-> "waiting"]
  <2>1. /\ thread = "Deliver" /\ thread' = "Query" /\ k \in owed /\ owed' = owed \ {k}
        /\ deliveries' = Append(deliveries, entry)
        /\ UNCHANGED <<clientVars, top, subscribed, satisfied, attempts>>
    BY <1>3 DEF DeliverMessage, SendQuery
  <2>2. top \in 1..NumMessages /\ entry \in Deliveries
    BY <2>1, DeliveryAssumption DEF DeliveryInv, TypeOK, ThreadInv, Deliveries
  <2>3. /\ deliveries \in Seq(Deliveries) /\ Current \in Nat
        /\ DOMAIN deliveries = 1..Current
    BY DEF DeliveryInv, TypeOK, Current
  <2>4. /\ entry.message = top /\ entry.connection = k /\ entry.reply = "waiting"
    OBVIOUS
  <2> HIDE DEF entry
  <2>5. /\ deliveries' \in Seq(Deliveries) /\ Current' = Current + 1
        /\ DOMAIN deliveries' = 1..(Current + 1)
        /\ deliveries'[Current + 1] = entry
        /\ \A d \in 1..Current : deliveries'[d] = deliveries[d]
    BY <2>1, <2>2, <2>3 DEF Current
  <2>6. \A d \in DOMAIN deliveries : deliveries[d].reply # "waiting"
    BY <2>1 DEF DeliveryInv, TypeOK
  <2>7. TypeOK'
    BY <1>1, <2>1, <2>3, <2>4, <2>5, <2>6 DEF DeliveryInv, TypeOK
  <2>8. EndedInv'
    BY <2>3, <2>4, <2>5 DEF DeliveryInv, EndedInv
  <2>9. ThreadInv'
    BY <2>1, <2>3, <2>4, <2>5 DEF DeliveryInv, ThreadInv, ConnectionOf
  <2>10. \A d \in DOMAIN deliveries : deliveries[d].message = top /\ ConnectionOf(d) = k =>
             deliveries[d].reply # "success"
    BY <2>1 DEF DeliveryInv, ThreadInv, RecordInv
  <2>11. RecordInv'
    <3>1. \A d \in DOMAIN deliveries' : deliveries'[d].message <= top
      BY <2>2, <2>3, <2>4, <2>5 DEF DeliveryInv, RecordInv
    <3>2. \A d \in DOMAIN deliveries' :
              deliveries'[d].message = top /\ deliveries'[d].reply = "success" =>
                  deliveries'[d].connection \in satisfied
      BY <2>1, <2>3, <2>4, <2>5 DEF DeliveryInv, RecordInv, ConnectionOf
    <3>3. \A d, e \in DOMAIN deliveries' :
              /\ d < e /\ deliveries'[d].message = deliveries'[e].message
              /\ deliveries'[d].connection = deliveries'[e].connection
              => deliveries'[d].reply # "success"
      BY <2>3, <2>4, <2>5, <2>10 DEF DeliveryInv, RecordInv, ConnectionOf
    <3> QED
      BY <2>1, <3>1, <3>2, <3>3 DEF RecordInv, ConnectionOf
  <2> QED
    BY <2>7, <2>8, <2>9, <2>11 DEF DeliveryInv
<1>4. CASE QueryFails
  BY <1>1, <1>4, HandlerStep DEF QueryFails
<1>5. CASE DeliveryRecorded
  <2> DEFINE k == ConnectionOf(Current)
  <2>1. /\ thread = "Query" /\ thread' = "Deliver" /\ deliveries[Current].reply # "waiting"
        /\ attempts' = [attempts EXCEPT ![k] = @ + 1]
        /\ satisfied' \in {satisfied, satisfied \cup {k}}
        /\ deliveries[Current].reply = "success" => k \in satisfied'
        /\ UNCHANGED <<clientVars, top, subscribed, owed, deliveries>>
    BY <1>5 DEF DeliveryRecorded
  <2>2. Current \in DOMAIN deliveries /\ k \in Links
    <3>1. deliveries \in Seq(Deliveries) /\ Current \in DOMAIN deliveries
      BY <2>1 DEF DeliveryInv, ThreadInv, TypeOK, Current
    <3>2. deliveries[Current] \in Deliveries
      BY <3>1
    <3> QED
      BY <3>1, <3>2 DEF ConnectionOf, Deliveries
  <2> HIDE DEF k
  <2>3. attempts' \in [Links -> Nat] /\ satisfied' \subseteq Links
    BY <2>1, <2>2 DEF DeliveryInv, TypeOK
  <2>4. TypeOK'
    BY <1>1, <2>1, <2>3 DEF DeliveryInv, TypeOK, Current
  <2>5. EndedInv' /\ ThreadInv'
    BY <2>1 DEF DeliveryInv, EndedInv, ThreadInv, k
  <2>6. RecordInv'
    BY <2>1, <2>2 DEF DeliveryInv, RecordInv, Current, ConnectionOf, k
  <2> QED
    BY <2>4, <2>5, <2>6 DEF DeliveryInv
<1>6. CASE RemoveMessage
  <2>1. /\ thread = "Deliver" /\ thread' = "Loop" /\ owed = {}
        /\ UNCHANGED <<clientVars, subscribed, owed, deliveries>>
    BY <1>6 DEF RemoveMessage
  <2>2. CASE UNCHANGED <<top, satisfied, attempts>>
    <3>1. TypeOK'
      BY <1>1, <2>1, <2>2 DEF DeliveryInv, TypeOK, Current
    <3>2. EndedInv' /\ ThreadInv' /\ RecordInv'
      BY <2>1, <2>2 DEF DeliveryInv, EndedInv, ThreadInv, RecordInv, Current, ConnectionOf
    <3> QED
      BY <3>1, <3>2 DEF DeliveryInv
  <2>3. CASE top' = top + 1 /\ satisfied' = {} /\ attempts' = [k \in Links |-> 0]
    <3>1. top \in 1..NumMessages
      BY <2>1, DeliveryAssumption DEF DeliveryInv, TypeOK, ThreadInv
    <3>2. TypeOK'
      BY <1>1, <2>1, <2>3, <3>1, DeliveryAssumption DEF DeliveryInv, TypeOK, Current
    <3>3. EndedInv' /\ ThreadInv'
      BY <2>1, <2>3 DEF DeliveryInv, EndedInv, ThreadInv
    <3>4. \A d \in DOMAIN deliveries :
              deliveries[d].message \in 1..NumMessages /\ deliveries[d].message < top'
      <4>1. deliveries \in Seq(Deliveries)
        BY DEF DeliveryInv, TypeOK
      <4>2. \A d \in DOMAIN deliveries : deliveries[d] \in Deliveries
        BY <4>1
      <4>3. \A d \in DOMAIN deliveries : deliveries[d].message \in 1..NumMessages
        BY <4>2 DEF Deliveries
      <4>4. \A d \in DOMAIN deliveries : deliveries[d].message <= top
        BY DEF DeliveryInv, RecordInv
      <4> QED
        BY <2>3, <3>1, <4>3, <4>4, DeliveryAssumption
    <3>5. RecordInv'
      BY <2>1, <2>3, <3>1, <3>4 DEF DeliveryInv, RecordInv, ConnectionOf
    <3> QED
      BY <3>2, <3>3, <3>5 DEF DeliveryInv
  <2> QED
    BY <1>6, <2>2, <2>3 DEF RemoveMessage
<1> QED
  BY <1>2, <1>3, <1>4, <1>5, <1>6 DEF DeliveryThread

\* The invariant holds throughout; the types of the client come with ClientSpec.
LEMMA DeliveryInvariance == Spec => []DeliveryInv
<1>1. DeliveryInv /\ ClientTypeOK' /\ [Next]_vars => DeliveryInv'
  <2> SUFFICES ASSUME DeliveryInv, ClientTypeOK', [Next]_vars PROVE DeliveryInv'
    OBVIOUS
  <2>1. CASE ClientStep \/ UNCHANGED vars
    BY <2>1, OutsideStep DEF ClientStep, deliveryVars, queueVars, vars, DeliveryInv, TypeOK
  <2>2. ASSUME NEW k \in Links, Subscribe(k) \/ RmServer_OnDisconnected(k)
        PROVE  DeliveryInv'
    BY <2>2, OutsideStep DEF Subscribe, RmServer_OnDisconnected, DeliveryInv, TypeOK
  <2> QED
    BY <2>1, <2>2, ThreadStep, HandlerStep DEF Next
<1> QED
  BY <1>1, DeliveryInit, ClientIsRefined, ClientTypeCorrect, PTL DEF Spec

\* Types; the thread waits for the last query only.
THEOREM DeliveryTypeCorrect == Spec => []TypeOK
<1>1. DeliveryInv => TypeOK
  BY DEF DeliveryInv
<1> QED
  BY <1>1, DeliveryInvariance, PTL

\* OnReceived runs for one message at a time, unless the server has given the
\* earlier delivery up (MessageQueue.cs:112-188,
\* InternalClientQueryHandlers.cs:25-72).
THEOREM OneAtATimeHolds == Spec => []OneAtATime
<1>1. DeliveryInv => OneAtATime
  <2> SUFFICES ASSUME DeliveryInv, NEW d \in DOMAIN deliveries, NEW e \in DOMAIN deliveries,
                      d < e, deliveries[d].handler # "Ended"
               PROVE  deliveries[d].reply = "exception"
    BY DEF OneAtATime
  <2>1. deliveries[d].reply # "waiting"
    BY DEF DeliveryInv, TypeOK, Current
  <2>2. deliveries[d] \in Deliveries
    BY DEF DeliveryInv, TypeOK
  <2> QED
    BY <2>1, <2>2 DEF DeliveryInv, EndedInv, Deliveries
<1> QED
  BY <1>1, DeliveryInvariance, PTL

\* A message that a connection acknowledged is not sent to it again
\* (MessageQueue.cs:88-92, 153-154).
THEOREM NotHandledTwice == Spec => []HandledAgainOnlyAfterFailure
<1>1. DeliveryInv => HandledAgainOnlyAfterFailure
  <2> SUFFICES ASSUME DeliveryInv, NEW d \in DOMAIN deliveries, NEW e \in DOMAIN deliveries,
                      d < e, deliveries[d].message = deliveries[e].message,
                      ConnectionOf(d) = ConnectionOf(e)
               PROVE  deliveries[d].reply = "exception"
    BY DEF HandledAgainOnlyAfterFailure
  <2>1. deliveries[d].reply # "waiting"
    BY DEF DeliveryInv, TypeOK, Current
  <2>2. deliveries[d] \in Deliveries
    BY DEF DeliveryInv, TypeOK
  <2>3. deliveries[d].reply # "success"
    BY DEF DeliveryInv, RecordInv
  <2> QED
    BY <2>1, <2>2, <2>3 DEF Deliveries
<1> QED
  BY <1>1, DeliveryInvariance, PTL
-----------------------------------------------------------------------------
(* Why a message leaves the queue. *)

\* What the handler of a delivery has come to, and that it was not an error if
\* the server counts it.
ResultInv == \A d \in DOMAIN deliveries :
    /\ deliveries[d].handler \in {"Reply", "Ended"} => deliveries[d].result # "none"
    /\ deliveries[d].reply = "success" => deliveries[d].result \in {"returned", "emptyError"}

\* The delivery to k has failed and the thread has not recorded it yet.
Unrecorded(k) ==
    /\ thread = "Query" /\ ConnectionOf(Current) = k
    /\ deliveries[Current].reply = "exception"

\* A connection is satisfied by an acknowledgement or by its failures; before,
\* its attempts are the failures the thread has recorded, and not yet too many.
AttemptInv ==
    /\ \A k \in satisfied :
          GivenUp(Cardinality(Failures(top, k))) \/ Acknowledged(top, k)
    /\ \A k \in Links \ satisfied :
          /\ ~GivenUp(attempts[k])
          /\ Cardinality(Failures(top, k)) = attempts[k] + IF Unrecorded(k) THEN 1 ELSE 0

ReasonInv == DeliveryInv /\ ResultInv /\ AttemptInv

\* The failures of a connection can be counted.
LEMMA FailuresFinite ==
    ASSUME TypeOK, NEW m, NEW k
    PROVE  IsFiniteSet(Failures(m, k)) /\ Cardinality(Failures(m, k)) \in Nat
<1>1. DOMAIN deliveries = 1..Current /\ Current \in Nat
  BY DEF TypeOK, Current
<1>2. IsFiniteSet(1..Current)
  BY <1>1, FS_Interval
<1>3. Failures(m, k) \subseteq 1..Current
  BY <1>1 DEF Failures
<1> QED
  BY <1>2, <1>3, FS_Subset, FS_CardinalityType

\* More failures than enough are enough.
LEMMA GivenUpMonotone ==
    ASSUME NEW m \in Nat, NEW n \in Nat, m <= n, GivenUp(m)
    PROVE  GivenUp(n)
  BY DeliveryAssumption DEF GivenUp

\* Steps that add no failure and record nothing.
LEMMA NoFailureStep ==
    ASSUME AttemptInv, UNCHANGED <<top, satisfied, attempts>>,
           \A k \in Links : Failures(top, k)' = Failures(top, k),
           \A k \in Links : Unrecorded(k)' <=> Unrecorded(k),
           satisfied \subseteq Links,
           \A d \in DOMAIN deliveries :
               /\ d \in DOMAIN deliveries'
               /\ deliveries'[d].message = deliveries[d].message
               /\ deliveries'[d].connection = deliveries[d].connection
               /\ deliveries[d].reply = "success" => deliveries'[d].reply = "success"
    PROVE  AttemptInv'
<1>1. \A k \in satisfied' :
          \/ GivenUp(Cardinality(Failures(top, k)))'
          \/ Acknowledged(top, k)'
  <2> SUFFICES ASSUME NEW k \in satisfied'
               PROVE  \/ GivenUp(Cardinality(Failures(top, k)))'
                      \/ Acknowledged(top, k)'
    OBVIOUS
  <2>1. k \in satisfied /\ k \in Links
    OBVIOUS
  <2>2. CASE GivenUp(Cardinality(Failures(top, k)))
    BY <2>1, <2>2 DEF GivenUp
  <2>3. CASE Acknowledged(top, k)
    BY <2>3 DEF Acknowledged, ConnectionOf
  <2> QED
    BY <2>1, <2>2, <2>3 DEF AttemptInv
<1>2. \A k \in Links \ satisfied' :
          /\ ~GivenUp(attempts[k])'
          /\ Cardinality(Failures(top, k))' = attempts'[k] + IF Unrecorded(k)' THEN 1 ELSE 0
  <2> SUFFICES ASSUME NEW k \in Links \ satisfied'
               PROVE  /\ ~GivenUp(attempts[k])'
                  /\ Cardinality(Failures(top, k))'
                          = attempts'[k] + IF Unrecorded(k)' THEN 1 ELSE 0
    OBVIOUS
  <2>1. k \in Links \ satisfied /\ attempts'[k] = attempts[k]
    OBVIOUS
  <2>2. Cardinality(Failures(top, k))' = Cardinality(Failures(top, k))
    BY <2>1
  <2>3. ~GivenUp(attempts[k])'
    BY <2>1 DEF AttemptInv, GivenUp
  <2> QED
    BY <2>1, <2>2, <2>3 DEF AttemptInv
<1> QED
  BY <1>1, <1>2 DEF AttemptInv

\* The delivery the thread waits for becomes a failure.
LEMMA FailureStep ==
    ASSUME TypeOK, TypeOK', AttemptInv, UNCHANGED queueVars, NEW entry,
           Current \in DOMAIN deliveries, thread = "Query",
           deliveries[Current].message = top,
           deliveries[Current].reply = "waiting",
           deliveries' = [deliveries EXCEPT ![Current] = entry],
           entry.message = top, entry.connection = ConnectionOf(Current),
           entry.reply = "exception"
    PROVE  AttemptInv'
<1> USE DEF queueVars
<1>1. /\ Current' = Current /\ DOMAIN deliveries' = DOMAIN deliveries
      /\ deliveries'[Current] = entry
      /\ \A d \in DOMAIN deliveries : d # Current => deliveries'[d] = deliveries[d]
  BY DEF TypeOK, Current
<1>2. PICK c \in Links : c = ConnectionOf(Current)
  <2>1. deliveries[Current] \in Deliveries
    BY DEF TypeOK
  <2> QED
    BY <2>1 DEF Deliveries, ConnectionOf
<1>3. /\ Failures(top, c)' = Failures(top, c) \cup {Current}
      /\ Current \notin Failures(top, c)
  BY <1>1, <1>2 DEF Failures, ConnectionOf
<1>4. \A k \in Links \ {c} : Failures(top, k)' = Failures(top, k)
  BY <1>1, <1>2 DEF Failures, ConnectionOf
<1>5. \A k \in Links : ~Unrecorded(k)
  BY DEF Unrecorded
<1>6. \A k \in Links : Unrecorded(k)' <=> k = c
  BY <1>1, <1>2 DEF Unrecorded, ConnectionOf
<1>7. Cardinality(Failures(top, c))' = Cardinality(Failures(top, c)) + 1
  <2>1. IsFiniteSet(Failures(top, c))
    BY FailuresFinite
  <2>2. Cardinality(Failures(top, c) \cup {Current}) = Cardinality(Failures(top, c)) + 1
    BY <1>3, <2>1, FS_AddElement
  <2> QED
    BY <1>3, <2>2
<1>8. \A k \in Links :
          /\ Cardinality(Failures(top, k)) \in Nat
          /\ Cardinality(Failures(top, k))'
                = Cardinality(Failures(top, k)) + IF k = c THEN 1 ELSE 0
  <2> SUFFICES ASSUME NEW k \in Links
               PROVE  /\ Cardinality(Failures(top, k)) \in Nat
                      /\ Cardinality(Failures(top, k))'
                            = Cardinality(Failures(top, k)) + IF k = c THEN 1 ELSE 0
    OBVIOUS
  <2>1. Cardinality(Failures(top, k)) \in Nat
    BY FailuresFinite
  <2>2. k # c => Cardinality(Failures(top, k))' = Cardinality(Failures(top, k))
    BY <1>4
  <2>3. k = c => Cardinality(Failures(top, k))' = Cardinality(Failures(top, k)) + 1
    BY <1>7
  <2> QED
    BY <2>1, <2>2, <2>3
<1>9. \A k \in satisfied' :
          \/ GivenUp(Cardinality(Failures(top, k)))'
          \/ Acknowledged(top, k)'
  <2> SUFFICES ASSUME NEW k \in satisfied'
               PROVE  \/ GivenUp(Cardinality(Failures(top, k)))'
                      \/ Acknowledged(top, k)'
    OBVIOUS
  <2>1. k \in satisfied /\ k \in Links
    BY DEF TypeOK
  <2>2. CASE GivenUp(Cardinality(Failures(top, k)))
    <3>1. /\ Cardinality(Failures(top, k)) \in Nat
          /\ Cardinality(Failures(top, k))' \in Nat
          /\ Cardinality(Failures(top, k)) <= Cardinality(Failures(top, k))'
      BY <1>8, <2>1
    <3>2. GivenUp(Cardinality(Failures(top, k))')
      BY <2>2, <3>1, GivenUpMonotone
    <3> QED
      BY <3>2 DEF GivenUp
  <2>3. CASE Acknowledged(top, k)
    BY <1>1, <2>3 DEF Acknowledged, ConnectionOf
  <2> QED
    BY <2>1, <2>2, <2>3 DEF AttemptInv
<1>10. \A k \in Links \ satisfied' :
          /\ ~GivenUp(attempts[k])'
          /\ Cardinality(Failures(top, k))' = attempts'[k] + IF Unrecorded(k)' THEN 1 ELSE 0
  <2> SUFFICES ASSUME NEW k \in Links \ satisfied'
               PROVE  /\ ~GivenUp(attempts[k])'
                  /\ Cardinality(Failures(top, k))'
                          = attempts'[k] + IF Unrecorded(k)' THEN 1 ELSE 0
    OBVIOUS
  <2>1. k \in Links \ satisfied /\ attempts'[k] = attempts[k] /\ attempts[k] \in Nat
    BY DEF TypeOK
  <2>2. Cardinality(Failures(top, k)) = attempts[k]
    BY <1>5, <2>1 DEF AttemptInv
  <2>3. ~GivenUp(attempts[k])'
    BY <2>1 DEF AttemptInv, GivenUp
  <2> QED
    BY <1>6, <1>8, <2>1, <2>2, <2>3
<1> QED
  BY <1>9, <1>10 DEF AttemptInv

\* Steps that change one delivery.
LEMMA EntryReasonStep ==
    ASSUME ReasonInv, DeliveryInv', UNCHANGED queueVars,
           NEW d \in DOMAIN deliveries, NEW entry \in Deliveries,
           deliveries' = [deliveries EXCEPT ![d] = entry],
           entry.message = deliveries[d].message,
           entry.connection = deliveries[d].connection,
           entry.reply # deliveries[d].reply => deliveries[d].reply = "waiting",
           entry.handler \in {"Reply", "Ended"} => entry.result # "none",
           entry.reply = "success" => entry.result \in {"returned", "emptyError"}
    PROVE  ReasonInv'
<1> USE DEF queueVars
<1>1. /\ deliveries' \in Seq(Deliveries) /\ Current' = Current
      /\ DOMAIN deliveries' = DOMAIN deliveries
      /\ deliveries'[d] = entry
      /\ \A e \in DOMAIN deliveries : e # d => deliveries'[e] = deliveries[e]
  BY EntryChanged DEF ReasonInv, DeliveryInv, TypeOK
<1>2. ResultInv'
  BY <1>1 DEF ReasonInv, ResultInv
<1>3. TypeOK /\ TypeOK' /\ AttemptInv
  BY DEF ReasonInv, DeliveryInv
<1>4. entry.reply # deliveries[d].reply =>
          /\ d = Current /\ thread = "Query" /\ deliveries[d].message = top
          /\ deliveries[d].reply = "waiting" /\ entry.reply \in {"success", "exception"}
  <2>1. deliveries[d].reply = "waiting" =>
            d = Current /\ thread = "Query" /\ deliveries[d].message = top
    BY <1>3 DEF ReasonInv, DeliveryInv, ThreadInv, TypeOK
  <2> QED
    BY <2>1 DEF Deliveries
<1>5. CASE entry.reply # deliveries[d].reply /\ entry.reply = "exception"
  <2>1. AttemptInv'
    BY <1>3, <1>4, <1>5, FailureStep DEF ConnectionOf
  <2> QED
    BY <1>2, <2>1 DEF ReasonInv
<1>6. CASE entry.reply = deliveries[d].reply \/ entry.reply # "exception"
  <2>1. \A e \in DOMAIN deliveries :
            /\ deliveries'[e].message = deliveries[e].message
            /\ deliveries'[e].connection = deliveries[e].connection
            /\ deliveries'[e].reply = "exception" <=> deliveries[e].reply = "exception"
            /\ deliveries[e].reply = "success" => deliveries'[e].reply = "success"
    BY <1>1, <1>4, <1>6
  <2>2. \A k \in Links : Failures(top, k)' = Failures(top, k)
    BY <1>1, <2>1 DEF Failures, ConnectionOf
  <2>3. thread = "Query" => Current \in DOMAIN deliveries
    BY <1>3 DEF ReasonInv, DeliveryInv, ThreadInv, TypeOK, Current
  <2>4. \A k \in Links : Unrecorded(k)' <=> Unrecorded(k)
    BY <1>1, <2>1, <2>3 DEF Unrecorded, ConnectionOf
  <2>5. satisfied \subseteq Links
    BY <1>3 DEF TypeOK
  <2>6. AttemptInv'
    BY <1>1, <1>3, <2>1, <2>2, <2>4, <2>5, NoFailureStep
  <2> QED
    BY <1>2, <2>6 DEF ReasonInv
<1> QED
  BY <1>5, <1>6

\* The handler of a delivery, and the end of the wait for it.
LEMMA HandlerReasonStep ==
    ASSUME ReasonInv, DeliveryInv',
           QueryFails \/ \E d \in DOMAIN deliveries : Handler(d)
    PROVE  ReasonInv'
<1> USE DEF SetDelivery
<1>1. \A d \in DOMAIN deliveries : deliveries[d] \in Deliveries
  BY DEF ReasonInv, DeliveryInv, TypeOK
<1>2. CASE QueryFails
  <2> DEFINE entry == [deliveries[Current] EXCEPT !.reply = "exception"]
  <2>1. Current \in DOMAIN deliveries
    BY <1>2 DEF QueryFails, ReasonInv, DeliveryInv, ThreadInv, TypeOK, Current
  <2>2. deliveries' = [deliveries EXCEPT ![Current] = entry] /\ UNCHANGED queueVars
    BY <1>2 DEF QueryFails
  <2>3. /\ entry \in Deliveries /\ entry.message = deliveries[Current].message
        /\ entry.connection = deliveries[Current].connection
        /\ entry.reply = "exception" /\ deliveries[Current].reply = "waiting"
        /\ entry.handler = deliveries[Current].handler
        /\ entry.result = deliveries[Current].result
    BY <1>1, <1>2, <2>1 DEF QueryFails, Deliveries
  <2>4. entry.handler \in {"Reply", "Ended"} => entry.result # "none"
    BY <2>1, <2>3 DEF ReasonInv, ResultInv
  <2> HIDE DEF entry
  <2> QED
    BY <2>1, <2>2, <2>3, <2>4, EntryReasonStep
<1>3. ASSUME NEW d \in DOMAIN deliveries, MessageDeliveryQuery(d) PROVE ReasonInv'
  <2> DEFINE entry == [deliveries[d] EXCEPT !.handler = "OnReceived"]
  <2>1. deliveries' = [deliveries EXCEPT ![d] = entry] /\ UNCHANGED queueVars
    BY <1>3 DEF MessageDeliveryQuery
  <2>2. /\ entry \in Deliveries /\ entry.message = deliveries[d].message
        /\ entry.connection = deliveries[d].connection
        /\ entry.reply = deliveries[d].reply /\ entry.result = deliveries[d].result
        /\ entry.handler = "OnReceived"
    BY <1>1, <1>3 DEF Deliveries
  <2>3. entry.reply = "success" => entry.result \in {"returned", "emptyError"}
    BY <2>2 DEF ReasonInv, ResultInv
  <2> HIDE DEF entry
  <2> QED
    BY <2>1, <2>2, <2>3, EntryReasonStep
<1>4. ASSUME NEW d \in DOMAIN deliveries, OnReceivedEnds(d) PROVE ReasonInv'
  <2>1. PICK result \in {"returned", "error", "emptyError"} :
            deliveries' = [deliveries EXCEPT ![d].handler = "Reply", ![d].result = result]
    BY <1>4 DEF OnReceivedEnds
  <2> DEFINE entry == [deliveries[d] EXCEPT !.handler = "Reply", !.result = result]
  <2>2. deliveries' = [deliveries EXCEPT ![d] = entry] /\ UNCHANGED queueVars
    BY <1>4, <2>1 DEF OnReceivedEnds, ReasonInv, DeliveryInv, TypeOK
  <2>3. /\ entry \in Deliveries /\ entry.message = deliveries[d].message
        /\ entry.connection = deliveries[d].connection
        /\ entry.reply = deliveries[d].reply /\ entry.reply # "success"
        /\ entry.result # "none"
    BY <1>1, <1>4 DEF OnReceivedEnds, Deliveries, ReasonInv, DeliveryInv, EndedInv
  <2> HIDE DEF entry
  <2> QED
    BY <2>2, <2>3, EntryReasonStep
<1>5. ASSUME NEW d \in DOMAIN deliveries, Reply(d) PROVE ReasonInv'
  <2> DEFINE reply == IF deliveries[d].reply = "waiting" /\ ConnectionOf(d) \in open
                      THEN Reading(deliveries[d].result) ELSE deliveries[d].reply
             entry == [deliveries[d] EXCEPT !.handler = "Ended", !.reply = reply]
  <2>1. /\ reply \in {"success", "exception"} \/ reply = deliveries[d].reply
        /\ deliveries[d].result # "none"
    BY <1>5 DEF Reading, Reply, ReasonInv, ResultInv
  <2>2. reply # deliveries[d].reply => deliveries[d].reply = "waiting"
    OBVIOUS
  <2>3. deliveries' = [deliveries EXCEPT ![d] = entry] /\ UNCHANGED queueVars
    BY <1>5 DEF Reply, ReasonInv, DeliveryInv, TypeOK
  <2>4. deliveries[d].result \in {"none", "returned", "error", "emptyError"}
    BY <1>1 DEF Deliveries
  <2>5. reply = "success" => deliveries[d].result \in {"returned", "emptyError"}
    BY <2>1, <2>4 DEF Reading, ReasonInv, ResultInv
  <2> HIDE DEF reply
  <2>6. /\ entry \in Deliveries /\ entry.message = deliveries[d].message
        /\ entry.connection = deliveries[d].connection
        /\ entry.reply = reply /\ entry.result = deliveries[d].result
    BY <1>1, <2>1 DEF Deliveries
  <2> HIDE DEF entry
  <2> QED
    BY <2>1, <2>2, <2>3, <2>5, <2>6, EntryReasonStep
<1>6. ASSUME NEW d \in DOMAIN deliveries, QueryArrives(d) PROVE ReasonInv'
  <2> DEFINE entry == [deliveries[d] EXCEPT !.handler = "arrived"]
  <2>1. deliveries' = [deliveries EXCEPT ![d] = entry] /\ UNCHANGED queueVars
    BY <1>6 DEF QueryArrives
  <2>2. /\ entry \in Deliveries /\ entry.message = deliveries[d].message
        /\ entry.connection = deliveries[d].connection
        /\ entry.reply = deliveries[d].reply /\ entry.result = deliveries[d].result
        /\ entry.handler = "arrived"
    BY <1>1, <1>6 DEF Deliveries
  <2>3. entry.reply = "success" => entry.result \in {"returned", "emptyError"}
    BY <2>2 DEF ReasonInv, ResultInv
  <2> HIDE DEF entry
  <2> QED
    BY <2>1, <2>2, <2>3, EntryReasonStep
<1> QED
  BY <1>2, <1>3, <1>4, <1>5, <1>6 DEF Handler

\* The thread sends a query, and records how it ended.
LEMMA QueryReasonStep ==
    ASSUME ReasonInv, DeliveryInv',
           DeliveryRecorded \/ \E k \in Links : DeliverMessage(k)
    PROVE  ReasonInv'
<1>1. ASSUME NEW c \in Links, DeliverMessage(c) PROVE ReasonInv'
  <2> DEFINE entry == [message |-> top, connection |-> c, handler |-> "sent",
                       result |-> "none", reply |-> "waiting"]
  <2>1. /\ thread = "Deliver" /\ thread' = "Query"
        /\ deliveries' = Append(deliveries, entry)
        /\ UNCHANGED <<top, satisfied, attempts>>
    BY <1>1 DEF DeliverMessage, SendQuery
  <2>2. /\ deliveries \in Seq(Deliveries) /\ Current \in Nat
        /\ DOMAIN deliveries = 1..Current /\ satisfied \subseteq Links
    BY DEF ReasonInv, DeliveryInv, TypeOK, Current
  <2>3. entry.reply = "waiting" /\ entry.handler = "sent"
    OBVIOUS
  <2> HIDE DEF entry
  <2>4. /\ Current' = Current + 1
        /\ DOMAIN deliveries' = 1..(Current + 1)
        /\ deliveries'[Current + 1] = entry
        /\ \A d \in 1..Current : deliveries'[d] = deliveries[d]
    BY <2>1, <2>2 DEF Current
  <2>5. ResultInv'
    BY <2>2, <2>3, <2>4 DEF ReasonInv, ResultInv
  <2>6. \A k \in Links : Failures(top, k)' = Failures(top, k)
    BY <2>1, <2>2, <2>3, <2>4 DEF Failures, ConnectionOf
  <2>7. \A k \in Links : ~Unrecorded(k) /\ ~Unrecorded(k)'
    BY <2>1, <2>3, <2>4 DEF Unrecorded
  <2>8. \A d \in DOMAIN deliveries :
            d \in DOMAIN deliveries' /\ deliveries'[d] = deliveries[d]
    BY <2>2, <2>4
  <2>9. AttemptInv'
    BY <2>1, <2>2, <2>6, <2>7, <2>8, NoFailureStep DEF ReasonInv
  <2> QED
    BY <2>5, <2>9 DEF ReasonInv
<1>2. CASE DeliveryRecorded
  <2>1. /\ deliveries \in Seq(Deliveries) /\ Current \in DOMAIN deliveries
        /\ deliveries[Current].message = top
    BY <1>2 DEF DeliveryRecorded, ReasonInv, DeliveryInv, ThreadInv, TypeOK, Current
  <2>2. PICK c \in Links : c = ConnectionOf(Current)
    <3>1. deliveries[Current] \in Deliveries
      BY <2>1
    <3> QED
      BY <3>1 DEF Deliveries, ConnectionOf
  <2>3. deliveries[Current].reply \in {"success", "exception"}
    <3>1. deliveries[Current] \in Deliveries
      BY <2>1
    <3> QED
      BY <1>2, <3>1 DEF Deliveries, DeliveryRecorded
  <2>4. /\ thread = "Query" /\ thread' = "Deliver"
        /\ attempts' = [attempts EXCEPT ![c] = @ + 1]
        /\ satisfied' = satisfied \cup
               (IF deliveries[Current].reply = "success" \/ GivenUp(attempts'[c])
                THEN {c} ELSE {})
        /\ UNCHANGED <<top, deliveries>>
    BY <1>2, <2>2 DEF DeliveryRecorded
  <2>5. ResultInv'
    BY <2>4 DEF ReasonInv, ResultInv
  <2>6. attempts \in [Links -> Nat] /\ attempts'[c] = attempts[c] + 1
    BY <2>4 DEF ReasonInv, DeliveryInv, TypeOK
  <2>7. \A k \in Links : Failures(top, k)' = Failures(top, k)
    BY <2>4 DEF Failures, ConnectionOf
  <2>8. /\ \A k \in Links : ~Unrecorded(k)'
        /\ \A k \in Links :
               Unrecorded(k) <=> k = c /\ deliveries[Current].reply = "exception"
    BY <2>2, <2>4 DEF Unrecorded
  <2>9. c \notin satisfied /\ deliveries[Current].reply = "exception" =>
            Cardinality(Failures(top, c)) = attempts'[c]
    BY <2>6, <2>8 DEF ReasonInv, AttemptInv
  <2>10. \A k \in satisfied' :
            \/ GivenUp(Cardinality(Failures(top, k)))'
            \/ Acknowledged(top, k)'
    <3> SUFFICES ASSUME NEW k \in satisfied'
                 PROVE  \/ GivenUp(Cardinality(Failures(top, k)))'
                        \/ Acknowledged(top, k)'
      OBVIOUS
    <3>1. k \in Links /\ (k \in satisfied \/ k = c)
      BY <2>4 DEF ReasonInv, DeliveryInv, TypeOK
    <3>2. GivenUp(Cardinality(Failures(top, k)))' <=> GivenUp(Cardinality(Failures(top, k)))
      BY <2>7, <3>1 DEF GivenUp
    <3>3. CASE k \in satisfied
      BY <2>4, <3>2, <3>3 DEF ReasonInv, AttemptInv, Acknowledged, ConnectionOf
    <3>4. CASE k \notin satisfied /\ deliveries[Current].reply = "success"
      BY <2>1, <2>2, <2>4, <3>1, <3>4 DEF Acknowledged, ConnectionOf
    <3>5. CASE k \notin satisfied /\ deliveries[Current].reply = "exception"
      <4>1. k = c /\ GivenUp(attempts'[c])
        BY <2>4, <3>1, <3>5
      <4> QED
        BY <2>9, <3>2, <3>5, <4>1
    <3> QED
      BY <2>3, <3>3, <3>4, <3>5
  <2>11. \A k \in Links \ satisfied' :
            /\ ~GivenUp(attempts[k])'
            /\ Cardinality(Failures(top, k))' = attempts'[k] + IF Unrecorded(k)' THEN 1 ELSE 0
    <3> SUFFICES ASSUME NEW k \in Links \ satisfied'
                 PROVE  /\ ~GivenUp(attempts[k])'
                    /\ Cardinality(Failures(top, k))'
                            = attempts'[k] + IF Unrecorded(k)' THEN 1 ELSE 0
      OBVIOUS
    <3>1. k \in Links \ satisfied /\ attempts[k] \in Nat /\ attempts'[k] \in Nat
      BY <2>4, <2>6
    <3>2. Cardinality(Failures(top, k))' = Cardinality(Failures(top, k))
      BY <2>7
    <3>3. CASE k = c
      <4>1. deliveries[Current].reply = "exception"
        BY <2>3, <2>4, <3>3
      <4>2. ~GivenUp(attempts[k])'
        BY <2>4, <3>3 DEF GivenUp
      <4> QED
        BY <2>8, <2>9, <3>1, <3>2, <3>3, <4>1, <4>2
    <3>4. CASE k # c
      <4>1. attempts'[k] = attempts[k] /\ ~Unrecorded(k)
        BY <2>4, <2>6, <2>8, <3>4
      <4>2. ~GivenUp(attempts[k])'
        BY <3>1, <4>1 DEF ReasonInv, AttemptInv, GivenUp
      <4> QED
        BY <2>8, <3>1, <3>2, <4>1, <4>2 DEF ReasonInv, AttemptInv
    <3> QED
      BY <3>3, <3>4
  <2> QED
    BY <2>5, <2>10, <2>11 DEF ReasonInv, AttemptInv
<1> QED
  BY <1>1, <1>2

\* A message that leaves the queue has its reason, and the next one starts
\* without deliveries.
LEMMA RemoveReasonStep ==
    ASSUME ReasonInv, DeliveryInv', RemoveMessage
    PROVE  /\ ReasonInv'
           /\ top' # top =>
                 \A k \in subscribed :
                    \/ \E d \in DOMAIN deliveries :
                          /\ deliveries[d].message = top /\ ConnectionOf(d) = k
                          /\ deliveries[d].result \in {"returned", "emptyError"}
                    \/ GivenUp(Cardinality(Failures(top, k)))
<1>1. /\ thread = "Deliver" /\ thread' = "Loop" /\ UNCHANGED deliveries
      /\ satisfied \subseteq Links /\ top \in Nat
  BY DeliveryAssumption DEF RemoveMessage, ReasonInv, DeliveryInv, TypeOK
<1>2. ResultInv'
  BY <1>1 DEF ReasonInv, ResultInv
<1>3. CASE UNCHANGED <<top, satisfied, attempts>>
  <2>1. \A k \in Links : Failures(top, k)' = Failures(top, k)
    BY <1>1, <1>3 DEF Failures, ConnectionOf
  <2>2. \A k \in Links : ~Unrecorded(k) /\ ~Unrecorded(k)'
    BY <1>1 DEF Unrecorded
  <2>3. AttemptInv'
    BY <1>1, <1>3, <2>1, <2>2, NoFailureStep DEF ReasonInv
  <2> QED
    BY <1>2, <1>3, <2>3 DEF ReasonInv
<1>4. CASE /\ subscribed \subseteq satisfied
           /\ top' = top + 1 /\ satisfied' = {} /\ attempts' = [k \in Links |-> 0]
  <2>1. \A d \in DOMAIN deliveries : deliveries[d].message # top'
    <3>1. deliveries \in Seq(Deliveries)
      BY DEF ReasonInv, DeliveryInv, TypeOK
    <3>2. \A d \in DOMAIN deliveries : deliveries[d] \in Deliveries
      BY <3>1
    <3>3. \A d \in DOMAIN deliveries : deliveries[d].message \in 1..NumMessages
      BY <3>2 DEF Deliveries
    <3>4. \A d \in DOMAIN deliveries : deliveries[d].message <= top
      BY DEF ReasonInv, DeliveryInv, RecordInv
    <3> QED
      BY <1>1, <1>4, <3>3, <3>4, DeliveryAssumption
  <2>2. \A k \in Links : Failures(top, k)' = {}
    BY <1>1, <2>1 DEF Failures
  <2>3. \A k \in Links : Cardinality(Failures(top, k))' = 0 /\ ~Unrecorded(k)'
    BY <1>1, <2>2, FS_EmptySet DEF Unrecorded
  <2>4. AttemptInv'
    BY <1>4, <2>3, DeliveryAssumption DEF AttemptInv, GivenUp
  <2>5. ASSUME NEW k \in subscribed
        PROVE  \/ \E d \in DOMAIN deliveries :
                     /\ deliveries[d].message = top /\ ConnectionOf(d) = k
                     /\ deliveries[d].result \in {"returned", "emptyError"}
               \/ GivenUp(Cardinality(Failures(top, k)))
    BY <1>4 DEF ReasonInv, AttemptInv, ResultInv, Acknowledged
  <2> QED
    BY <1>2, <2>4, <2>5 DEF ReasonInv
<1> QED
  BY <1>3, <1>4 DEF RemoveMessage

\* Steps that leave deliveries, records and the wait of the thread alone.
LEMMA OtherReasonStep ==
    ASSUME ReasonInv, DeliveryInv', UNCHANGED <<top, satisfied, attempts, deliveries>>,
           UNCHANGED thread \/ Scan
    PROVE  ReasonInv'
<1>1. thread' = "Query" <=> thread = "Query"
  BY DEF Scan
<1>2. \A k \in Links : Failures(top, k)' = Failures(top, k)
  BY DEF Failures, ConnectionOf
<1>3. \A k \in Links : Unrecorded(k)' <=> Unrecorded(k)
  BY <1>1 DEF Unrecorded, ConnectionOf, Current
<1>4. satisfied \subseteq Links
  BY DEF ReasonInv, DeliveryInv, TypeOK
<1>5. AttemptInv'
  BY <1>2, <1>3, <1>4, NoFailureStep DEF ReasonInv
<1> QED
  BY <1>5 DEF ReasonInv, ResultInv

\* The invariant holds throughout.
LEMMA ReasonInvariance == Spec => []ReasonInv
<1>1. Init => ResultInv /\ AttemptInv
  <2> SUFFICES ASSUME Init PROVE ResultInv /\ AttemptInv
    OBVIOUS
  <2>1. DOMAIN deliveries = {} /\ satisfied = {} /\ attempts = [k \in Links |-> 0]
    BY DEF Init
  <2>2. \A k \in Links : Failures(top, k) = {} /\ ~Unrecorded(k)
    BY <2>1 DEF Init, Failures, Unrecorded
  <2>3. \A k \in Links : Cardinality(Failures(top, k)) = 0
    BY <2>2, FS_EmptySet
  <2> QED
    BY <2>1, <2>2, <2>3, DeliveryAssumption DEF ResultInv, AttemptInv, GivenUp
<1>2. ReasonInv /\ DeliveryInv' /\ [Next]_vars => ReasonInv'
  <2> SUFFICES ASSUME ReasonInv, DeliveryInv', [Next]_vars PROVE ReasonInv'
    OBVIOUS
  <2>1. CASE ClientStep \/ UNCHANGED vars
    BY <2>1, OtherReasonStep DEF ClientStep, deliveryVars, queueVars, vars
  <2>2. ASSUME NEW k \in Links, Subscribe(k) \/ RmServer_OnDisconnected(k)
        PROVE  ReasonInv'
    BY <2>2, OtherReasonStep DEF Subscribe, RmServer_OnDisconnected
  <2>3. CASE Scan
    BY <2>3, OtherReasonStep DEF Scan
  <2> QED
    BY <2>1, <2>2, <2>3, HandlerReasonStep, QueryReasonStep, RemoveReasonStep
       DEF Next, DeliveryThread
<1> QED
  BY <1>1, <1>2, DeliveryInvariance, PTL DEF Spec, ReasonInv

\* When a message leaves the queue there is, for each subscriber, a reason that
\* can be told from its deliveries: OnReceived returned or threw an exception
\* without text, or as many deliveries failed as are allowed
\* (MessageQueue.cs:183-187, 208-212, MqServer.cs:335).
THEOREM ReasonToLeave == Spec => LeavesForAReason
<1>1. ReasonInv /\ DeliveryInv' /\ [Next]_vars =>
         [top' # top =>
             \A k \in subscribed :
                \/ \E d \in DOMAIN deliveries :
                      /\ deliveries[d].message = top /\ ConnectionOf(d) = k
                      /\ deliveries[d].result \in {"returned", "emptyError"}
                \/ GivenUp(Cardinality(Failures(top, k)))]_vars
  <2> SUFFICES ASSUME ReasonInv, DeliveryInv', Next, top' # top PROVE
             \A k \in subscribed :
                \/ \E d \in DOMAIN deliveries :
                      /\ deliveries[d].message = top /\ ConnectionOf(d) = k
                      /\ deliveries[d].result \in {"returned", "emptyError"}
                \/ GivenUp(Cardinality(Failures(top, k)))
    OBVIOUS
  <2>1. RemoveMessage
    BY DEF Next, ClientStep, DeliveryThread, Scan, QueryFails, DeliveryRecorded,
           DeliverMessage, Subscribe, RmServer_OnDisconnected, Handler,
           QueryArrives, MessageDeliveryQuery, OnReceivedEnds, Reply, deliveryVars, queueVars
  <2> QED
    BY <2>1, RemoveReasonStep
<1> QED
  BY <1>1, ReasonInvariance, DeliveryInvariance, PTL DEF Spec, LeavesForAReason
=============================================================================
