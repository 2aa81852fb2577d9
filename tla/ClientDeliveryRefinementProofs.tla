------------------- MODULE ClientDeliveryRefinementProofs -------------------
(***************************************************************************)
(* ClientDelivery implements QueueContract, for all constants: each step   *)
(* is a step of the contract or changes nothing the contract sees.         *)
(*                                                                         *)
(* The queue decides by satisfied and attempts, which it drops with the    *)
(* message, the contract by the deliveries made and acknowledged: the      *)
(* invariants of ClientDeliveryProofs say that these agree.                *)
(***************************************************************************)
EXTENDS ClientDeliveryRefinement, ClientDeliveryProofs, SequenceTheorems

\* The deliveries of a message to a connection can be counted, and there are no
\* more of them than deliveries.
LEMMA OffersFinite ==
    ASSUME TypeOK, NEW m, NEW k
    PROVE  /\ IsFiniteSet(Offers(m, k))
           /\ Cardinality(Offers(m, k)) \in Nat /\ Cardinality(Offers(m, k)) <= Current
<1>1. DOMAIN deliveries = 1..Current /\ Current \in Nat
  BY DEF TypeOK, Current
<1>2. IsFiniteSet(1..Current) /\ Cardinality(1..Current) = Current
  BY <1>1, FS_Interval
<1>3. Offers(m, k) \subseteq 1..Current
  BY <1>1 DEF Offers
<1> QED
  BY <1>2, <1>3, FS_Subset, FS_CardinalityType

\* What the contract reads off the deliveries.
LEMMA ContractState ==
    ASSUME NEW m \in 1..NumMessages, NEW k \in Links
    PROVE  Contract!Settled(m, k) <=>
               Acknowledged(m, k) \/ GivenUp(Cardinality(Offers(m, k)))
  BY DEF Contract!Settled, Received, OffersMade, GivenUp

\* Between offers the satisfied subscribers are those the contract calls settled:
\* a connection that is not satisfied has seen nothing but failures.
LEMMA SatisfiedIsSettled ==
    ASSUME ReasonInv, thread # "Query", top <= NumMessages, NEW k \in Links
    PROVE  k \in satisfied <=> Contract!Settled(top, k)
<1>1. top \in 1..NumMessages /\ \A d \in DOMAIN deliveries : deliveries[d] \in Deliveries
  BY DeliveryAssumption DEF ReasonInv, DeliveryInv, TypeOK
<1>2. /\ Cardinality(Offers(top, k)) \in Nat /\ IsFiniteSet(Offers(top, k))
      /\ Cardinality(Failures(top, k)) \in Nat
  BY OffersFinite, FailuresFinite DEF ReasonInv, DeliveryInv
<1>3. ASSUME k \in satisfied
      PROVE  Acknowledged(top, k) \/ GivenUp(Cardinality(Offers(top, k)))
  <2>1. Failures(top, k) \subseteq Offers(top, k)
    BY DEF Failures, Offers
  <2>2. Cardinality(Failures(top, k)) <= Cardinality(Offers(top, k))
    BY <1>2, <2>1, FS_Subset
  <2>3. GivenUp(Cardinality(Failures(top, k))) => GivenUp(Cardinality(Offers(top, k)))
    BY <1>2, <2>2, GivenUpMonotone
  <2> QED
    BY <1>3, <2>3 DEF ReasonInv, AttemptInv
<1>4. ASSUME k \notin satisfied
      PROVE  ~Acknowledged(top, k) /\ ~GivenUp(Cardinality(Offers(top, k)))
  <2>1. ~Acknowledged(top, k)
    BY <1>4 DEF Acknowledged, ReasonInv, DeliveryInv, RecordInv
  <2>2. \A d \in DOMAIN deliveries : deliveries[d].reply \in {"success", "exception"}
    BY <1>1 DEF ReasonInv, DeliveryInv, TypeOK, Deliveries
  <2>3. Offers(top, k) = Failures(top, k)
    BY <2>1, <2>2 DEF Offers, Failures, Acknowledged
  <2>4. Cardinality(Failures(top, k)) = attempts[k] /\ ~GivenUp(attempts[k])
    <3>1. ~Unrecorded(k) /\ attempts[k] \in Nat
      BY DEF Unrecorded, ReasonInv, DeliveryInv, TypeOK
    <3> QED
      BY <1>4, <3>1 DEF ReasonInv, AttemptInv
  <2> QED
    BY <2>1, <2>3, <2>4
<1> QED
  BY <1>1, <1>3, <1>4, ContractState

\* What the contract sees of the deliveries changes only with them.
LEMMA DeliveriesUnseen ==
    ASSUME TypeOK,
           DOMAIN deliveries' = DOMAIN deliveries,
           \A d \in DOMAIN deliveries :
               /\ deliveries'[d].message = deliveries[d].message
               /\ deliveries'[d].connection = deliveries[d].connection
    PROVE  UNCHANGED OffersMade
<1>1. \A m \in 1..NumMessages, k \in Links : Offers(m, k)' = Offers(m, k)
  BY DEF Offers, ConnectionOf
<1> QED
  BY <1>1 DEF OffersMade

\* Steps of which the contract sees at most that who is subscribed has changed.
LEMMA SubscriptionStep ==
    ASSUME TypeOK, UNCHANGED <<top, thread, owed, deliveries>>,
           subscribed' \subseteq Links
    PROVE  Contract!Subscription
<1>1. UNCHANGED <<Remaining, Serving, Offering, OffersMade, Received>>
  BY DEF Remaining, Serving, Offering, Waiting, Current, ConnectionOf, OffersMade,
         Offers, Received, Acknowledged
<1> QED
  BY <1>1 DEF Contract!Subscription

\* Scan begins a round.
LEMMA TakeStep ==
    ASSUME ReasonInv, Scan
    PROVE  Contract!Take
<1>1. /\ thread = "Loop" /\ thread' = "Deliver" /\ subscribed # {}
      /\ owed' = subscribed \ satisfied /\ subscribed \subseteq Links
      /\ UNCHANGED <<top, subscribed, deliveries>>
      /\ top \in 1..NumMessages
  BY DeliveryAssumption DEF Scan, ReasonInv, DeliveryInv, TypeOK
<1>2. /\ Remaining' = Remaining /\ Remaining \in Seq(Nat)
      /\ Len(Remaining) = NumMessages + 1 - top /\ Head(Remaining) = top
      /\ Remaining # <<>>
  BY <1>1, DeliveryAssumption DEF Remaining
<1>3. Serving = 0 /\ Serving' = top
  BY <1>1 DEF Serving
<1>4. UNCHANGED <<Offering, OffersMade, Received>>
  BY <1>1 DEF Offering, Waiting, OffersMade, Offers, Received, Acknowledged, ConnectionOf
<1>5. owed' = { k \in subscribed : ~Contract!Settled(top, k) }
  BY <1>1, SatisfiedIsSettled
<1> QED
  BY <1>1, <1>2, <1>3, <1>4, <1>5 DEF Contract!Take, Contract!DropExpired

\* DeliverMessage is an offer.
LEMMA OfferStep ==
    ASSUME ReasonInv, NEW c \in Links, DeliverMessage(c)
    PROVE  Contract!Offer(c)
<1> DEFINE entry == [message |-> top, connection |-> c, handler |-> "sent",
                     result |-> "none", reply |-> "waiting"]
<1>1. /\ thread = "Deliver" /\ thread' = "Query" /\ c \in owed /\ owed' = owed \ {c}
      /\ deliveries' = Append(deliveries, entry) /\ Current < MaxDeliveries
      /\ UNCHANGED <<top, subscribed>>
  BY DEF DeliverMessage, SendQuery
<1>2. /\ deliveries \in Seq(Deliveries) /\ Current \in Nat
      /\ DOMAIN deliveries = 1..Current /\ top \in 1..NumMessages
  BY <1>1, DeliveryAssumption DEF ReasonInv, DeliveryInv, TypeOK, ThreadInv, Current
<1>3. entry.reply = "waiting" /\ entry.message = top /\ entry.connection = c
  OBVIOUS
<1> HIDE DEF entry
<1>4. /\ Current' = Current + 1 /\ DOMAIN deliveries' = 1..(Current + 1)
      /\ deliveries'[Current + 1] = entry
      /\ \A d \in 1..Current : deliveries'[d] = deliveries[d]
  BY <1>1, <1>2 DEF Current
<1>5. \A m \in 1..NumMessages, k \in Links :
          /\ m = top /\ k = c => Offers(m, k)' = Offers(m, k) \cup {Current + 1}
          /\ ~(m = top /\ k = c) => Offers(m, k)' = Offers(m, k)
  BY <1>2, <1>3, <1>4 DEF Offers, ConnectionOf
<1>6. /\ IsFiniteSet(Offers(top, c)) /\ Cardinality(Offers(top, c)) \in Nat
      /\ Cardinality(Offers(top, c)) < MaxDeliveries + 1 /\ Current + 1 \notin Offers(top, c)
  <2>1. TypeOK
    BY DEF ReasonInv, DeliveryInv
  <2>2. /\ IsFiniteSet(Offers(top, c)) /\ Cardinality(Offers(top, c)) \in Nat
        /\ Cardinality(Offers(top, c)) <= Current
    BY <2>1, OffersFinite
  <2> QED
    BY <1>1, <1>2, <2>2, DeliveryAssumption DEF Offers
<1>7. OffersMade' = [OffersMade EXCEPT ![top][c] =
                         IF @ < MaxDeliveries + 1 THEN @ + 1 ELSE @]
  <2>1. PICK t \in 1..NumMessages : t = top
    BY <1>2
  <2>2. Cardinality(Offers(t, c))' = Cardinality(Offers(t, c)) + 1
    <3>1. Offers(t, c)' = Offers(t, c) \cup {Current + 1}
      BY <1>5, <2>1
    <3>2. Cardinality(Offers(t, c) \cup {Current + 1}) = Cardinality(Offers(t, c)) + 1
      BY <1>6, <2>1, FS_AddElement
    <3> QED
      BY <3>1, <3>2
  <2>3. ASSUME NEW m \in 1..NumMessages, NEW k \in Links
        PROVE  Cardinality(Offers(m, k))' = Cardinality(Offers(m, k))
                                                + IF m = t /\ k = c THEN 1 ELSE 0
    <3>1. CASE m = t /\ k = c
      BY <2>2, <3>1
    <3>2. CASE ~(m = t /\ k = c)
      <4>1. Offers(m, k)' = Offers(m, k)
        BY <1>5, <2>1, <3>2
      <4>2. Cardinality(Offers(m, k)) \in Nat
        BY OffersFinite DEF ReasonInv, DeliveryInv
      <4>3. Cardinality(Offers(m, k))' = Cardinality(Offers(m, k))
        BY <4>1
      <4> QED
        BY <3>2, <4>2, <4>3
    <3> QED
      BY <3>1, <3>2
  <2>4. PICK before : before = OffersMade
    OBVIOUS
  <2>5. PICK after : after = OffersMade'
    OBVIOUS
  <2>6. \A m \in 1..NumMessages, k \in Links :
            before[m][k] = Cardinality(Offers(m, k)) /\ before[m][k] \in Nat
    BY <2>4, OffersFinite DEF OffersMade, ReasonInv, DeliveryInv
  <2>7. /\ before = [m \in 1..NumMessages |-> [k \in Links |-> before[m][k]]]
        /\ after = [m \in 1..NumMessages |-> [k \in Links |-> after[m][k]]]
    BY <2>4, <2>5 DEF OffersMade
  <2>8. \A m \in 1..NumMessages, k \in Links :
            after[m][k] = before[m][k] + IF m = t /\ k = c THEN 1 ELSE 0
    BY <2>3, <2>5, <2>6 DEF OffersMade
  <2>9. after = [before EXCEPT ![t] = [before[t] EXCEPT ![c] = before[t][c] + 1]]
    <3>1. after[t] = [before[t] EXCEPT ![c] = before[t][c] + 1]
      BY <2>6, <2>7, <2>8
    <3>2. ASSUME NEW m \in 1..NumMessages, m # t PROVE after[m] = before[m]
      BY <2>6, <2>7, <2>8, <3>2
    <3> QED
      BY <2>7, <3>1, <3>2
  <2>10. before[t][c] < MaxDeliveries + 1
    BY <1>6, <2>1, <2>6
  <2> QED
    BY <2>1, <2>4, <2>5, <2>9, <2>10
<1>8. UNCHANGED Received
  <2>1. \A d \in DOMAIN deliveries' : deliveries'[d].reply = "success" =>
            d \in DOMAIN deliveries /\ deliveries'[d] = deliveries[d]
    BY <1>2, <1>3, <1>4
  <2>2. \A m \in 1..NumMessages, k \in Links : Acknowledged(m, k)' <=> Acknowledged(m, k)
    BY <1>2, <1>4, <2>1 DEF Acknowledged, ConnectionOf
  <2> QED
    BY <2>2 DEF Received
<1>9. Offering = 0 /\ Offering' = c
  BY <1>1, <1>3, <1>4 DEF Offering, Waiting, ConnectionOf
<1>10. Serving = top /\ Serving' = top /\ top # 0 /\ UNCHANGED Remaining
  BY <1>1, <1>2 DEF Serving, Remaining
<1> QED
  BY <1>1, <1>7, <1>8, <1>9, <1>10 DEF Contract!Offer

\* A step of a handler on the client, or the end of the wait: it acknowledges the
\* open offer, makes it fail, or is not seen.
LEMMA EntryRefines ==
    ASSUME ReasonInv, UNCHANGED queueVars,
           NEW d \in DOMAIN deliveries, NEW entry \in Deliveries,
           deliveries' = [deliveries EXCEPT ![d] = entry],
           entry.message = deliveries[d].message,
           entry.connection = deliveries[d].connection,
           entry.reply # deliveries[d].reply => deliveries[d].reply = "waiting"
    PROVE  Contract!Acknowledge(FALSE) \/ Contract!Fail \/ UNCHANGED Contract!vars
<1> USE DEF queueVars
<1>1. /\ Current' = Current
      /\ DOMAIN deliveries' = DOMAIN deliveries
      /\ deliveries'[d] = entry
      /\ \A e \in DOMAIN deliveries : e # d => deliveries'[e] = deliveries[e]
  BY EntryChanged DEF ReasonInv, DeliveryInv, TypeOK
<1>2. \A e \in DOMAIN deliveries :
          /\ deliveries'[e].message = deliveries[e].message
          /\ deliveries'[e].connection = deliveries[e].connection
          /\ e # d => deliveries'[e].reply = deliveries[e].reply
  BY <1>1
<1>3. UNCHANGED <<OffersMade, Remaining, Serving>>
  BY <1>1, <1>2, DeliveriesUnseen DEF ReasonInv, DeliveryInv, Remaining, Serving
<1>4. thread = "Query" => Current \in DOMAIN deliveries
  BY DEF ReasonInv, DeliveryInv, ThreadInv, TypeOK, Current
<1>5. CASE entry.reply = deliveries[d].reply
  <2>1. \A e \in DOMAIN deliveries : deliveries'[e].reply = deliveries[e].reply
    BY <1>1, <1>5
  <2>2. UNCHANGED Received
    BY <1>1, <1>2, <2>1 DEF Received, Acknowledged, ConnectionOf
  <2>3. UNCHANGED Offering
    BY <1>1, <1>2, <1>4, <2>1 DEF Offering, Waiting, ConnectionOf
  <2> QED
    BY <1>3, <2>2, <2>3 DEF Contract!vars
<1>6. CASE entry.reply # deliveries[d].reply
  <2>1. /\ d = Current /\ thread = "Query" /\ deliveries[d].reply = "waiting"
        /\ deliveries[d].message = top /\ entry.reply \in {"success", "exception"}
    BY <1>6 DEF ReasonInv, DeliveryInv, TypeOK, ThreadInv, Deliveries
  <2>2. PICK c \in Links : c = ConnectionOf(d)
    <3>1. deliveries[d] \in Deliveries
      BY DEF ReasonInv, DeliveryInv, TypeOK
    <3> QED
      BY <3>1 DEF Deliveries, ConnectionOf
  <2>3. Offering = c /\ c # 0 /\ Offering' = 0
    BY <1>1, <2>1, <2>2 DEF Offering, Waiting, Links
  <2>4. Serving = top /\ top \in 1..NumMessages
    BY <2>1, DeliveryAssumption DEF Serving, ReasonInv, DeliveryInv, TypeOK, ThreadInv
  <2>5. CASE entry.reply = "exception"
    <3>1. UNCHANGED Received
      BY <1>1, <1>2, <2>1, <2>5 DEF Received, Acknowledged, ConnectionOf
    <3> QED
      BY <1>3, <2>3, <3>1 DEF Contract!Fail
  <2>6. CASE entry.reply = "success"
    <3>1. \A m \in 1..NumMessages, k \in Links :
              Acknowledged(m, k)' <=> Acknowledged(m, k) \/ (m = top /\ k = c)
      BY <1>1, <1>2, <2>1, <2>2, <2>6 DEF Acknowledged, ConnectionOf
    <3>2. Received' = [Received EXCEPT ![top] = @ \cup {c}]
      BY <2>2, <2>4, <3>1 DEF Received
    <3>3. [m \in 1..NumMessages |-> {}] =
              [[m \in 1..NumMessages |-> {}] EXCEPT ![top] = @]
      BY <2>4
    <3> QED
      BY <1>3, <2>3, <2>4, <3>2, <3>3 DEF Contract!Acknowledge
  <2> QED
    BY <2>1, <2>5, <2>6
<1> QED
  BY <1>5, <1>6

\* QueryFails and the handlers on the client.
LEMMA HandlerRefines ==
    ASSUME ReasonInv, QueryFails \/ \E d \in DOMAIN deliveries : Handler(d)
    PROVE  Contract!Acknowledge(FALSE) \/ Contract!Fail \/ UNCHANGED Contract!vars
<1>1. \A d \in DOMAIN deliveries : deliveries[d] \in Deliveries
  BY DEF ReasonInv, DeliveryInv, TypeOK
<1>2. CASE QueryFails
  <2> DEFINE entry == [deliveries[Current] EXCEPT !.reply = "exception"]
  <2>1. Current \in DOMAIN deliveries
    BY <1>2 DEF QueryFails, ReasonInv, DeliveryInv, ThreadInv, TypeOK, Current
  <2>2. deliveries' = [deliveries EXCEPT ![Current] = entry] /\ UNCHANGED queueVars
    BY <1>2 DEF QueryFails, SetDelivery
  <2>3. /\ entry \in Deliveries /\ entry.message = deliveries[Current].message
        /\ entry.connection = deliveries[Current].connection
        /\ deliveries[Current].reply = "waiting"
    BY <1>1, <1>2, <2>1 DEF QueryFails, Deliveries
  <2> HIDE DEF entry
  <2> QED
    BY <2>1, <2>2, <2>3, EntryRefines
<1>3. ASSUME NEW d \in DOMAIN deliveries, Handler(d)
      PROVE  \E entry \in Deliveries :
                 /\ deliveries' = [deliveries EXCEPT ![d] = entry] /\ UNCHANGED queueVars
                 /\ entry.message = deliveries[d].message
                 /\ entry.connection = deliveries[d].connection
                 /\ entry.reply # deliveries[d].reply => deliveries[d].reply = "waiting"
  <2>1. CASE MessageDeliveryQuery(d)
    <3> DEFINE entry == [deliveries[d] EXCEPT !.handler = "OnReceived"]
    <3>1. deliveries' = [deliveries EXCEPT ![d] = entry] /\ UNCHANGED queueVars
      BY <2>1 DEF MessageDeliveryQuery, SetDelivery
    <3>2. /\ entry \in Deliveries /\ entry.message = deliveries[d].message
          /\ entry.connection = deliveries[d].connection
          /\ entry.reply = deliveries[d].reply
      BY <1>1 DEF Deliveries
    <3> QED
      BY <3>1, <3>2
  <2>2. CASE OnReceivedEnds(d)
    <3>1. PICK result \in {"returned", "error", "emptyError"} :
              deliveries' = [deliveries EXCEPT ![d].handler = "Reply", ![d].result = result]
      BY <2>2 DEF OnReceivedEnds
    <3> DEFINE entry == [deliveries[d] EXCEPT !.handler = "Reply", !.result = result]
    <3>2. deliveries' = [deliveries EXCEPT ![d] = entry] /\ UNCHANGED queueVars
      BY <2>2, <3>1 DEF OnReceivedEnds, ReasonInv, DeliveryInv, TypeOK
    <3>3. /\ entry \in Deliveries /\ entry.message = deliveries[d].message
          /\ entry.connection = deliveries[d].connection
          /\ entry.reply = deliveries[d].reply
      BY <1>1 DEF Deliveries
    <3> QED
      BY <3>2, <3>3
  <2>3. CASE Reply(d)
    <3> DEFINE reply == IF deliveries[d].reply = "waiting" /\ ConnectionOf(d) \in open
                        THEN Reading(deliveries[d].result) ELSE deliveries[d].reply
               entry == [deliveries[d] EXCEPT !.handler = "Ended", !.reply = reply]
    <3>1. reply \in {"success", "exception"} \/ reply = deliveries[d].reply
      BY DEF Reading
    <3>2. reply # deliveries[d].reply => deliveries[d].reply = "waiting"
      OBVIOUS
    <3>3. deliveries' = [deliveries EXCEPT ![d] = entry] /\ UNCHANGED queueVars
      BY <2>3 DEF Reply, ReasonInv, DeliveryInv, TypeOK
    <3> HIDE DEF reply
    <3>4. /\ entry \in Deliveries /\ entry.message = deliveries[d].message
          /\ entry.connection = deliveries[d].connection /\ entry.reply = reply
      BY <1>1, <3>1 DEF Deliveries
    <3> QED
      BY <3>2, <3>3, <3>4
  <2>4. CASE QueryArrives(d)
    <3> DEFINE entry == [deliveries[d] EXCEPT !.handler = "arrived"]
    <3>1. deliveries' = [deliveries EXCEPT ![d] = entry] /\ UNCHANGED queueVars
      BY <2>4 DEF QueryArrives, SetDelivery
    <3>2. /\ entry \in Deliveries /\ entry.message = deliveries[d].message
          /\ entry.connection = deliveries[d].connection
          /\ entry.reply = deliveries[d].reply
      BY <1>1 DEF Deliveries
    <3> QED
      BY <3>1, <3>2
  <2> QED
    BY <1>3, <2>1, <2>2, <2>3, <2>4 DEF Handler
<1>4. ASSUME NEW d \in DOMAIN deliveries, Handler(d)
      PROVE  Contract!Acknowledge(FALSE) \/ Contract!Fail \/ UNCHANGED Contract!vars
  BY <1>3, <1>4, EntryRefines
<1> QED
  BY <1>2, <1>4

\* The record of a delivery is not seen: its offer ended with the wait.
LEMMA RecordRefines ==
    ASSUME ReasonInv, DeliveryRecorded
    PROVE  UNCHANGED Contract!vars
<1>1. /\ thread = "Query" /\ thread' = "Deliver" /\ ~Waiting
      /\ UNCHANGED <<top, subscribed, owed, deliveries>>
  BY DEF DeliveryRecorded, Waiting
<1>2. UNCHANGED <<OffersMade, Received, Remaining>>
  BY <1>1 DEF OffersMade, Offers, Received, Acknowledged, ConnectionOf, Remaining
<1>3. UNCHANGED <<Serving, Offering>>
  BY <1>1 DEF Serving, Offering, Waiting
<1> QED
  BY <1>1, <1>2, <1>3 DEF Contract!vars

\* RemoveMessage ends a round.
LEMMA FinishStep ==
    ASSUME ReasonInv, RemoveMessage
    PROVE  Contract!Finish
<1>1. /\ thread = "Deliver" /\ thread' = "Loop" /\ owed = {} /\ owed' = {}
      /\ UNCHANGED <<subscribed, deliveries>> /\ subscribed \subseteq Links
      /\ top \in 1..NumMessages
  BY DeliveryAssumption DEF RemoveMessage, ReasonInv, DeliveryInv, TypeOK, ThreadInv
<1>2. Serving = top /\ Serving' = 0 /\ top # 0 /\ Offering = 0 /\ Offering' = 0
  BY <1>1 DEF Serving, Offering, Waiting
<1>3. UNCHANGED <<OffersMade, Received>>
  BY <1>1 DEF OffersMade, Offers, Received, Acknowledged, ConnectionOf
<1>4. Contract!Done(top) <=> subscribed \subseteq satisfied
  <2>1. \A k \in subscribed : k \in satisfied <=> Contract!Settled(top, k)
    BY <1>1, SatisfiedIsSettled
  <2> QED
    BY <2>1 DEF Contract!Done
<1>5. /\ Remaining \in Seq(Nat) /\ Len(Remaining) = NumMessages + 1 - top
      /\ Remaining # <<>> /\ Head(Remaining) = top
      /\ \A i \in 1..(NumMessages + 1 - top) : Remaining[i] = top + i - 1
  BY <1>1, DeliveryAssumption DEF Remaining
<1>6. top' = IF subscribed \subseteq satisfied THEN top + 1 ELSE top
  BY DEF RemoveMessage
<1>7. Remaining' = IF subscribed \subseteq satisfied THEN Tail(Remaining) ELSE Remaining
  <2>1. CASE subscribed \subseteq satisfied
    <3>1. PICK s \in Seq(Nat) : s = Remaining
      BY <1>5
    <3>2. Remaining' = [i \in 1..(NumMessages - top) |-> top + i]
      <4>1. Remaining' = [i \in 1..(NumMessages + 1 - (top + 1)) |-> (top + 1) + i - 1]
        BY <1>6, <2>1 DEF Remaining
      <4>2. NumMessages + 1 - (top + 1) = NumMessages - top
        BY <1>1, DeliveryAssumption
      <4>3. \A i \in 1..(NumMessages - top) : (top + 1) + i - 1 = top + i
        BY <1>1, DeliveryAssumption
      <4> QED
        BY <4>1, <4>2, <4>3
    <3>3. PICK t \in Seq(Nat) : t = Remaining'
      BY <1>1, <3>2, DeliveryAssumption
    <3>4. /\ Tail(s) \in Seq(Nat) /\ Len(Tail(s)) = Len(s) - 1
          /\ \A i \in 1..Len(Tail(s)) : Tail(s)[i] = s[i + 1]
      BY <1>5, <3>1, HeadTailProperties
    <3>5. /\ Len(t) = NumMessages - top /\ Len(Tail(s)) = NumMessages - top
          /\ \A i \in 1..(NumMessages - top) : t[i] = top + i
      BY <1>1, <1>5, <3>1, <3>2, <3>3, <3>4, DeliveryAssumption
    <3>6. \A i \in 1..(NumMessages - top) : Tail(s)[i] = t[i]
      BY <1>1, <1>5, <3>1, <3>4, <3>5, DeliveryAssumption
    <3>7. Tail(s) = t
      BY <3>3, <3>4, <3>5, <3>6, SeqEqual
    <3> QED
      BY <2>1, <3>1, <3>3, <3>7
  <2>2. CASE ~(subscribed \subseteq satisfied)
    BY <1>6, <2>2 DEF Remaining
  <2> QED
    BY <2>1, <2>2
<1> QED
  BY <1>1, <1>2, <1>3, <1>4, <1>5, <1>7 DEF Contract!Finish

-----------------------------------------------------------------------------
\* At first nothing has been offered and all messages are in the queue.
LEMMA InitRefines == Init => Contract!Init
<1> SUFFICES ASSUME Init PROVE Contract!Init
  OBVIOUS
<1>1. /\ top = 1 /\ thread = "Loop" /\ DOMAIN deliveries = {}
      /\ subscribed = {} /\ owed = {}
  BY DEF Init
<1>2. \A m \in 1..NumMessages, k \in Links :
          Cardinality(Offers(m, k)) = 0 /\ ~Acknowledged(m, k)
  <2>1. \A m \in 1..NumMessages, k \in Links : Offers(m, k) = {}
    BY <1>1 DEF Offers
  <2> QED
    BY <1>1, <2>1, FS_EmptySet DEF Acknowledged
<1>3. /\ OffersMade = [m \in 1..NumMessages |-> [k \in Links |-> 0]]
      /\ Received = [m \in 1..NumMessages |-> {}]
  BY <1>2 DEF OffersMade, Received
<1>4. Remaining = [m \in 1..NumMessages |-> m]
  BY <1>1, DeliveryAssumption DEF Remaining
<1>5. Serving = 0 /\ Offering = 0
  BY <1>1 DEF Serving, Offering, Waiting
<1> QED
  BY <1>1, <1>3, <1>4, <1>5 DEF Contract!Init

\* Each step is one of the contract or not seen, by the lemmas above.
LEMMA StepRefines ==
    ASSUME ReasonInv, [Next]_vars
    PROVE  [Contract!Next]_Contract!vars
<1>0. TypeOK
  BY DEF ReasonInv, DeliveryInv
<1>1. CASE ClientStep \/ UNCHANGED vars
  <2>1. UNCHANGED <<top, subscribed, thread, owed, deliveries>>
    BY <1>1 DEF ClientStep, deliveryVars, queueVars, vars
  <2>2. Contract!Subscription
    BY <1>0, <2>1, SubscriptionStep DEF TypeOK
  <2> QED
    BY <2>2 DEF Contract!Next
<1>2. ASSUME NEW k \in Links, Subscribe(k) \/ RmServer_OnDisconnected(k)
      PROVE  Contract!Subscription
  BY <1>0, <1>2, SubscriptionStep DEF Subscribe, RmServer_OnDisconnected, TypeOK
<1>3. CASE Scan
  BY <1>3, TakeStep DEF Contract!Next
<1>4. ASSUME NEW k \in Links, DeliverMessage(k) PROVE Contract!Next
  BY <1>4, OfferStep DEF Contract!Next
<1>5. CASE QueryFails \/ \E d \in DOMAIN deliveries : Handler(d)
  BY <1>5, HandlerRefines DEF Contract!Next
<1>6. CASE DeliveryRecorded
  BY <1>6, RecordRefines
<1>7. CASE RemoveMessage
  BY <1>7, FinishStep DEF Contract!Next
<1>8. \A k \in Links : Subscribe(k) \/ RmServer_OnDisconnected(k) => Contract!Next
  BY <1>2 DEF Contract!Next
<1> QED
  BY <1>1, <1>3, <1>4, <1>5, <1>6, <1>7, <1>8 DEF Next, DeliveryThread

\* Whatever the client does with its connections and in OnReceived, the queue
\* keeps the promises of QueueContract: rounds in the order of the messages, an
\* offer for each connection that is owed one, and removal just when nobody is
\* left (MessageQueue.cs:42-216, MqServer.cs:330-338).
THEOREM QueueKeepsContract == Spec => ImplementsQueueContract
<1>1. Spec => Contract!Init
  BY InitRefines DEF Spec
<1>2. ReasonInv /\ [Next]_vars => [Contract!Next]_Contract!vars
  BY StepRefines
<1> QED
  BY <1>1, <1>2, ReasonInvariance, PTL DEF Spec, ImplementsQueueContract, Contract!Spec
=============================================================================
