--------------------------- MODULE ClientDelivery ---------------------------
(***************************************************************************)
(* One client and one queue of the server, composed: the connections of    *)
(* MqClient, which break and are made anew, carry the delivery queries of  *)
(* the queue's thread, and handlers on the client answer them.             *)
(*                                                                         *)
(* The server knows connections, not clients.  A client that reconnects is *)
(* a new subscriber once it has subscribed again, and the old connection   *)
(* stays one until RmServer_OnDisconnected has run.  A handler goes on     *)
(* when the server has given up waiting for it.  The scheme is             *)
(* SuccessfulDeliveryToAllSubscribers; what other clients and Stop do to   *)
(* the queue is in MessageQueue.                                           *)
(***************************************************************************)
EXTENDS MqClient, FiniteSets, Sequences

CONSTANTS
    MaxDeliveryAttempts,  \* MqQueueConfiguration.MaxDeliveryAttempts, 0: no limit
    NumMessages,          \* messages in the queue at first, delivered in order
    MaxDeliveries         \* bound: delivery queries in one behaviour

ASSUME DeliveryAssumption ==
    MaxDeliveryAttempts \in Nat /\ NumMessages \in Nat /\ MaxDeliveries \in Nat

VARIABLES
    top,         \* the first message of the queue; NumMessages + 1 if it is empty
    subscribed,  \* the connections that are subscribers
    satisfied,   \* SatisfiedSubscribersConnectionIDs of the first message
    attempts,    \* its SubscriberMessageDeliveries
    thread,      \* program point of DeliveryThreadProc
    owed,        \* yetToBeDeliveredSubscribers not served so far
    deliveries   \* the delivery queries, in the order they were sent

queueVars == <<top, subscribed, satisfied, attempts, thread, owed>>
deliveryVars == <<queueVars, deliveries>>
vars == <<clientVars, deliveryVars>>

Current == Len(deliveries)
ConnectionOf(d) == deliveries[d].connection
SetDelivery(d, field, value) ==
    deliveries' = [deliveries EXCEPT ![d][field] = value]

-----------------------------------------------------------------------------
Init ==
    /\ ClientInit
    /\ top = 1
    /\ subscribed = {} /\ satisfied = {}
    /\ attempts = [k \in Links |-> 0]
    /\ thread = "Loop" /\ owed = {}
    /\ deliveries = <<>>

\* The connection can carry a call of the user, and queries of the server.
Usable(k) == k \in open /\ pump[k] = "Reading"

\* A client does not subscribe by itself when it has reconnected.
Subscribe(k) ==
    /\ user = "idle" /\ Usable(k) /\ k \notin subscribed
    /\ subscribed' = subscribed \cup {k}
    /\ UNCHANGED <<clientVars, top, satisfied, attempts, thread, owed, deliveries>>

RmServer_OnDisconnected(k) ==
    /\ k \in subscribed \ open
    /\ subscribed' = subscribed \ {k}
    /\ UNCHANGED <<clientVars, top, satisfied, attempts, thread, owed, deliveries>>

-----------------------------------------------------------------------------
(* The delivery thread of the queue. *)

Scan ==
    /\ thread = "Loop" /\ subscribed # {} /\ top <= NumMessages
    /\ owed' = subscribed \ satisfied
    /\ thread' = "Deliver"
    /\ UNCHANGED <<clientVars, top, subscribed, satisfied, attempts, deliveries>>

SendQuery(k) == deliveries' = Append(deliveries,
    [message |-> top, connection |-> k, handler |-> "sent", result |-> "none",
     reply |-> "waiting"])

\* Faulty variant: the thread does not wait for the result.
DeliverMessage_NoWait(k) ==
    /\ thread = "Deliver" /\ k \in owed /\ Current < MaxDeliveries
    /\ SendQuery(k)
    /\ owed' = owed \ {k}
    /\ satisfied' = satisfied \cup {k}
    /\ UNCHANGED <<clientVars, top, subscribed, attempts, thread>>

DeliverMessage(k) ==
    /\ thread = "Deliver" /\ k \in owed /\ Current < MaxDeliveries
    /\ SendQuery(k)
    /\ owed' = owed \ {k}
    /\ thread' = "Query"
    /\ UNCHANGED <<clientVars, top, subscribed, satisfied, attempts>>

\* QueryTimeout has passed, or the connection is closed.
QueryFails ==
    /\ thread = "Query" /\ deliveries[Current].reply = "waiting"
    /\ SetDelivery(Current, "reply", "exception")
    /\ UNCHANGED <<clientVars, queueVars>>

\* Faulty variant: one attempt more than is allowed.
GivenUp_Above(n) == MaxDeliveryAttempts > 0 /\ n > MaxDeliveryAttempts
GivenUp(n) == MaxDeliveryAttempts > 0 /\ n >= MaxDeliveryAttempts

\* Faulty variant: the attempt is recorded, the acknowledgement is not.
DeliveryRecorded_NotSatisfied ==
    /\ thread = "Query" /\ deliveries[Current].reply # "waiting"
    /\ LET k == ConnectionOf(Current)
       IN  /\ attempts' = [attempts EXCEPT ![k] = @ + 1]
           /\ satisfied' = satisfied \cup
                  (IF GivenUp(attempts'[k]) THEN {k} ELSE {})
    /\ thread' = "Deliver"
    /\ UNCHANGED <<clientVars, top, subscribed, owed, deliveries>>

\* The rest of the iteration of the foreach.
DeliveryRecorded ==
    /\ thread = "Query" /\ deliveries[Current].reply # "waiting"
    /\ LET k == ConnectionOf(Current)
           acknowledged == deliveries[Current].reply = "success"
       IN  /\ attempts' = [attempts EXCEPT ![k] = @ + 1]
           /\ satisfied' = satisfied \cup
                  (IF acknowledged \/ GivenUp(attempts'[k]) THEN {k} ELSE {})
    /\ thread' = "Deliver"
    /\ UNCHANGED <<clientVars, top, subscribed, owed, deliveries>>

RemoveMessage ==
    /\ thread = "Deliver" /\ owed = {}
    /\ IF subscribed \subseteq satisfied
       THEN /\ top' = top + 1
            /\ satisfied' = {} /\ attempts' = [k \in Links |-> 0]
       ELSE UNCHANGED <<top, satisfied, attempts>>
    /\ thread' = "Loop"
    /\ UNCHANGED <<clientVars, subscribed, owed, deliveries>>

-----------------------------------------------------------------------------
(* InternalClientQueryHandlers.MessageDeliveryQuery, on a pool thread of   *)
(* the client, and DeliverMessage's reading of the reply.                  *)

\* The pump of the connection has read the query, and leaves it to the pool.
QueryArrives(d) ==
    /\ deliveries[d].handler = "sent" /\ Usable(ConnectionOf(d))
    /\ SetDelivery(d, "handler", "arrived")
    /\ UNCHANGED <<clientVars, queueVars>>

\* The pool thread starts, however late: nobody asks about the connection.
MessageDeliveryQuery(d) ==
    /\ deliveries[d].handler = "arrived"
    /\ SetDelivery(d, "handler", "OnReceived")
    /\ UNCHANGED <<clientVars, queueVars>>

\* OnReceived returned; or it threw, or the message could not be deserialized,
\* and the exception has a text or has none.
OnReceivedEnds(d) ==
    /\ deliveries[d].handler = "OnReceived"
    /\ \E result \in {"returned", "error", "emptyError"} :
          deliveries' = [deliveries EXCEPT ![d].handler = "Reply", ![d].result = result]
    /\ UNCHANGED <<clientVars, queueVars>>

\* Faulty variant: an error in the reply is not looked at.
Reading_Blind(result) == "success"

\* DeliverMessage throws when ErrorMessage is neither null nor empty.
Reading(result) == IF result = "error" THEN "exception" ELSE "success"

\* The reply counts if the server still waits and the connection is there.
Reply(d) ==
    /\ deliveries[d].handler = "Reply"
    /\ deliveries' = [deliveries EXCEPT
          ![d].handler = "Ended",
          ![d].reply = IF @ = "waiting" /\ ConnectionOf(d) \in open
                       THEN Reading(deliveries[d].result) ELSE @]
    /\ UNCHANGED <<clientVars, queueVars>>

-----------------------------------------------------------------------------
ClientStep == ClientNext /\ UNCHANGED deliveryVars

DeliveryThread ==
    \/ Scan \/ QueryFails \/ DeliveryRecorded \/ RemoveMessage
    \/ \E k \in Links : DeliverMessage(k)

Handler(d) ==
    \/ QueryArrives(d) \/ MessageDeliveryQuery(d)
    \/ OnReceivedEnds(d) \/ Reply(d)

Next ==
    \/ ClientStep
    \/ DeliveryThread
    \/ \E k \in Links : Subscribe(k) \/ RmServer_OnDisconnected(k)
    \/ \E d \in DOMAIN deliveries : Handler(d)

Spec == Init /\ [][Next]_vars

-----------------------------------------------------------------------------
(* Properties *)

Deliveries == [message : 1..NumMessages, connection : Links,
               handler : {"sent", "arrived", "OnReceived", "Reply", "Ended"},
               result : {"none", "returned", "error", "emptyError"},
               reply : {"waiting", "success", "exception"}]

\* Types; the thread waits for the last query only.
TypeOK ==
    /\ ClientTypeOK
    /\ top \in 1..(NumMessages + 1)
    /\ subscribed \subseteq Links /\ satisfied \subseteq Links /\ owed \subseteq Links
    /\ attempts \in [Links -> Nat]
    /\ thread \in {"Loop", "Deliver", "Query"}
    /\ thread = "Loop" => owed = {}
    /\ deliveries \in Seq(Deliveries)
    /\ \A d \in DOMAIN deliveries :
          deliveries[d].reply = "waiting" => d = Current /\ thread = "Query"

Begun(d) == deliveries[d].handler \notin {"sent", "arrived"}

\* OnReceived runs for one message at a time, in the order of the queue: it is
\* not entered while an earlier delivery, over this or an older connection, is
\* unfinished on the client, unless the server had given that one up.
OneAtATime ==
    \A d, e \in DOMAIN deliveries :
        d < e /\ Begun(e) /\ deliveries[d].handler # "Ended"
            => deliveries[d].reply = "exception"

\* A client is handed a message again over the same connection only if the
\* server saw the earlier delivery fail, for instance because the reply was
\* late; an acknowledged one is not repeated, whatever happens in between.
HandledAgainOnlyAfterFailure ==
    \A d, e \in DOMAIN deliveries :
        /\ d < e /\ Begun(e)
        /\ deliveries[d].message = deliveries[e].message
        /\ ConnectionOf(d) = ConnectionOf(e)
        => deliveries[d].reply = "exception"

Acknowledged(m, k) == \E d \in DOMAIN deliveries :
    /\ deliveries[d].message = m /\ ConnectionOf(d) = k
    /\ deliveries[d].reply = "success"

Failures(m, k) == { d \in DOMAIN deliveries :
    /\ deliveries[d].message = m /\ ConnectionOf(d) = k
    /\ deliveries[d].reply = "exception" }

\* A message leaves the queue when for each connection subscribed at that moment
\* the client's OnReceived returned or threw an exception without text, or the
\* server saw as many deliveries fail as it allows.
LeavesForAReason ==
    [][top' # top => \A k \in subscribed :
          \/ \E d \in DOMAIN deliveries :
                /\ deliveries[d].message = top /\ ConnectionOf(d) = k
                /\ deliveries[d].result \in {"returned", "emptyError"}
          \/ GivenUp(Cardinality(Failures(top, k)))]_vars
=============================================================================
