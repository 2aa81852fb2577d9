---------------------- MODULE ClientDeliveryRefinement ----------------------
(***************************************************************************)
(* ClientDelivery implements QueueContract: the queue keeps its promises   *)
(* to the connections of a client that loses them, answers late, or throws *)
(* in OnReceived.  An offer is a delivery query; it is open while the      *)
(* server waits, so a reply that comes too late is no acknowledgement.     *)
(* What the contract counts is read off the list of delivery queries, not  *)
(* off the records of the queue.                                           *)
(***************************************************************************)
EXTENDS ClientDelivery

Offers(m, k) == { d \in DOMAIN deliveries :
    deliveries[d].message = m /\ ConnectionOf(d) = k }

Waiting == thread = "Query" /\ deliveries[Current].reply = "waiting"

Remaining == [i \in 1..(NumMessages + 1 - top) |-> top + i - 1]
Serving == IF thread = "Loop" THEN 0 ELSE top
Offering == IF Waiting THEN ConnectionOf(Current) ELSE 0
OffersMade == [m \in 1..NumMessages |-> [k \in Links |-> Cardinality(Offers(m, k))]]
Received == [m \in 1..NumMessages |-> { k \in Links : Acknowledged(m, k) }]

\* The queue is not stopped, and nobody but the thread takes messages away.
Contract == INSTANCE QueueContract WITH
    Connections <- Links,
    Nobody <- 0,
    Messages <- 1..NumMessages,
    Initial <- NumMessages,
    FirstConsumed <- FALSE,
    Expires <- FALSE,
    AttemptCap <- MaxDeliveries + 1,
    running <- TRUE,
    queue <- Remaining,
    accepted <- NumMessages,
    subscribers <- subscribed,
    serving <- Serving,
    offering <- Offering,
    offers <- OffersMade,
    received <- Received,
    consumed <- [m \in 1..NumMessages |-> {}]

\* Whatever the client does, the queue offers a message in each round once to
\* each connection that has not acknowledged it nor used up its attempts, and
\* removes it just when no subscriber is left to which that applies.
ImplementsQueueContract == Contract!Spec
=============================================================================
