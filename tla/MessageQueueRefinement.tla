----------------------- MODULE MessageQueueRefinement -----------------------
(***************************************************************************)
(* MessageQueue implements QueueContract.  A round of the contract is an   *)
(* iteration of the delivery thread that has a message in hand; an offer   *)
(* is open while the thread waits for the client's reply.  The sleep after *)
(* a reply, the record of attempts and of satisfied subscribers, the locks *)
(* and the joins are steps the contract does not see.                      *)
(***************************************************************************)
EXTENDS MessageQueue

\* A consumed message is offered to nobody else, although the thread empties its
\* snapshot only after the sleep.
StillOwed ==
    IF FirstConsumed /\ successfulDeliveryAndConsume THEN {} ELSE yetToBeDelivered

Contract == INSTANCE QueueContract WITH
    Nobody <- NoConnection,
    Initial <- 0,
    running <- KeepRunning,
    queue <- messages,
    accepted <- TotalEnqueuedMessages,
    serving <- topMessage,
    owed <- StillOwed,
    offering <- IF pc = "Query" THEN subscriber ELSE NoConnection,
    offers <- calls,
    received <- delivered,
    consumed <- consumedBy

\* Every behaviour of the queue, its delivery thread and the handlers is one the
\* contract allows: rounds in the order of EnqueueMessage, each offering the
\* message once to whom it is owed, and removing that message and no other.
ImplementsContract == Contract!Spec
=============================================================================
