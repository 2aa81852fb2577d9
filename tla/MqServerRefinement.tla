------------------------- MODULE MqServerRefinement -------------------------
(***************************************************************************)
(* MqServer implements ServerContract.  What the contract knows of a queue *)
(* is in the object registered under its name.  A query is pending while   *)
(* its handler loops, waits for locks or joins; it takes effect where the  *)
(* handler has all its locks, a DeleteQueue where its join ends.  Attempts *)
(* that miss a lock, and the steps of Stop before it returns, change       *)
(* nothing the contract sees.                                              *)
(***************************************************************************)
EXTENDS MqServer

\* What the object registered under a name has, if there is one.
Of(q, value, otherwise) == IF registry[q] = 0 THEN otherwise ELSE value[registry[q]]

PhaseOf(pc) ==
    IF pc \in {"closed", "flagged", "queues"} THEN "stopping" ELSE pc

ConnectionOf(state) ==
    CASE state \in {"Loop", "Use"} -> "closing"
      [] state \in {"Removed", "Abandoned"} -> "closed"
      [] OTHER -> state

StatusOf(pc) == IF pc \in {"Loop", "Use", "Join"} THEN "pending" ELSE pc

Phase == PhaseOf(stopPc)
ConnectionState == [c \in Connections |-> ConnectionOf(connection[c])]
Status == [n \in Queries |-> StatusOf(handlerPc[n])]
Queues == { q \in QueueNames : registry[q] # 0 }
Delivering == [q \in QueueNames |-> registry[q] # 0 /\ Alive(registry[q])]
MessagesOf == [q \in QueueNames |-> Of(q, messages, <<>>)]
Serving == [q \in QueueNames |-> Of(q, topMessage, 0)]
SubscribersOf == [q \in QueueNames |-> Of(q, subscribers, {})]

Contract == INSTANCE ServerContract WITH
    phase <- Phase,
    connection <- ConnectionState,
    status <- Status,
    queues <- Queues,
    delivering <- Delivering,
    messages <- MessagesOf,
    serving <- Serving,
    subscribers <- SubscribersOf

\* Whatever handlers, threads, disconnections, Stop and Start do together looks
\* to the clients like queries that take effect one after the other, each once
\* before its reply, on queues that serve their messages oldest first.
ImplementsServerContract == Contract!Spec
=============================================================================
