--------------------------- MODULE ServerContract ---------------------------
(***************************************************************************)
(* What the server promises to its clients, without its dictionary, locks, *)
(* joins, retries and MessageQueue objects.                                *)
(*                                                                         *)
(* A queue is known by its name.  A query takes effect at one moment       *)
(* between its sending and its reply, and once; only a client whose        *)
(* connection is closed may find it has had no effect.  A queue serves its *)
(* messages oldest first, one in hand at a time; they expire while none    *)
(* is.  It is deleted, and the server is stopped, when delivery is over; a *)
(* queue created under the name of a deleted one begins empty.  Module     *)
(* MqServerRefinement shows how the code does this.                        *)
(***************************************************************************)
EXTENDS Integers, Sequences, Sublists

CONSTANTS
    Connections,    \* connection ids, never reused
    QueueNames,     \* names queues may have
    InitialQueues,  \* names of the queues that exist at first
    Operations,     \* operations clients ask for
    Queries,        \* numbers of the queries, in the order they are sent
    NoQuery         \* what a query asks for that has not been sent

VARIABLES
    phase,        \* the server is "running", "stopping" or "stopped"
    connection,   \* a connection is "new", "open", "closing" or "closed"
    query,        \* what query number n asks for
    status,       \* how far it has come
    answer,       \* what its sender has learned
    queues,       \* names of the queues that exist
    delivering,   \* a queue delivers its messages
    messages,     \* its messages, oldest first
    serving,      \* the message it has in hand, or 0
    subscribers   \* who is subscribed to it

queryVars == <<query, status, answer>>
queueVars == <<queues, delivering, messages, serving, subscribers>>
vars == <<phase, connection, queryVars, queueVars>>

Init ==
    /\ phase = "running"
    /\ connection = [c \in Connections |-> "new"]
    /\ query = [n \in Queries |-> NoQuery]
    /\ status = [n \in Queries |-> "unsent"]
    /\ answer = [n \in Queries |-> "none"]
    /\ queues = InitialQueues
    /\ delivering = [q \in QueueNames |-> q \in InitialQueues]
    /\ messages = [q \in QueueNames |-> <<>>]
    /\ serving = [q \in QueueNames |-> 0]
    /\ subscribers = [q \in QueueNames |-> {}]

IsOpen(c) == connection[c] = "open"

-----------------------------------------------------------------------------
(* Clients *)

Connect(c) ==
    /\ phase = "running" /\ connection[c] = "new"
    /\ connection' = [connection EXCEPT ![c] = "open"]
    /\ UNCHANGED <<phase, queryVars, queueVars>>

Disconnect(c) ==
    /\ IsOpen(c)
    /\ connection' = [connection EXCEPT ![c] = "closing"]
    /\ UNCHANGED <<phase, queryVars, queueVars>>

\* The client has heard of all its queries, be it that they timed out.
Send(n, c, op, q) ==
    /\ IsOpen(c)
    /\ \A m \in Queries : query[m].connection = c => answer[m] # "none"
    /\ \A m \in Queries : status[m] = "unsent" <=> m >= n
    /\ query' = [query EXCEPT ![n] = [connection |-> c, operation |-> op, queue |-> q]]
    /\ status' = [status EXCEPT ![n] = "pending"]
    /\ UNCHANGED <<phase, connection, answer, queueVars>>

Timeout(n) ==
    /\ status[n] # "unsent" /\ answer[n] = "none"
    /\ answer' = [answer EXCEPT ![n] = "timeout"]
    /\ UNCHANGED <<phase, connection, query, status, queueVars>>

-----------------------------------------------------------------------------
(* The effect of a query *)

Ends(n, outcome) ==
    /\ status[n] = "pending"
    /\ status' = [status EXCEPT ![n] = outcome]
    /\ UNCHANGED <<phase, connection, query, answer>>

\* It ends with an effect on the queue it names, which exists.
Performs(n, op) ==
    /\ query[n].operation = op
    /\ query[n].queue \in queues
    /\ Ends(n, "Success")

Missing(n) ==
    /\ query[n].operation # "CreateQueue"
    /\ query[n].queue \notin queues
    /\ Ends(n, IF query[n].operation \in {"EnqueueMessage", "PurgeQueue"}
               THEN "Failed" ELSE "Success")
    /\ UNCHANGED queueVars

CreateExisting(n) == Performs(n, "CreateQueue") /\ UNCHANGED queueVars

CreateQueue(n) ==
    /\ query[n].operation = "CreateQueue"
    /\ query[n].queue \notin queues
    /\ Ends(n, "Success")
    /\ queues' = queues \cup {query[n].queue}
    /\ delivering' = [delivering EXCEPT ![query[n].queue] = TRUE]
    /\ messages' = [messages EXCEPT ![query[n].queue] = <<>>]
    /\ subscribers' = [subscribers EXCEPT ![query[n].queue] = {}]
    /\ UNCHANGED serving

\* A queue that is deleted has nothing in hand, and its messages are lost.
DeleteQueue(n) ==
    /\ Performs(n, "DeleteQueue")
    /\ ~delivering[query[n].queue] /\ serving[query[n].queue] = 0
    /\ queues' = queues \ {query[n].queue}
    /\ messages' = [messages EXCEPT ![query[n].queue] = <<>>]
    /\ subscribers' = [subscribers EXCEPT ![query[n].queue] = {}]
    /\ UNCHANGED <<delivering, serving>>

SubscribeToQueue(n) ==
    /\ Performs(n, "SubscribeToQueue")
    /\ subscribers' = [subscribers EXCEPT ![query[n].queue] =
                           @ \cup {query[n].connection}]
    /\ UNCHANGED <<queues, delivering, messages, serving>>

UnsubscribeFromQueue(n) ==
    /\ Performs(n, "UnsubscribeFromQueue")
    /\ subscribers' = [subscribers EXCEPT ![query[n].queue] =
                           @ \ {query[n].connection}]
    /\ UNCHANGED <<queues, delivering, messages, serving>>

EnqueueMessage(n) ==
    /\ Performs(n, "EnqueueMessage")
    /\ messages' = [messages EXCEPT ![query[n].queue] = Append(@, n)]
    /\ UNCHANGED <<queues, delivering, serving, subscribers>>

PurgeQueue(n) ==
    /\ Performs(n, "PurgeQueue")
    /\ messages' = [messages EXCEPT ![query[n].queue] = <<>>]
    /\ UNCHANGED <<queues, delivering, serving, subscribers>>

\* A server that is stopped forgets the queries of the connections it closed.
GiveUp(n) ==
    /\ Ends(n, "Success")
    /\ phase # "running" /\ ~IsOpen(query[n].connection)
    /\ UNCHANGED queueVars

\* The sender learns the outcome if it still waits and is connected.
Reply(n) ==
    /\ status[n] \in {"Success", "Failed"}
    /\ status' = [status EXCEPT ![n] = "Replied"]
    /\ answer' = [answer EXCEPT ![n] =
                      IF @ = "none" /\ IsOpen(query[n].connection)
                      THEN status[n] ELSE @]
    /\ UNCHANGED <<phase, connection, query, queueVars>>

-----------------------------------------------------------------------------
(* The subscriptions of a closed connection *)

\* They are taken away, but a queue that delivers may be left out.
Forget(c, left) ==
    /\ connection[c] = "closing"
    /\ \A q \in left : delivering[q]
    /\ subscribers' = [q \in QueueNames |-> IF q \in left THEN subscribers[q]
                                            ELSE subscribers[q] \ {c}]
    /\ UNCHANGED <<phase, queryVars, queues, delivering, messages, serving>>

ForgetSome(c) ==
    /\ \E left \in SUBSET queues : Forget(c, left)
    /\ UNCHANGED connection

\* The connection is done with when no queue was left out.
ForgetAll(c) ==
    /\ Forget(c, {})
    /\ connection' = [connection EXCEPT ![c] = "closed"]

\* A stopped server does not get to it.
Abandon(c) ==
    /\ phase # "running" /\ connection[c] = "closing"
    /\ connection' = [connection EXCEPT ![c] = "closed"]
    /\ UNCHANGED <<phase, queryVars, queueVars>>

-----------------------------------------------------------------------------
(* Delivery *)

\* Messages expire while none is in hand.
DropExpired(q) ==
    /\ delivering[q] /\ serving[q] = 0
    /\ \E rest \in Sublists(messages[q]) :
          messages' = [messages EXCEPT ![q] = rest]
    /\ UNCHANGED <<phase, connection, queryVars, queues, delivering, subscribers>>

Expire(q) == DropExpired(q) /\ UNCHANGED serving

Take(q) ==
    /\ DropExpired(q)
    /\ subscribers[q] # {} /\ messages'[q] # <<>>
    /\ serving' = [serving EXCEPT ![q] = Head(messages'[q])]

\* The message in hand, if it is still there, stays or leaves; no other does.
Finish(q) ==
    /\ serving[q] # 0
    /\ serving' = [serving EXCEPT ![q] = 0]
    /\ \/ UNCHANGED messages
       \/ /\ messages[q] # <<>> /\ Head(messages[q]) = serving[q]
          /\ messages' = [messages EXCEPT ![q] = Tail(@)]
    /\ UNCHANGED <<phase, connection, queryVars, queues, delivering, subscribers>>

\* Delivery ends for a DeleteQueue that waits for it, or for Stop.
EndDelivery(q) ==
    /\ delivering[q]
    /\ \/ phase = "stopping"
       \/ \E n \in Queries : /\ status[n] = "pending"
                             /\ query[n].operation = "DeleteQueue"
                             /\ query[n].queue = q
    /\ delivering' = [delivering EXCEPT ![q] = FALSE]
    /\ serving' = [serving EXCEPT ![q] = 0]
    /\ UNCHANGED <<phase, connection, queryVars, queues, messages, subscribers>>

-----------------------------------------------------------------------------
(* Stop and Start *)

Stop ==
    /\ phase = "running"
    /\ phase' = "stopping"
    /\ connection' = [c \in Connections |-> IF IsOpen(c) THEN "closing"
                                            ELSE connection[c]]
    /\ UNCHANGED <<queryVars, queueVars>>

StopReturns ==
    /\ phase = "stopping"
    /\ \A q \in queues : ~delivering[q]
    /\ phase' = "stopped"
    /\ UNCHANGED <<connection, queryVars, queueVars>>

\* The queues are there again, but nothing makes them deliver.
Start ==
    /\ phase = "stopped"
    /\ phase' = "running"
    /\ UNCHANGED <<connection, queryVars, queueVars>>

-----------------------------------------------------------------------------
Client ==
    \/ \E c \in Connections : Connect(c) \/ Disconnect(c)
    \/ \E n \in Queries, c \in Connections, op \in Operations, q \in QueueNames :
          Send(n, c, op, q)
    \/ \E n \in Queries : Timeout(n)

Effect(n) ==
    \/ Missing(n) \/ CreateExisting(n) \/ CreateQueue(n) \/ DeleteQueue(n)
    \/ SubscribeToQueue(n) \/ UnsubscribeFromQueue(n)
    \/ EnqueueMessage(n) \/ PurgeQueue(n)

Next ==
    \/ Client \/ Stop \/ StopReturns \/ Start
    \/ \E n \in Queries : Effect(n) \/ GiveUp(n) \/ Reply(n)
    \/ \E c \in Connections : ForgetSome(c) \/ ForgetAll(c) \/ Abandon(c)
    \/ \E q \in QueueNames : Expire(q) \/ Take(q) \/ Finish(q) \/ EndDelivery(q)

Spec == Init /\ [][Next]_vars
=============================================================================
