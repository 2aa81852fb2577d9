---------------------------- MODULE QueueContract ----------------------------
(***************************************************************************)
(* What a queue promises to those who send messages to it and subscribe to *)
(* it, without its locks, its delivery thread and its records of attempts. *)
(*                                                                         *)
(* Messages are served one at a time, oldest first, in rounds.  A round    *)
(* offers the message once to each connection that is subscribed at its    *)
(* beginning and not settled; at its end the message is removed if all     *)
(* connections subscribed by then are settled.  A purge drops all the      *)
(* messages, expiration some of them between rounds, and a round may be    *)
(* given up when the queue is stopped.  Modules MessageQueueRefinement and *)
(* ClientDeliveryRefinement show how the code does this.                   *)
(***************************************************************************)
EXTENDS Integers, Sequences, Sublists

CONSTANTS
    Connections,          \* connections that may subscribe
    Nobody,               \* no connection
    Messages,             \* numbers of the messages
    Initial,              \* messages that are in the queue at first
    FirstConsumed,        \* the first consumer takes the message
    MaxDeliveryAttempts,  \* offers of a message to a connection, 0 = any number
    Expires,              \* messages expire
    AttemptCap            \* bound: offer counters saturate here

VARIABLES
    running,      \* the queue has not been stopped
    queue,        \* the messages, oldest first
    accepted,     \* number of messages accepted
    subscribers,  \* who is subscribed
    serving,      \* the message of this round, or 0
    owed,         \* connections this round has still to offer it to
    offering,     \* the connection it is being offered to, or Nobody
    offers,       \* offers of a message made to a connection
    received,     \* connections that acknowledged a message
    consumed      \* ... and consumed it

vars == <<running, queue, accepted, subscribers, serving, owed, offering,
          offers, received, consumed>>

Init ==
    /\ running = TRUE
    /\ queue = [m \in 1..Initial |-> m] /\ accepted = Initial
    /\ subscribers = {}
    /\ serving = 0 /\ owed = {} /\ offering = Nobody
    /\ offers = [m \in Messages |-> [c \in Connections |-> 0]]
    /\ received = [m \in Messages |-> {}]
    /\ consumed = [m \in Messages |-> {}]

\* Nothing more is owed to c: it has the message, or has used up its offers.
Settled(m, c) ==
    \/ c \in received[m]
    \/ MaxDeliveryAttempts > 0 /\ offers[m][c] >= MaxDeliveryAttempts

\* The message has found its consumer, or everyone has been seen to.
Done(m) ==
    \/ FirstConsumed /\ consumed[m] # {}
    \/ \A c \in subscribers : Settled(m, c)

-----------------------------------------------------------------------------
Stop ==
    /\ running' = FALSE
    /\ UNCHANGED <<queue, accepted, subscribers, serving, owed, offering, offers,
                   received, consumed>>

Subscription ==
    /\ subscribers' \in SUBSET Connections
    /\ UNCHANGED <<running, queue, accepted, serving, owed, offering, offers,
                   received, consumed>>

Accept ==
    /\ accepted' = accepted + 1
    /\ accepted' \in Messages
    /\ queue' = Append(queue, accepted')
    /\ UNCHANGED <<running, subscribers, serving, owed, offering, offers, received,
                   consumed>>

Purge ==
    /\ queue' = <<>>
    /\ UNCHANGED <<running, accepted, subscribers, serving, owed, offering, offers,
                   received, consumed>>

\* Between rounds messages may expire.
DropExpired ==
    /\ running /\ serving = 0
    /\ queue' \in IF Expires THEN Sublists(queue) ELSE {queue}
    /\ UNCHANGED <<running, accepted, subscribers, offering, offers, received,
                   consumed>>

Expire == DropExpired /\ UNCHANGED <<serving, owed>>

\* A round begins with the oldest message that is left.
Take ==
    /\ DropExpired
    /\ subscribers # {} /\ queue' # <<>>
    /\ serving' = Head(queue')
    /\ owed' = { c \in subscribers : ~Settled(serving', c) }

Offer(c) ==
    /\ running /\ serving # 0 /\ offering = Nobody
    /\ c \in owed
    /\ owed' = owed \ {c}
    /\ offering' = c
    /\ offers' = [offers EXCEPT ![serving][c] = IF @ < AttemptCap THEN @ + 1 ELSE @]
    /\ UNCHANGED <<running, queue, accepted, subscribers, serving, received, consumed>>

\* The connection has the message; a consumer that takes it ends the offers.
Acknowledge(isConsumed) ==
    /\ offering # Nobody
    /\ received' = [received EXCEPT ![serving] = @ \cup {offering}]
    /\ consumed' = [consumed EXCEPT ![serving] =
                        IF isConsumed THEN @ \cup {offering} ELSE @]
    /\ owed' = IF FirstConsumed /\ isConsumed THEN {} ELSE owed
    /\ offering' = Nobody
    /\ UNCHANGED <<running, queue, accepted, subscribers, serving, offers>>

Fail ==
    /\ offering # Nobody
    /\ offering' = Nobody
    /\ UNCHANGED <<running, queue, accepted, subscribers, serving, owed, offers,
                   received, consumed>>

\* The round ends.  Only the message of the round may leave, and it does when it
\* is done, unless it was purged.
Finish ==
    /\ serving # 0 /\ offering = Nobody /\ owed = {}
    /\ serving' = 0
    /\ queue' = IF Done(serving) /\ queue # <<>> /\ Head(queue) = serving
                THEN Tail(queue) ELSE queue
    /\ UNCHANGED <<running, accepted, subscribers, owed, offering, offers, received,
                   consumed>>

\* The queue was stopped during the round.
GiveUp ==
    /\ ~running
    /\ serving # 0 /\ offering = Nobody
    /\ serving' = 0 /\ owed' = {}
    /\ UNCHANGED <<running, queue, accepted, subscribers, offering, offers, received,
                   consumed>>

Next ==
    \/ Stop \/ Subscription \/ Accept \/ Purge \/ Expire \/ Take
    \/ \E c \in Connections : Offer(c)
    \/ \E isConsumed \in BOOLEAN : Acknowledge(isConsumed)
    \/ Fail \/ Finish \/ GiveUp

Spec == Init /\ [][Next]_vars
=============================================================================
