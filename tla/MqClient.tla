------------------------------ MODULE MqClient ------------------------------
(***************************************************************************)
(* The connection of MqClient: Connect and Disconnect, the two events of   *)
(* RmClient that the constructor attaches, and the threads that reconnect. *)
(*                                                                         *)
(* Three kinds of threads meet in _explicitDisconnect: the user's, which   *)
(* sets it and calls RmClient; the pump of a connection, which raises      *)
(* OnConnected when it starts and OnDisconnected when it ends; and the     *)
(* reconnect thread that OnDisconnected starts, one for each lost          *)
(* connection at most, so it bears the number of that connection.          *)
(*                                                                         *)
(* RmClient itself is external.  Its Connect makes a connection, or throws *)
(* when the server cannot be reached, or has no effect when the client is  *)
(* connected already.                                                      *)
(***************************************************************************)
EXTENDS Integers

CONSTANTS
    Configured,      \* made by MqClient(configuration), not by MqClient()
    AutoReconnect,   \* MqClientConfiguration.AutoReconnect
    MaxConnections   \* bound: connections made in one behaviour

ASSUME ClientAssumption ==
    /\ Configured \in BOOLEAN
    /\ AutoReconnect \in BOOLEAN
    /\ ~Configured => AutoReconnect     \* the default of MqClientConfiguration
    /\ MaxConnections \in Nat \ {0}

VARIABLES
    explicitDisconnect,  \* MqClient._explicitDisconnect
    reachable,           \* whether an attempt to connect would succeed
    user,                \* the call the user's thread is in, or "idle"
    lastCall,            \* history: the last of Connect and Disconnect called
    overtaken,           \* history: Disconnect met an attempt under way
    made,                \* number of connections made
    open,                \* the connections that are open
    pump,                \* where the pump thread of a connection is
    reconnect            \* where the reconnect thread for it is

clientVars == <<explicitDisconnect, reachable, user, lastCall, overtaken, made, open,
                pump, reconnect>>

Links == 1..MaxConnections

\* _rmClient.IsConnected
IsConnected == open # {}

\* RmClient_OnConnected and RmClient_OnDisconnected are attached.
HandlersAttached == ~Configured

-----------------------------------------------------------------------------
ClientInit ==
    /\ explicitDisconnect = FALSE
    /\ reachable \in BOOLEAN
    /\ user = "idle" /\ lastCall = "none" /\ overtaken = FALSE
    /\ made = 0 /\ open = {}
    /\ pump = [k \in Links |-> "none"]
    /\ reconnect = [k \in Links |-> "none"]

PumpGoto(k, pc) == pump' = [pump EXCEPT ![k] = pc]
ReconnectGoto(k, pc) == reconnect' = [reconnect EXCEPT ![k] = pc]

\* RmClient.Connect, when it does not throw.
RmConnect ==
    \/ /\ IsConnected
       /\ UNCHANGED <<made, open, pump>>
    \/ /\ ~IsConnected /\ reachable /\ made < MaxConnections
       /\ made' = made + 1
       /\ open' = {made'}
       /\ PumpGoto(made', "OnConnected")

RmConnectThrows == ~IsConnected /\ ~reachable /\ UNCHANGED <<made, open, pump>>

-----------------------------------------------------------------------------
(* The user.  One thread, one call at a time. *)

Connect ==
    /\ user = "idle"
    /\ IsConnected \/ made < MaxConnections
    /\ explicitDisconnect' = FALSE
    /\ user' = "Connect" /\ lastCall' = "Connect" /\ overtaken' = FALSE
    /\ UNCHANGED <<reachable, made, open, pump, reconnect>>

Connect_Rm ==
    /\ user = "Connect"
    /\ RmConnect \/ RmConnectThrows
    /\ user' = "idle"
    /\ UNCHANGED <<explicitDisconnect, reachable, lastCall, overtaken, reconnect>>

\* Someone has read _explicitDisconnect already and may still establish a
\* connection, or will clear it.
AttemptUnderWay ==
    \/ \E k \in Links : reconnect[k] \in {"TestConnected", "Connect"}
    \/ HandlersAttached /\ \E k \in Links : pump[k] = "OnConnected"

Disconnect ==
    /\ user = "idle"
    /\ explicitDisconnect' = TRUE
    /\ user' = "Disconnect" /\ lastCall' = "Disconnect"
    /\ overtaken' = (overtaken \/ AttemptUnderWay)
    /\ UNCHANGED <<reachable, made, open, pump, reconnect>>

Disconnect_Rm ==
    /\ user = "Disconnect"
    /\ open' = {}
    /\ user' = "idle"
    /\ UNCHANGED <<explicitDisconnect, reachable, lastCall, overtaken, made, pump,
                   reconnect>>

-----------------------------------------------------------------------------
(* What happens to a connection.  The last one of a behaviour is not lost. *)

ConnectionLost(k) ==
    /\ k \in open /\ k < MaxConnections
    /\ open' = open \ {k}
    /\ UNCHANGED <<explicitDisconnect, reachable, user, lastCall, overtaken, made,
                   pump, reconnect>>

ReachableChanges ==
    /\ reachable' = ~reachable
    /\ UNCHANGED <<explicitDisconnect, user, lastCall, overtaken, made, open, pump,
                   reconnect>>

RmClient_OnConnected(k) ==
    /\ pump[k] = "OnConnected"
    /\ explicitDisconnect' = IF HandlersAttached THEN FALSE ELSE explicitDisconnect
    /\ PumpGoto(k, "Reading")
    /\ UNCHANGED <<reachable, user, lastCall, overtaken, made, open, reconnect>>

RmClient_OnDisconnected(k) ==
    /\ pump[k] = "Reading" /\ k \notin open
    /\ PumpGoto(k, "Ended")
    /\ IF HandlersAttached /\ ~explicitDisconnect /\ AutoReconnect
       THEN ReconnectGoto(k, "TestFlag")
       ELSE UNCHANGED reconnect
    /\ UNCHANGED <<explicitDisconnect, reachable, user, lastCall, overtaken, made, open>>

-----------------------------------------------------------------------------
(* The reconnect thread: read the flag, read whether the client is         *)
(* connected, connect, sleep a second, and again.  Nothing holds a lock    *)
(* over the two reads of the condition, so the user may come in between.   *)
(* There is always an address, as connections come from Connect.           *)

\* Faulty variant: the loop does not ask for an explicit disconnect.
Reconnect_TestFlag_Skipped(k) ==
    /\ reconnect[k] = "TestFlag"
    /\ ReconnectGoto(k, "TestConnected")
    /\ UNCHANGED <<explicitDisconnect, reachable, user, lastCall, overtaken, made, open,
                   pump>>

\* while (!_explicitDisconnect ...
Reconnect_TestFlag(k) ==
    /\ reconnect[k] = "TestFlag"
    /\ ReconnectGoto(k, IF explicitDisconnect THEN "Ended" ELSE "TestConnected")
    /\ UNCHANGED <<explicitDisconnect, reachable, user, lastCall, overtaken, made, open,
                   pump>>

\* Faulty variant: the loop does not ask whether the client is connected.
Reconnect_TestConnected_Skipped(k) ==
    /\ reconnect[k] = "TestConnected"
    /\ ReconnectGoto(k, "Connect")
    /\ UNCHANGED <<explicitDisconnect, reachable, user, lastCall, overtaken, made, open,
                   pump>>

\* ... && !_rmClient.IsConnected): read after the flag, which may be set by now.
Reconnect_TestConnected(k) ==
    /\ reconnect[k] = "TestConnected"
    /\ ReconnectGoto(k, IF IsConnected THEN "Ended" ELSE "Connect")
    /\ UNCHANGED <<explicitDisconnect, reachable, user, lastCall, overtaken, made, open,
                   pump>>

\* Faulty variant: an exception ends the thread.
Reconnect_Connect_NoCatch(k) ==
    /\ reconnect[k] = "Connect"
    /\ \/ RmConnect /\ ReconnectGoto(k, "Sleep")
       \/ RmConnectThrows /\ ReconnectGoto(k, "Ended")
    /\ UNCHANGED <<explicitDisconnect, reachable, user, lastCall, overtaken>>

\* An exception is passed to OnException; the thread sleeps either way.
Reconnect_Connect(k) ==
    /\ reconnect[k] = "Connect"
    /\ RmConnect \/ RmConnectThrows
    /\ ReconnectGoto(k, "Sleep")
    /\ UNCHANGED <<explicitDisconnect, reachable, user, lastCall, overtaken>>

Reconnect_Sleep(k) ==
    /\ reconnect[k] = "Sleep"
    /\ ReconnectGoto(k, "TestFlag")
    /\ UNCHANGED <<explicitDisconnect, reachable, user, lastCall, overtaken, made, open,
                   pump>>

-----------------------------------------------------------------------------
User == Connect \/ Connect_Rm \/ Disconnect \/ Disconnect_Rm
Pump(k) == RmClient_OnConnected(k) \/ RmClient_OnDisconnected(k)
ReconnectThread(k) ==
    \/ Reconnect_TestFlag(k) \/ Reconnect_TestConnected(k)
    \/ Reconnect_Connect(k) \/ Reconnect_Sleep(k)

ClientNext ==
    \/ User
    \/ ReachableChanges
    \/ \E k \in Links : ConnectionLost(k) \/ Pump(k) \/ ReconnectThread(k)

ClientSpec == ClientInit /\ [][ClientNext]_clientVars

(* Fairness.  Calls under way return, pumps and reconnect threads are      *)
(* scheduled.  Nobody has to call, and nothing has to be lost.             *)
ClientFairness ==
    /\ WF_clientVars(Connect_Rm) /\ WF_clientVars(Disconnect_Rm)
    /\ \A k \in Links : WF_clientVars(Pump(k)) /\ WF_clientVars(ReconnectThread(k))

ClientFairSpec == ClientSpec /\ ClientFairness

-----------------------------------------------------------------------------
(* Properties *)

\* Types; connections are made one at a time, and their threads with them.
ClientTypeOK ==
    /\ explicitDisconnect \in BOOLEAN /\ reachable \in BOOLEAN /\ overtaken \in BOOLEAN
    /\ user \in {"idle", "Connect", "Disconnect"}
    /\ lastCall \in {"none", "Connect", "Disconnect"}
    /\ made \in 0..MaxConnections
    /\ open \subseteq {made} /\ open \subseteq Links
    /\ pump \in [Links -> {"none", "OnConnected", "Reading", "Ended"}]
    /\ reconnect \in [Links -> {"none", "TestFlag", "TestConnected", "Connect", "Sleep",
                               "Ended"}]
    /\ \A k \in Links :
          /\ pump[k] = "none" <=> k > made
          /\ k \in open => pump[k] \in {"OnConnected", "Reading"}
          /\ reconnect[k] # "none" => pump[k] = "Ended"

\* Disconnect is final: once it has returned the client is not connected until
\* the user calls Connect, although reconnect threads may be asleep.  The code
\* leaves two windows, and only these: a reconnect thread was past its read of
\* _explicitDisconnect (l.142) and had yet to leave its attempt to connect, or
\* a fresh connection had yet to raise OnConnected, which clears the flag
\* (l.130), when Disconnect was called (MqClient.cs:128-168, 207).
DisconnectIsFinal ==
    lastCall = "Disconnect" /\ user = "idle" /\ ~overtaken => ~IsConnected

Calm == \A k \in Links : reconnect[k] \in {"none", "Ended"}

\* A connection is gone and its pump has not noticed yet.
Lost == \E k \in Links \ open : pump[k] \in {"OnConnected", "Reading"}

\* A client that loses its connection has one again when the server can be
\* reached for good, however many attempts fail before, or else its user calls
\* Disconnect (MqClientConfiguration.cs:11, MqClient.cs:138-166).
Reconnects ==
    <>[]reachable =>
        (Lost /\ lastCall = "Connect" ~> IsConnected \/ lastCall = "Disconnect")

\* Reconnect threads, of which one may be started for each lost connection, do
\* not stay behind: they end with a connection or with a Disconnect
\* (MqClient.cs:142).
ReconnectThreadsEnd ==
    (<>[]IsConnected \/ <>[](lastCall = "Disconnect" /\ ~overtaken)) => <>[]Calm
=============================================================================
