--------------------------- MODULE MqClientProofs ---------------------------
(***************************************************************************)
(* Proofs about MqClient, for both constructors, every value of            *)
(* AutoReconnect and any number of connections.                            *)
(***************************************************************************)
EXTENDS MqClient, TLAPS

\* What a Disconnect that met no attempt has achieved, and nobody undoes until
\* the next Connect: the flag is set, and there is no thread left that would
\* connect or clear it.
Final ==
    /\ user = "Connect" => lastCall = "Connect"
    /\ lastCall = "Disconnect" /\ ~overtaken =>
          /\ explicitDisconnect /\ ~AttemptUnderWay
          /\ user = "idle" => ~IsConnected

\* What RmClient.Connect does to the connections keeps their types, and does
\* not touch the pumps that run already.
LEMMA RmConnectFacts ==
    ASSUME ClientTypeOK, RmConnect \/ RmConnectThrows
    PROVE  /\ made' \in 0..MaxConnections
           /\ open' \subseteq {made'} /\ open' \subseteq Links
           /\ pump' \in [Links -> {"none", "OnConnected", "Reading", "Ended"}]
           /\ \A k \in Links :
                 /\ pump'[k] = "none" <=> k > made'
                 /\ k \in open' => pump'[k] \in {"OnConnected", "Reading"}
                 /\ pump[k] = "Ended" => pump'[k] = "Ended"
<1> USE ClientAssumption DEF Links
<1>1. CASE UNCHANGED <<made, open, pump>>
  BY <1>1 DEF ClientTypeOK
<1>2. CASE /\ made < MaxConnections /\ made' = made + 1
           /\ open' = {made'} /\ PumpGoto(made', "OnConnected")
  BY <1>2 DEF ClientTypeOK, PumpGoto
<1> QED
  BY <1>1, <1>2 DEF RmConnect, RmConnectThrows

\* Types are kept by every step.
LEMMA TypeStep ==
    ASSUME ClientTypeOK, [ClientNext]_clientVars
    PROVE  ClientTypeOK'
<1> USE ClientAssumption
<1>1. CASE Connect \/ Disconnect \/ ReachableChanges
  BY <1>1 DEF ClientTypeOK, Connect, Disconnect, ReachableChanges, AttemptUnderWay,
              IsConnected
<1>2. CASE Connect_Rm
  <2>1. UNCHANGED <<explicitDisconnect, reachable, lastCall, overtaken, reconnect>>
        /\ user' = "idle"
    BY <1>2 DEF Connect_Rm
  <2> QED
    BY <1>2, <2>1, RmConnectFacts DEF ClientTypeOK, Connect_Rm
<1>3. CASE Disconnect_Rm
  BY <1>3 DEF ClientTypeOK, Disconnect_Rm
<1>4. ASSUME NEW k \in Links, ConnectionLost(k) PROVE ClientTypeOK'
  BY <1>4 DEF ClientTypeOK, ConnectionLost
<1>5. ASSUME NEW k \in Links, Pump(k) PROVE ClientTypeOK'
  BY <1>5 DEF ClientTypeOK, Pump, RmClient_OnConnected, RmClient_OnDisconnected,
              PumpGoto, ReconnectGoto, Links
<1>6. ASSUME NEW k \in Links, Reconnect_TestFlag(k) \/ Reconnect_TestConnected(k)
                           \/ Reconnect_Sleep(k)
      PROVE  ClientTypeOK'
  BY <1>6 DEF ClientTypeOK, Reconnect_TestFlag, Reconnect_TestConnected, Reconnect_Sleep,
              ReconnectGoto
<1>7. ASSUME NEW k \in Links, Reconnect_Connect(k) PROVE ClientTypeOK'
  <2>1. /\ UNCHANGED <<explicitDisconnect, reachable, user, lastCall, overtaken>>
        /\ reconnect[k] = "Connect" /\ reconnect' = [reconnect EXCEPT ![k] = "Sleep"]
    BY <1>7 DEF Reconnect_Connect, ReconnectGoto
  <2> QED
    BY <1>7, <2>1, RmConnectFacts DEF ClientTypeOK, Reconnect_Connect
<1>8. CASE UNCHANGED clientVars
  BY <1>8 DEF ClientTypeOK, clientVars
<1> QED
  BY <1>1, <1>2, <1>3, <1>4, <1>5, <1>6, <1>7, <1>8 DEF ClientNext, User,
     ReconnectThread

\* Types of a new client.
LEMMA ClientInitTypes == ClientInit => ClientTypeOK
<1> SUFFICES ASSUME ClientInit PROVE ClientTypeOK
  OBVIOUS
<1>1. made \in 0..MaxConnections /\ \A k \in Links : k > made
  BY ClientAssumption DEF ClientInit, Links
<1>2. \A k \in Links : pump[k] = "none" /\ reconnect[k] = "none"
  BY DEF ClientInit
<1>3. open = {}
  BY DEF ClientInit
<1>4. /\ pump \in [Links -> {"none", "OnConnected", "Reading", "Ended"}]
      /\ reconnect \in [Links -> {"none", "TestFlag", "TestConnected", "Connect",
                               "Sleep", "Ended"}]
  BY DEF ClientInit
<1> QED
  BY <1>1, <1>2, <1>3, <1>4 DEF ClientInit, ClientTypeOK

\* Types of the client's variables, and of the threads of a connection
\* (MqClient.cs:128-168), for any number of connections.
THEOREM ClientTypeCorrect == ClientSpec => []ClientTypeOK
<1> QED
  BY ClientInitTypes, TypeStep, PTL DEF ClientSpec

\* Nothing but Connect undoes a Disconnect that met no attempt.
LEMMA FinalStep ==
    ASSUME ClientTypeOK, Final, [ClientNext]_clientVars
    PROVE  Final'
<1> USE DEF Final, AttemptUnderWay, IsConnected
<1>1. CASE Connect
  BY <1>1 DEF Connect
<1>2. CASE Connect_Rm
  BY <1>2 DEF Connect_Rm
<1>3. CASE Disconnect
  BY <1>3 DEF Disconnect
<1>4. CASE Disconnect_Rm
  BY <1>4 DEF Disconnect_Rm
<1>5. CASE ReachableChanges
  BY <1>5 DEF ReachableChanges
<1>6. ASSUME NEW k \in Links, ConnectionLost(k) PROVE Final'
  BY <1>6 DEF ConnectionLost
<1>7. ASSUME NEW k \in Links, RmClient_OnConnected(k) PROVE Final'
  BY <1>7 DEF RmClient_OnConnected, PumpGoto, ClientTypeOK
<1>8. ASSUME NEW k \in Links, RmClient_OnDisconnected(k) PROVE Final'
  BY <1>8 DEF RmClient_OnDisconnected, PumpGoto, ReconnectGoto, ClientTypeOK
<1>9. ASSUME NEW k \in Links, Reconnect_TestFlag(k) \/ Reconnect_TestConnected(k)
                           \/ Reconnect_Sleep(k)
      PROVE  Final'
  BY <1>9 DEF Reconnect_TestFlag, Reconnect_TestConnected, Reconnect_Sleep, ReconnectGoto,
              ClientTypeOK, Links
<1>10. ASSUME NEW k \in Links, Reconnect_Connect(k) PROVE Final'
  BY <1>10 DEF Reconnect_Connect
<1>11. CASE UNCHANGED clientVars
  BY <1>11 DEF clientVars
<1> QED
  BY <1>1, <1>2, <1>3, <1>4, <1>5, <1>6, <1>7, <1>8, <1>9, <1>10, <1>11
     DEF ClientNext, User, Pump, ReconnectThread

\* Disconnect is final (MqClient.cs:207-211) unless a reconnect thread was past
\* its read of _explicitDisconnect, or the OnConnected of a fresh connection was
\* pending, when it was called.
THEOREM FinalDisconnect == ClientSpec => []DisconnectIsFinal
<1>1. ClientInit => Final
  BY DEF ClientInit, Final
<1>2. ClientTypeOK /\ Final /\ [ClientNext]_clientVars => Final'
  BY FinalStep
<1>3. Final => DisconnectIsFinal
  BY DEF Final, DisconnectIsFinal
<1> QED
  BY <1>1, <1>2, <1>3, ClientTypeCorrect, PTL DEF ClientSpec
=============================================================================
