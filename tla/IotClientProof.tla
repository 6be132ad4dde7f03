--------------------------- MODULE IotClientProof ---------------------------
(***************************************************************************)
(* Proofs about IotClient, for any number of API calls and power cuts.     *)
(***************************************************************************)
EXTENDS IotClient, TLAPS

\* What other threads can write to nextstate.
Requested == {"START", "STOP", "RESET", "MQTT_RECONNECT"}

\* s is the state a handler is running for, or the one the next yield will enter.
Ahead(s) == nextstate = s \/ (pc # "top" /\ state = s)

\* A handler part-way belongs to its state, and until it ends nextstate is that
\* state or something another thread asked for.
HandlerLinked ==
    /\ pc # "top" => nextstate = state \/ nextstate \in Requested
    /\ pc = "subscribe" => state = "DATA_LOAD"
    /\ pc \in {"pend", "woken", "fail", "got"} => state = "TOKEN_PENDING"
    /\ pc \in {"record", "stored"} => state = "ACTIVATING"
    /\ pc \in {"del_schema", "del_record", "reset_end"} => state = "RESET"

\* The states of the way to an activation are entered by a client that is not
\* activated and, after the token was read from it, that has a binding.
WayLinked ==
    /\ Ahead("DATA_LOAD") \/ Ahead("TOKEN_PENDING") \/ Ahead("ACTIVATING") => ~is_activated
    /\ Ahead("ENDPOINT_GET") => is_activated
    /\ Ahead("NETWORK_CHECK") \/ Ahead("ENDPOINT_UPDATE") \/ Ahead("ACTIVATING")
          => is_activated \/ binding # "NULL"

\* The MQTT flags.
MqType == [inited : BOOLEAN, client : BOOLEAN, connected : BOOLEAN, manual : BOOLEAN]

\* The inductive invariant.
IotInv ==
    TypeOK /\ BootAgrees /\ HandlerLinked /\ WayLinked
------------------------------------------------------------------------------
\* tuya_mqtt_stop and tuya_mqtt_destory keep the types of the MQTT flags.
LEMMA MqTyped ==
    ASSUME TypeOK
    PROVE  /\ MqStopped(mq) \in MqType
           /\ \A m \in MqType : MqDestroyed(m) \in MqType
BY DEF TypeOK, MqType, MqStopped, MqDestroyed

\* The initial state satisfies the invariant.
LEMMA InitIotInv == Init => IotInv
<1> SUFFICES ASSUME Init PROVE IotInv
  OBVIOUS
<1>1. is_activated \in BOOLEAN /\ linkSub \in BOOLEAN /\ pairing \in BOOLEAN
  BY DEF Init
<1>2. mq \in MqType
  BY DEF Init, MqZero, MqType
<1>3. kv \in [schema : {"none", "good", "bad"}, record : {"none", "good", "bad"}]
  BY DEF Init
<1>4. TypeOK
  BY <1>1, <1>2, <1>3, IotClientAssumption DEF Init, TypeOK, States, MqType
<1>5. BootAgrees /\ HandlerLinked /\ WayLinked
  BY DEF Init, BootAgrees, HandlerLinked, WayLinked, Ahead, Requested
<1>6. QED
  BY <1>4, <1>5 DEF IotInv
------------------------------------------------------------------------------
(* One lemma per group of handlers, one step per action.                      *)
\* From the start to the token, and from the network to the activation.
LEMMA WayIotInv ==
    IotInv /\ (\/ YieldEnter \/ HandleIdle \/ HandleStart \/ HandleDataLoad \/ DataLoadSubscribes
               \/ DataLoadNoMemory
               \/ HandleNetworkCheck \/ HandleEndpointGet \/ HandleEndpointUpdate \/ HandleRestart)
        => IotInv'
<1> USE DEF IotInv, TypeOK, BootAgrees, HandlerLinked, WayLinked, Ahead, Requested,
            States, Readable, tokVars, appVars, runVars
<1>1. ASSUME IotInv, YieldEnter PROVE IotInv'
  BY <1>1 DEF YieldEnter
<1>2. ASSUME IotInv, HandleIdle PROVE IotInv'
  BY <1>2 DEF HandleIdle, Retry, In, Stay
<1>3. ASSUME IotInv, HandleStart PROVE IotInv'
  BY <1>3 DEF HandleStart, Pass, In, Done
<1>4. ASSUME IotInv, HandleDataLoad PROVE IotInv'
  BY <1>4 DEF HandleDataLoad, In, Done
<1>5. ASSUME IotInv, DataLoadNoMemory PROVE IotInv'
  BY <1>5 DEF DataLoadNoMemory, Retry, In, Stay
<1>6. ASSUME IotInv, HandleNetworkCheck PROVE IotInv'
  BY <1>6 DEF HandleNetworkCheck, NetworkUp, Retry, Stay, Pass, In, Done
<1>7. ASSUME IotInv, HandleEndpointGet PROVE IotInv'
  BY <1>7 DEF HandleEndpointGet, Pass, In, Done
<1>8. ASSUME IotInv, HandleEndpointUpdate PROVE IotInv'
  BY <1>8 DEF HandleEndpointUpdate, EndpointUpdated, Retry, Stay, Pass, In, Done
<1>9. ASSUME IotInv, HandleRestart PROVE IotInv'
  BY <1>9 DEF HandleRestart, Pass, In, Done
<1>10. ASSUME IotInv, DataLoadSubscribes PROVE IotInv'
  <2>1. linkSub' \in BOOLEAN
    BY <1>10 DEF DataLoadSubscribes
  <2>2. TypeOK'
    BY <1>10, <2>1, IotClientAssumption DEF DataLoadSubscribes, Done, MqType
  <2>3. BootAgrees' /\ HandlerLinked' /\ WayLinked'
    BY <1>10 DEF DataLoadSubscribes, Done
  <2>4. QED
    BY <2>2, <2>3
<1>11. QED
  BY <1>1, <1>2, <1>3, <1>4, <1>5, <1>6, <1>7, <1>8, <1>9, <1>10

\* The wait for a token, and its delivery by a provider's thread.
LEMMA TokenIotInv ==
    IotInv /\ (\/ TokenGetPending \/ TokenWoken \/ TokenResult \/ TokenFailed \/ TokenUse
               \/ TokenEvent \/ ProviderGoesOn)
        => IotInv'
<1> USE DEF IotInv, TypeOK, BootAgrees, HandlerLinked, WayLinked, Ahead, Requested,
            States, Readable, tokVars, appVars, runVars
<1>1. ASSUME IotInv, TokenGetPending PROVE IotInv'
  BY <1>1 DEF TokenGetPending, In
<1>2. ASSUME IotInv, TokenFailed PROVE IotInv'
  BY <1>2 DEF TokenFailed, Stay
<1>3. ASSUME IotInv, TokenResult PROVE IotInv'
  BY <1>3 DEF TokenResult
<1>4. ASSUME IotInv, TokenUse PROVE IotInv'
  BY <1>4 DEF TokenUse, Done
<1>5. ASSUME IotInv, TokenEvent PROVE IotInv'
  <2>1. linkSub' \in BOOLEAN
    BY <1>5 DEF TokenEvent
  <2>2. TypeOK'
    BY <1>5, <2>1, IotClientAssumption DEF TokenEvent, MqType
  <2>3. BootAgrees' /\ HandlerLinked' /\ WayLinked'
    BY <1>5 DEF TokenEvent
  <2>4. QED
    BY <2>2, <2>3
<1>6. ASSUME IotInv, TokenWoken PROVE IotInv'
  BY <1>6 DEF TokenWoken
<1>7. ASSUME IotInv, TokenEventResult PROVE IotInv'
  BY <1>7 DEF TokenEventResult
<1>8. ASSUME IotInv, TokenEventPosts PROVE IotInv'
  BY <1>8 DEF TokenEventPosts
<1>9. QED
  BY <1>1, <1>2, <1>3, <1>4, <1>5, <1>6, <1>7, <1>8 DEF ProviderGoesOn

\* STATE_ACTIVATING: what is stored and what is read back.
LEMMA ActivateIotInv == IotInv /\ HandleActivating => IotInv'
<1> USE DEF IotInv, TypeOK, BootAgrees, HandlerLinked, WayLinked, Ahead, Requested,
            States, Readable, tokVars, appVars, runVars
<1>1. ASSUME IotInv, ActivateHttpFails PROVE IotInv'
  BY <1>1 DEF ActivateHttpFails, Pass, In, Done
<1>2. ASSUME IotInv, ActivateBadAnswer PROVE IotInv'
  BY <1>2 DEF ActivateBadAnswer, Retry, In, Stay
<1>3. ASSUME IotInv, ActivateRecordFails PROVE IotInv'
  BY <1>3 DEF ActivateRecordFails, Stay
<1>4. ASSUME IotInv, ActivateReadBack PROVE IotInv'
  BY <1>4 DEF ActivateReadBack, Done
<1>5. ASSUME IotInv, NEW q \in {"good", "bad"}, ActivateStoreSchema(q) PROVE IotInv'
  BY <1>5 DEF ActivateStoreSchema, In
<1>6. ASSUME IotInv, NEW q \in {"good", "bad"}, ActivateStoreRecord(q) PROVE IotInv'
  BY <1>6 DEF ActivateStoreRecord
<1>7. QED
  BY <1>1, <1>2, <1>3, <1>4, <1>5, <1>6 DEF HandleActivating

\* The states of the MQTT connection, and STATE_STOP.
LEMMA MqttIotInv ==
    IotInv /\ (\/ HandleStartupUpdate \/ HandleConnectStart \/ HandleConnecting \/ HandleYield
               \/ HandleMqttReconnect \/ HandleNetworkReconnect \/ HandleStop)
        => IotInv'
<1> USE DEF IotInv, TypeOK, BootAgrees, HandlerLinked, WayLinked, Ahead, Requested,
            States, Readable, tokVars, appVars, runVars
<1>1. ASSUME IotInv, HandleStartupUpdate PROVE IotInv'
  BY <1>1 DEF HandleStartupUpdate, In, Done
<1>2. ASSUME IotInv, ConnectSucceeds PROVE IotInv'
  <2>1. mq' \in MqType
    BY <1>2 DEF ConnectSucceeds, MqType
  <2>2. TypeOK'
    BY <1>2, <2>1, IotClientAssumption DEF ConnectSucceeds, In, Done, MqType
  <2>3. BootAgrees' /\ HandlerLinked' /\ WayLinked'
    BY <1>2 DEF ConnectSucceeds, In, Done
  <2>4. QED
    BY <2>2, <2>3
<1>3. ASSUME IotInv, ConnectFails PROVE IotInv'
  <2>1. mq' \in MqType
    BY <1>3 DEF ConnectFails, MqType
  <2>2. TypeOK'
    BY <1>3, <2>1, IotClientAssumption DEF ConnectFails, In, Stay, MqType
  <2>3. BootAgrees' /\ HandlerLinked' /\ WayLinked'
    BY <1>3 DEF ConnectFails, In, Stay
  <2>4. QED
    BY <2>2, <2>3
<1>4. ASSUME IotInv, ConnectNotAuthorized PROVE IotInv'
  <2>1. mq' \in MqType
    BY <1>4 DEF ConnectNotAuthorized, MqType
  <2>2. TypeOK'
    BY <1>4, <2>1, IotClientAssumption DEF ConnectNotAuthorized, In, Done, MqType
  <2>3. BootAgrees' /\ HandlerLinked' /\ WayLinked'
    BY <1>4 DEF ConnectNotAuthorized, In, Done
  <2>4. QED
    BY <2>2, <2>3
<1>5. ASSUME IotInv, HandleConnecting PROVE IotInv'
  BY <1>5 DEF HandleConnecting, Pass, In, Done
<1>6. ASSUME IotInv, YieldLoop PROVE IotInv'
  BY <1>6 DEF YieldLoop, In, Stay
<1>7. ASSUME IotInv, YieldReset PROVE IotInv'
  BY <1>7 DEF YieldReset, In, Done
<1>8. ASSUME IotInv, HandleMqttReconnect PROVE IotInv'
  <2>1. mq' \in MqType
    BY <1>8, MqTyped DEF HandleMqttReconnect, MqType
  <2>2. TypeOK'
    BY <1>8, <2>1, IotClientAssumption DEF HandleMqttReconnect, In, Done, MqType
  <2>3. BootAgrees' /\ HandlerLinked' /\ WayLinked'
    BY <1>8 DEF HandleMqttReconnect, In, Done
  <2>4. QED
    BY <2>2, <2>3
<1>9. ASSUME IotInv, HandleNetworkReconnect PROVE IotInv'
  BY <1>9 DEF HandleNetworkReconnect, NetworkBack, Retry, Stay, Pass, In, Done
<1>10. ASSUME IotInv, HandleStop PROVE IotInv'
  <2>1. mq' \in MqType
    BY <1>10, MqTyped DEF HandleStop, MqType
  <2>2. TypeOK'
    BY <1>10, <2>1, IotClientAssumption DEF HandleStop, In, Done, MqType
  <2>3. BootAgrees' /\ HandlerLinked' /\ WayLinked'
    BY <1>10 DEF HandleStop, In, Done
  <2>4. QED
    BY <2>2, <2>3
<1>11. QED
  BY <1>1, <1>2, <1>3, <1>4, <1>5, <1>6, <1>7, <1>8, <1>9, <1>10 DEF HandleConnectStart, HandleYield

\* STATE_RESET, one stored key after the other.
LEMMA ResetIotInv == IotInv /\ HandleReset => IotInv'
<1> USE DEF IotInv, TypeOK, BootAgrees, HandlerLinked, WayLinked, Ahead, Requested,
            States, Readable, tokVars, appVars, runVars
<1>1. ASSUME IotInv, ResetBegin PROVE IotInv'
  <2>1. mq' \in MqType
    BY <1>1, MqTyped DEF ResetBegin, MqType
  <2>2. TypeOK'
    BY <1>1, <2>1, IotClientAssumption DEF ResetBegin, In, MqType
  <2>3. BootAgrees' /\ HandlerLinked' /\ WayLinked'
    BY <1>1 DEF ResetBegin, In
  <2>4. QED
    BY <2>2, <2>3
<1>2. ASSUME IotInv, ResetDelSchema PROVE IotInv'
  BY <1>2 DEF ResetDelSchema
<1>3. ASSUME IotInv, ResetDelRecord PROVE IotInv'
  <2>1. is_activated' \in BOOLEAN
    BY <1>3 DEF ResetDelRecord
  <2>2. TypeOK'
    BY <1>3, <2>1, IotClientAssumption DEF ResetDelRecord, MqType
  <2>3. BootAgrees' /\ HandlerLinked' /\ WayLinked'
    BY <1>3 DEF ResetDelRecord
  <2>4. QED
    BY <2>2, <2>3
<1>4. ASSUME IotInv, ResetEnd PROVE IotInv'
  BY <1>4 DEF ResetEnd, Done
<1>5. QED
  BY <1>1, <1>2, <1>3, <1>4 DEF HandleReset

\* A power cut or a hard fault at any point.
LEMMA RebootIotInv == IotInv /\ Reboot /\ boots' \in 0..MaxBoots => IotInv'
<1> SUFFICES ASSUME IotInv, Reboot, boots' \in 0..MaxBoots PROVE IotInv'
  OBVIOUS
<1>1. is_activated' \in BOOLEAN /\ linkSub' \in BOOLEAN /\ pairing' \in BOOLEAN
  BY DEF Reboot, Readable
<1>2. mq' \in MqType
  BY DEF Reboot, MqZero, MqType
<1>3. TypeOK'
  BY <1>1, <1>2 DEF Reboot, IotInv, TypeOK, MqType, States
<1>4. BootAgrees' /\ HandlerLinked' /\ WayLinked'
  BY DEF Reboot, BootAgrees, HandlerLinked, WayLinked, Ahead, Requested, Readable
<1>5. QED
  BY <1>3, <1>4 DEF IotInv

\* The calls of other threads.
LEMMA ApiIotInv ==
    IotInv /\ (Requests \/ CallerGoesOn) => IotInv'
<1> USE DEF IotInv, TypeOK, BootAgrees, HandlerLinked, WayLinked, Ahead, Requested,
            States, Readable, tokVars, appVars, runVars
<1>1. ASSUME IotInv, tuya_iot_start PROVE IotInv'
  BY <1>1, IotClientAssumption DEF tuya_iot_start, Tested, Api
<1>2. ASSUME IotInv, tuya_iot_stop PROVE IotInv'
  BY <1>2, IotClientAssumption DEF tuya_iot_stop, Api
<1>3. ASSUME IotInv, tuya_iot_reconnect PROVE IotInv'
  BY <1>3, IotClientAssumption DEF tuya_iot_reconnect, Tested, Api
<1>4. ASSUME IotInv, tuya_iot_reset PROVE IotInv'
  BY <1>4, IotClientAssumption DEF tuya_iot_reset, Api
<1>5. ASSUME IotInv, ReconnectWrites PROVE IotInv'
  BY <1>5 DEF ReconnectWrites, Writes
<1>6. ASSUME IotInv, ResetWakes PROVE IotInv'
  BY <1>6 DEF ResetWakes
<1>7. ASSUME IotInv, StartWrites PROVE IotInv'
  BY <1>7 DEF StartWrites, Writes
<1>8. ASSUME IotInv, ResetResult PROVE IotInv'
  BY <1>8 DEF ResetResult
<1>9. QED
  BY <1>1, <1>2, <1>3, <1>4, <1>5, <1>6, <1>7, <1>8 DEF Requests, CallerGoesOn
------------------------------------------------------------------------------
\* Every step keeps the invariant.
LEMMA NextIotInv == IotInv /\ [Next]_vars => IotInv'
<1> SUFFICES ASSUME IotInv, [Next]_vars PROVE IotInv'
  OBVIOUS
<1>1. CASE UNCHANGED vars
  BY <1>1 DEF vars, IotInv, TypeOK, BootAgrees, HandlerLinked, WayLinked, Ahead,
              Readable, tokVars, appVars, runVars
<1>2. CASE PowerCut
  <2>1. boots' \in 0..MaxBoots
    BY <1>2, IotClientAssumption DEF PowerCut, IotInv, TypeOK
  <2>2. QED
    BY <1>2, <2>1, RebootIotInv DEF PowerCut
<1>3. ASSUME HardFault PROVE IotInv'
  BY <1>3, RebootIotInv DEF HardFault, IotInv, TypeOK
<1>4. CASE Provider
  BY <1>3, <1>4, TokenIotInv DEF Provider, TokenEventNull
<1>5. CASE Yield
  BY <1>3, <1>5, WayIotInv, TokenIotInv, ActivateIotInv, MqttIotInv, ResetIotInv
     DEF Yield, StopFaults, TokenUseNull
<1>6. QED
  BY <1>1, <1>2, <1>4, <1>5, ApiIotInv DEF Next

\* The inductive invariant holds for any number of API calls and power cuts.
THEOREM IotInvariant == Spec => []IotInv
<1>1. QED
  BY InitIotInv, NextIotInv, PTL DEF Spec

\* Whatever failed writes, resets and power cuts came before, a boot would read
\* back the activation of an activated client.
THEOREM BootTheorem == Spec => []BootAgrees
<1>1. IotInv => BootAgrees
  BY DEF IotInv
<1>2. QED
  BY IotInvariant, <1>1, PTL

\* client->binding is never NULL where STATE_ACTIVATING reads it, and no activated
\* client is activated again.
THEOREM BindingTheorem == Spec => []BindingIsThere
<1>1. IotInv => BindingIsThere
  BY DEF IotInv, TypeOK, HandlerLinked, WayLinked, Ahead, BindingIsThere
<1>2. QED
  BY IotInvariant, <1>1, PTL

\* Types of all variables of the client.
THEOREM IotTypeTheorem == Spec => []TypeOK
<1>1. IotInv => TypeOK
  BY DEF IotInv
<1>2. QED
  BY IotInvariant, <1>1, PTL
=============================================================================
