------------------------------ MODULE IotClient ------------------------------
(***************************************************************************)
(* The client state machine of src/src/tuya_cloud_service/cloud/tuya_iot.c.*)
(*                                                                         *)
(* The main thread calls tuya_iot_yield for ever: it copies nextstate to   *)
(* state and runs the handler of that state, which most often ends by      *)
(* assigning nextstate.  Other threads call tuya_iot_start, _stop, _reset  *)
(* and _reconnect, which assign nextstate too, and deliver the binding     *)
(* token.  Nothing is locked, so the copy (pc "top" to "run") and the end  *)
(* of the handler (back to "top") are separate steps.  The key-value store *)
(* survives a power cut; the MQTT client is reduced to its flags.          *)
(* An access through a NULL pointer is a hard fault: the device restarts.  *)
(***************************************************************************)
EXTENDS Integers

CONSTANTS
    MaxOps,    \* bound: API calls from other threads
    MaxBoots   \* bound: power cuts

ASSUME IotClientAssumption == MaxOps \in Nat /\ MaxBoots \in Nat

VARIABLES
    state, nextstate,
    pc,            \* main thread: between yields, in a handler, or part-way in it
    is_activated,
    binding,       \* client->binding: "NULL", "empty" or "token"
    sem, result,   \* token_get
    linkSub,       \* the one-time subscription to EVENT_LINK_ACTIVATE exists
    pairing,       \* a token provider has been started by TOKEN_PENDING
    evPc,          \* the provider's thread, in tuya_iot_token_activate_evt
    mq,            \* client->mqctx: is_inited, mqtt_client # NULL, is_connected, manual_disconnect
    kv,            \* stored schema and activation record: "none", "good" or "bad"
    appPc, ops, boots

runVars == <<state, nextstate, pc>>
tokVars == <<sem, result, linkSub, pairing, evPc>>
appVars == <<appPc, ops, boots>>
vars == <<runVars, is_activated, binding, tokVars, mq, kv, appVars>>

States == {"IDLE", "START", "DATA_LOAD", "ENDPOINT_GET", "ENDPOINT_UPDATE", "TOKEN_PENDING",
           "ACTIVATING", "NETWORK_CHECK", "NETWORK_RECONNECT", "STARTUP_UPDATE",
           "MQTT_CONNECT_START", "MQTT_CONNECTING", "MQTT_RECONNECT", "MQTT_YIELD",
           "RESTART", "RESET", "STOP"}

MqZero == [inited |-> FALSE, client |-> FALSE, connected |-> FALSE, manual |-> FALSE]

\* activated_data_read and schema_instance_create succeed on what is stored.
Readable(store) == store.record = "good" /\ store.schema = "good"

Init ==
    /\ state = "IDLE" /\ nextstate = "IDLE" /\ pc = "top"
    /\ is_activated = FALSE /\ binding = "NULL"
    /\ sem = 0 /\ result = "OK" /\ linkSub = FALSE /\ pairing = FALSE
    /\ evPc = "idle"
    /\ mq = MqZero
    /\ kv = [schema |-> "none", record |-> "none"]
    /\ appPc = "idle" /\ ops = 0 /\ boots = 0

(* tuya_iot_init after a power cut, or after the hard fault of a NULL access. *)
Reboot ==
    /\ state' = "IDLE" /\ nextstate' = "IDLE" /\ pc' = "top"
    /\ is_activated' = Readable(kv) /\ binding' = "NULL"
    /\ sem' = 0 /\ result' = "OK" /\ linkSub' = FALSE /\ pairing' = FALSE
    /\ evPc' = "idle"
    /\ mq' = MqZero
    /\ appPc' = "idle"
    /\ UNCHANGED <<kv, ops>>

PowerCut == boots < MaxBoots /\ boots' = boots + 1 /\ Reboot
HardFault == UNCHANGED boots /\ Reboot

------------------------------------------------------------------------------
(* The frame of tuya_iot_yield.                                               *)
YieldEnter ==
    /\ pc = "top"
    /\ state' = nextstate /\ pc' = "run"
    /\ UNCHANGED <<nextstate, is_activated, binding, tokVars, mq, kv, appVars>>

In(s) == pc = "run" /\ state = s

\* The handler ends with nextstate = s, or leaves nextstate as it is.
Done(s) == pc' = "top" /\ nextstate' = s /\ UNCHANGED state
Stay == pc' = "top" /\ UNCHANGED <<state, nextstate>>

Pass(s, t) ==
    /\ In(s) /\ Done(t)
    /\ UNCHANGED <<is_activated, binding, tokVars, mq, kv, appVars>>

Retry(s) ==
    /\ In(s) /\ Stay
    /\ UNCHANGED <<is_activated, binding, tokVars, mq, kv, appVars>>

HandleIdle == Retry("IDLE")
HandleStartForgets == Retry("START")
HandleStart == Pass("START", IF is_activated THEN "NETWORK_CHECK" ELSE "DATA_LOAD")
HandleRestartUnknown == Pass("RESTART", "UNKNOWN")
HandleRestart == Pass("RESTART", "START")

\* STATE_DATA_LOAD: allocate the binding and subscribe, once, to the link event;
\* without memory the state is run again.  Only START leads here, and nothing
\* activates the client in between, so the branch for an activated client is dead.
HandleDataLoad ==
    /\ In("DATA_LOAD")
    /\ binding' = "empty" /\ pc' = "subscribe"
    /\ UNCHANGED <<state, nextstate, is_activated, tokVars, mq, kv, appVars>>

\* The event's mutex is held while its callbacks run.
DataLoadSubscribes ==
    /\ pc = "subscribe" /\ evPc = "idle"
    /\ linkSub' = TRUE
    /\ Done("TOKEN_PENDING")
    /\ UNCHANGED <<is_activated, binding, sem, result, pairing, evPc, mq, kv, appVars>>

DataLoadNoMemory ==
    /\ In("DATA_LOAD") /\ Stay
    /\ binding' = "NULL"
    /\ UNCHANGED <<is_activated, tokVars, mq, kv, appVars>>

\* STATE_NETWORK_CHECK, STATE_ENDPOINT_GET, STATE_ENDPOINT_UPDATE
NetworkUp == Pass("NETWORK_CHECK", IF is_activated THEN "ENDPOINT_GET" ELSE "ENDPOINT_UPDATE")
HandleNetworkCheck == NetworkUp \/ Retry("NETWORK_CHECK")
HandleEndpointGet ==
    Pass("ENDPOINT_GET", "STARTUP_UPDATE") \/ Pass("ENDPOINT_GET", "ENDPOINT_UPDATE")
EndpointUpdated ==
    Pass("ENDPOINT_UPDATE", IF is_activated THEN "STARTUP_UPDATE" ELSE "ACTIVATING")
HandleEndpointUpdate == EndpointUpdated \/ Retry("ENDPOINT_UPDATE")

------------------------------------------------------------------------------
(* STATE_TOKEN_PENDING: start the token providers and wait for the semaphore. *)
TokenGetPending ==
    /\ In("TOKEN_PENDING")
    /\ pc' = "pend" /\ pairing' = TRUE
    /\ UNCHANGED <<state, nextstate, is_activated, binding, sem, result, linkSub, evPc, mq, kv,
                   appVars>>

TokenWoken ==
    /\ pc = "pend" /\ sem = 1
    /\ sem' = 0 /\ pc' = "woken"
    /\ UNCHANGED <<state, nextstate, is_activated, binding, result, linkSub, pairing, evPc, mq, kv,
                   appVars>>

\* token_get.result is read after the wait: it may have changed since the post.
TokenResult ==
    /\ pc = "woken"
    /\ pc' = IF result = "OK" THEN "got" ELSE "fail"
    /\ UNCHANGED <<state, nextstate, is_activated, binding, tokVars, mq, kv, appVars>>

\* The wait failed: the binding is freed and nextstate is left alone.
TokenFailedKept ==
    /\ pc = "fail"
    /\ binding' = "NULL"
    /\ Done("NETWORK_CHECK")
    /\ UNCHANGED <<is_activated, tokVars, mq, kv, appVars>>
TokenFailed ==
    /\ pc = "fail"
    /\ binding' = "NULL"
    /\ Stay
    /\ UNCHANGED <<is_activated, tokVars, mq, kv, appVars>>

\* The token is used and announced, then nextstate is assigned.
TokenUse ==
    /\ pc = "got" /\ binding # "NULL"
    /\ Done("NETWORK_CHECK")
    /\ UNCHANGED <<is_activated, binding, tokVars, mq, kv, appVars>>

\* A wake-up that an earlier wait left behind finds no binding.
TokenUseNull == pc = "got" /\ binding = "NULL" /\ HardFault

(* tuya_iot_token_activate_evt, on a provider's thread: the binding is filled, *)
(* the result assigned and the semaphore posted; or the memcpy is into NULL.   *)
TokenEvent ==
    /\ linkSub /\ pairing /\ evPc = "idle"
    /\ linkSub' = FALSE /\ evPc' = "filled"
    /\ binding # "NULL" /\ binding' = "token"
    /\ UNCHANGED <<runVars, is_activated, sem, result, pairing, mq, kv, appVars>>

TokenEventNull == linkSub /\ pairing /\ evPc = "idle" /\ binding = "NULL" /\ HardFault

TokenEventResult ==
    /\ evPc = "filled" /\ evPc' = "post"
    /\ result' = "OK"
    /\ UNCHANGED <<runVars, is_activated, binding, sem, linkSub, pairing, mq, kv, appVars>>

TokenEventPosts ==
    /\ evPc = "post" /\ evPc' = "idle"
    /\ sem' = 1
    /\ UNCHANGED <<runVars, is_activated, binding, result, linkSub, pairing, mq, kv, appVars>>

------------------------------------------------------------------------------
(* STATE_ACTIVATING: client_activate_process, activate_response_parse and what *)
(* follows.  Each write to the store is a step that a power cut may precede.   *)
ActivateHttpFails == Pass("ACTIVATING", "RESTART")

\* No usable answer: try again.
ActivateBadAnswer == Retry("ACTIVATING")

\* The answer's schema is stored first ...
ActivateStoreSchema(quality) ==
    /\ In("ACTIVATING")
    /\ kv' = [kv EXCEPT !.schema = quality]
    /\ pc' = "record"
    /\ UNCHANGED <<state, nextstate, is_activated, binding, tokVars, mq, appVars>>

\* ... then the record; a failed write ends the attempt, which is retried.
ActivateStoreRecord(quality) ==
    /\ pc = "record"
    /\ kv' = [kv EXCEPT !.record = quality]
    /\ pc' = "stored"
    /\ UNCHANGED <<state, nextstate, is_activated, binding, tokVars, mq, appVars>>

ActivateRecordFails ==
    /\ pc = "record" /\ Stay
    /\ UNCHANGED <<is_activated, binding, tokVars, mq, kv, appVars>>

\* What was stored is read back: an unreadable record or schema leads to RESET.
ActivateUnchecked ==
    /\ pc = "stored"
    /\ binding' = "NULL" /\ is_activated' = TRUE
    /\ Done("STARTUP_UPDATE")
    /\ UNCHANGED <<tokVars, mq, kv, appVars>>
ActivateReadBack ==
    /\ pc = "stored"
    /\ binding' = "NULL"
    /\ is_activated' = (is_activated \/ Readable(kv))
    /\ Done(IF Readable(kv) THEN "STARTUP_UPDATE" ELSE "RESET")
    /\ UNCHANGED <<tokVars, mq, kv, appVars>>

HandleActivating ==
    \/ ActivateHttpFails \/ ActivateBadAnswer \/ ActivateRecordFails \/ ActivateReadBack
    \/ \E quality \in {"good", "bad"} : ActivateStoreSchema(quality) \/ ActivateStoreRecord(quality)

------------------------------------------------------------------------------
(* STATE_STARTUP_UPDATE: tuya_mqtt_init, whose failure is not looked at.      *)
HandleStartupUpdate ==
    /\ In("STARTUP_UPDATE")
    /\ \E ok \in BOOLEAN :
          mq' = [inited |-> ok, client |-> ok, connected |-> FALSE, manual |-> ok]
    /\ Done("MQTT_CONNECT_START")
    /\ UNCHANGED <<is_activated, binding, tokVars, kv, appVars>>

\* STATE_MQTT_CONNECT_START: tuya_mqtt_start.
ConnectSucceeds ==
    /\ In("MQTT_CONNECT_START") /\ mq.inited
    /\ mq' = [mq EXCEPT !.connected = TRUE, !.manual = FALSE]
    /\ Done("MQTT_CONNECTING")
    /\ UNCHANGED <<is_activated, binding, tokVars, kv, appVars>>

ConnectFails ==
    /\ In("MQTT_CONNECT_START")
    /\ mq' = IF mq.inited THEN [mq EXCEPT !.manual = FALSE] ELSE mq
    /\ Stay
    /\ UNCHANGED <<is_activated, binding, tokVars, kv, appVars>>

\* The broker does not authorise the device: mqtt_client_unbind_on asks for RESET.
ConnectNotAuthorized ==
    /\ In("MQTT_CONNECT_START") /\ mq.inited
    /\ mq' = [mq EXCEPT !.manual = FALSE]
    /\ Done("RESET")
    /\ UNCHANGED <<is_activated, binding, tokVars, kv, appVars>>

HandleConnectStart == ConnectSucceeds \/ ConnectFails \/ ConnectNotAuthorized

\* STATE_MQTT_CONNECTING: tuya_mqtt_start succeeded on this thread, which alone
\* clears the flag, so the state never waits.
HandleConnecting == mq.connected /\ Pass("MQTT_CONNECTING", "MQTT_YIELD")

(* STATE_MQTT_YIELD: tuya_mqtt_loop and its callbacks.  nextstate changes only *)
(* when the cloud resets or unbinds the device.                                *)
YieldLoopReasserts ==
    /\ In("MQTT_YIELD") /\ Done("MQTT_YIELD")
    /\ UNCHANGED <<is_activated, binding, tokVars, mq, kv, appVars>>
YieldLoop ==
    /\ In("MQTT_YIELD") /\ Stay
    /\ \/ UNCHANGED mq
       \/ \E up \in BOOLEAN : mq.inited /\ ~mq.manual /\ mq' = [mq EXCEPT !.connected = up]
    /\ UNCHANGED <<is_activated, binding, tokVars, kv, appVars>>

\* mqtt_service_reset_cmd_on (connected) or mqtt_client_unbind_on (connecting).
YieldReset ==
    /\ In("MQTT_YIELD") /\ mq.inited /\ ~mq.manual
    /\ Done("RESET")
    /\ UNCHANGED <<is_activated, binding, tokVars, mq, kv, appVars>>

HandleYield == YieldLoop \/ YieldReset

------------------------------------------------------------------------------
(* tuya_mqtt_stop and tuya_mqtt_destory.  The latter forgets mqtt_client and   *)
(* keeps is_inited, so that a later tuya_mqtt_stop goes through a NULL client. *)
MqStopped(m) == IF m.inited THEN [m EXCEPT !.connected = FALSE, !.manual = TRUE] ELSE m
MqDestroyed(m) == IF m.inited THEN [m EXCEPT !.client = FALSE] ELSE m
StopIsNullAccess == mq.inited /\ ~mq.client

\* STATE_MQTT_RECONNECT and STATE_NETWORK_RECONNECT
HandleMqttReconnect ==
    /\ In("MQTT_RECONNECT") /\ ~StopIsNullAccess
    /\ mq' = MqStopped(mq)
    /\ Done("MQTT_CONNECT_START") \/ Done("NETWORK_RECONNECT")
    /\ UNCHANGED <<is_activated, binding, tokVars, kv, appVars>>

NetworkBack == Pass("NETWORK_RECONNECT", "MQTT_CONNECT_START")
HandleNetworkReconnect == NetworkBack \/ Retry("NETWORK_RECONNECT")

\* STATE_STOP
HandleStop ==
    /\ In("STOP") /\ ~StopIsNullAccess
    /\ mq' = MqDestroyed(MqStopped(mq))
    /\ Done("IDLE")
    /\ UNCHANGED <<is_activated, binding, tokVars, kv, appVars>>

StopFaults == (In("STOP") \/ In("MQTT_RECONNECT")) /\ StopIsNullAccess /\ HardFault

(* STATE_RESET: run_state_reset stops MQTT and announces EVENT_RESET, then     *)
(* tuya_iot_activated_data_remove erases the schema and the record, in that    *)
(* order, and only of an activated client.  It looks at no result of           *)
(* tal_kv_del: a key that could not be deleted stays.                          *)
ResetBegin ==
    /\ In("RESET")
    /\ mq' = MqDestroyed(IF is_activated /\ mq.connected THEN MqStopped(mq) ELSE mq)
    /\ pc' = IF is_activated THEN "del_schema" ELSE "reset_end"
    /\ UNCHANGED <<state, nextstate, is_activated, binding, tokVars, kv, appVars>>

ResetDelSchema ==
    /\ pc = "del_schema"
    /\ kv' \in {kv, [kv EXCEPT !.schema = "none"]}
    /\ pc' = "del_record"
    /\ UNCHANGED <<state, nextstate, is_activated, binding, tokVars, mq, appVars>>

ResetDelRecord ==
    /\ pc = "del_record"
    /\ kv' \in {kv, [kv EXCEPT !.record = "none"]}
    /\ is_activated' = FALSE
    /\ pc' = "reset_end"
    /\ UNCHANGED <<state, nextstate, binding, tokVars, mq, appVars>>

ResetEnd ==
    /\ pc = "reset_end"
    /\ Done("RESTART")
    /\ UNCHANGED <<is_activated, binding, tokVars, mq, kv, appVars>>

HandleReset == ResetBegin \/ ResetDelSchema \/ ResetDelRecord \/ ResetEnd

------------------------------------------------------------------------------
(* The API, called from other threads.                                        *)
Api == appPc = "idle" /\ ops < MaxOps /\ ops' = ops + 1

tuya_iot_stop ==
    /\ Api
    /\ nextstate' = "STOP"
    /\ UNCHANGED <<state, pc, is_activated, binding, tokVars, mq, kv, appPc, boots>>

\* tuya_iot_start and tuya_iot_reconnect: state may have moved on between the test
\* and the request.
Tested(s, step) ==
    /\ Api
    /\ state = s /\ appPc' = step
    /\ UNCHANGED <<runVars, is_activated, binding, tokVars, mq, kv, boots>>

Writes(step, s) ==
    /\ appPc = step /\ appPc' = "idle"
    /\ nextstate' = s
    /\ UNCHANGED <<state, pc, is_activated, binding, tokVars, mq, kv, ops, boots>>

tuya_iot_start == Tested("IDLE", "start")
StartWrites == Writes("start", "START")

tuya_iot_reconnect == Tested("MQTT_YIELD", "reconnect")
ReconnectWrites == Writes("reconnect", "MQTT_RECONNECT")

\* tuya_iot_reset: the request, then, with state read again, the result and the
\* wake-up.
tuya_iot_reset ==
    /\ Api
    /\ nextstate' = "RESET" /\ appPc' = "reset"
    /\ UNCHANGED <<state, pc, is_activated, binding, tokVars, mq, kv, boots>>

ResetResult ==
    /\ appPc = "reset"
    /\ IF state = "TOKEN_PENDING"
       THEN result' = "ERR" /\ appPc' = "wake"
       ELSE appPc' = "idle" /\ UNCHANGED result
    /\ UNCHANGED <<runVars, is_activated, binding, sem, linkSub, pairing, evPc, mq, kv, ops, boots>>

ResetWakes ==
    /\ appPc = "wake" /\ appPc' = "idle"
    /\ sem' = 1
    /\ UNCHANGED <<runVars, is_activated, binding, result, linkSub, pairing, evPc, mq, kv, ops,
                   boots>>

------------------------------------------------------------------------------
Yield ==
    \/ YieldEnter \/ HandleIdle \/ HandleStart \/ HandleDataLoad \/ DataLoadSubscribes
    \/ DataLoadNoMemory
    \/ TokenGetPending \/ TokenWoken \/ TokenResult \/ TokenFailed \/ TokenUse \/ TokenUseNull
    \/ HandleNetworkCheck \/ HandleEndpointGet \/ HandleEndpointUpdate \/ HandleActivating
    \/ HandleStartupUpdate \/ HandleConnectStart \/ HandleConnecting \/ HandleYield
    \/ HandleMqttReconnect \/ HandleNetworkReconnect
    \/ HandleRestart \/ HandleReset \/ HandleStop \/ StopFaults

ProviderGoesOn == TokenEventResult \/ TokenEventPosts
Provider == TokenEvent \/ TokenEventNull \/ ProviderGoesOn

\* A thread inside a call or a callback goes on.
CallerGoesOn == StartWrites \/ ReconnectWrites \/ ResetResult \/ ResetWakes

Requests == tuya_iot_start \/ tuya_iot_stop \/ tuya_iot_reconnect \/ tuya_iot_reset

Next == Yield \/ Provider \/ PowerCut \/ Requests \/ CallerGoesOn

(* The application calls tuya_iot_yield in an endless loop; a thread inside a  *)
(* call or a callback goes on.  What the main thread retries succeeds if tried *)
(* often enough: memory, network, cloud and broker, and the store's write.     *)
(* Nothing is promised of users, tokens and power cuts.                        *)
Succeeds ==
    \/ HandleDataLoad \/ NetworkUp \/ EndpointUpdated \/ ActivateStoreSchema("good")
    \/ ConnectSucceeds \/ NetworkBack

Fairness ==
    /\ WF_vars(Yield) /\ WF_vars(CallerGoesOn) /\ WF_vars(ProviderGoesOn)
    /\ SF_vars(Succeeds) /\ SF_vars(ActivateStoreRecord("good"))

Spec == Init /\ [][Next]_vars /\ Fairness

------------------------------------------------------------------------------
\* Types of all variables.
TypeOK ==
    /\ state \in States /\ nextstate \in States
    /\ pc \in {"top", "run", "subscribe", "pend", "woken", "fail", "got", "record", "stored",
               "del_schema", "del_record", "reset_end"}
    /\ is_activated \in BOOLEAN
    /\ binding \in {"NULL", "empty", "token"}
    /\ sem \in 0..1 /\ result \in {"OK", "ERR"}
    /\ linkSub \in BOOLEAN /\ pairing \in BOOLEAN /\ evPc \in {"idle", "filled", "post"}
    /\ mq \in [inited : BOOLEAN, client : BOOLEAN, connected : BOOLEAN, manual : BOOLEAN]
    /\ kv \in [schema : {"none", "good", "bad"}, record : {"none", "good", "bad"}]
    /\ appPc \in {"idle", "start", "reconnect", "reset", "wake"} /\ ops \in 0..MaxOps /\ boots \in 0..MaxBoots

\* An activated client's activation survives a power cut at any point: what
\* tuya_iot_init would read back is complete whenever is_activated is set and no
\* reset is erasing it, whatever attempts, failed writes and reboots came before.
BootAgrees ==
    is_activated /\ pc # "del_record" => Readable(kv)

\* STATE_ACTIVATING reads client->binding: whatever failed and stale waits, resets,
\* late and lost requests led there, there is one (though after a stale wake-up it
\* may hold no token), and no activation is attempted by a client that is activated.
BindingIsThere ==
    state = "ACTIVATING" /\ pc \in {"run", "record", "stored"}
        => binding # "NULL" /\ ~is_activated

\* A request made while the client is in its steady state is served: the next
\* yield enters the requested state (or the one of a later request).
SteadyRequestServed ==
    (state = "MQTT_YIELD" /\ nextstate # "MQTT_YIELD")
        ~> (state \in {"RESET", "STOP", "MQTT_RECONNECT", "START", "IDLE"})

\* A started client gets to its steady state, to a token request, or to a reset or
\* stop somebody asked for; the one other end is STATE_MQTT_CONNECT_START for
\* ever, when tuya_mqtt_init failed.
StartedMakesProgress ==
    (state = "START")
        ~> \/ state \in {"MQTT_YIELD", "TOKEN_PENDING", "RESET", "STOP", "IDLE"}
           \/ state = "MQTT_CONNECT_START" /\ ~mq.inited

\* tuya_iot_reset resets the client: when no later call asks for something else,
\* the client enters STATE_RESET after the call.
ResetIsPerformed == (appPc = "reset" /\ ops = MaxOps) ~> (state = "RESET")
==============================================================================
