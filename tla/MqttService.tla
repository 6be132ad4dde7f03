----------------------------- MODULE MqttService -----------------------------
(***************************************************************************)
(* The MQTT service of src/src/tuya_cloud_service/cloud/mqtt_service.c on  *)
(* top of src/src/libmqtt/src/mqtt_client_wrapper.c.                       *)
(*                                                                         *)
(* One thread, that of tuya_iot_yield, initialises, starts, loops, stops   *)
(* and destroys the service; other threads publish with a callback.  The   *)
(* list of publishes waiting for a PUBACK is linked and walked without a   *)
(* lock, so an append reads the end of the list and writes it in two steps *)
(* and the loop walks the list one entry at a time.                        *)
(***************************************************************************)
EXTENDS Integers

CONSTANTS
    Apps,        \* publishing threads
    Handles,     \* mqtt_publish_handle_t allocations, each made once
    TimeoutMs,   \* the timeout_ms argument of a publish
    MsPerSecond, \* scale of the two clocks
    MaxTime      \* bound: tal_time_get_posix, in seconds

ASSUME MqttServiceAssumption ==
    TimeoutMs \in Nat /\ MsPerSecond \in Nat \ {0} /\ MaxTime \in Nat

NULL == "NULL"
HEAD == "publish_list"
ASSUME PointersAssumption == NULL \notin Handles /\ HEAD \notin Handles

VARIABLES
    phase,          \* what tuya_iot.c does with the service next: "startup", "connect", "loop"
    mq,             \* is_inited, mqtt_client # NULL, is_connected, manual_disconnect
    subscribe_list, protocol_list,   \* how many handlers each topic and protocol id has
    publish_list, next,              \* the list head, and entry->next
    mem,            \* of an entry: "unused", "allocated" or "freed"
    msgid,          \* entry->msgid > 0: it has been handed to the transport
    timeout,        \* entry->timeout
    told,           \* how often entry->cb has been called
    pc, cur,        \* main thread, and its next_handle: HEAD or the entry holding the link
    appPc, mine, last,   \* publishing threads: step, handle, end of the list as read
    acks,           \* PUBACKs on their way, named by the entry whose msgid they carry
    now             \* tal_time_get_posix

listVars == <<publish_list, next, mem>>
pubVars == <<msgid, timeout, told>>
appVars == <<appPc, mine, last>>
dispVars == <<subscribe_list, protocol_list>>
mainVars == <<phase, mq, pc, cur>>
vars == <<mainVars, dispVars, listVars, pubVars, appVars, acks, now>>

Flags == [inited : BOOLEAN, client : BOOLEAN, connected : BOOLEAN, manual : BOOLEAN]
Zero == [inited |-> FALSE, client |-> FALSE, connected |-> FALSE, manual |-> FALSE]
Protocols == {"CMD", "GW_RESET", "UPGD_REQ", "DPCACHE"}
Topics == {"in", "rpc/rsp", "rpc/file"}
NoTopics == [t \in Topics |-> 0]
NoProtocols == [p \in Protocols |-> 0]

Init ==
    /\ phase = "startup" /\ mq = Zero
    /\ subscribe_list = NoTopics /\ protocol_list = NoProtocols
    /\ publish_list = NULL /\ next = [h \in Handles |-> NULL]
    /\ mem = [h \in Handles |-> "unused"]
    /\ msgid = [h \in Handles |-> FALSE]
    /\ timeout = [h \in Handles |-> 0] /\ told = [h \in Handles |-> 0]
    /\ pc = "idle" /\ cur = HEAD
    /\ appPc = [a \in Apps |-> "idle"]
    /\ mine = [a \in Apps |-> NULL] /\ last = [a \in Apps |-> NULL]
    /\ acks = {} /\ now = 0

------------------------------------------------------------------------------
(* The linked list.                                                           *)
\* The entry that the link p points to.
Link(p) == IF p = HEAD THEN publish_list ELSE next[p]

\* The entries that can be reached from the head: the smallest set that the links
\* do not lead out of.
Closed(S) ==
    /\ publish_list # NULL => publish_list \in S
    /\ \A h \in S : next[h] # NULL => next[h] \in S
Entries == {h \in Handles : \A S \in SUBSET Handles : Closed(S) => h \in S}

Listed(h) == h \in Entries
LastEntry == IF publish_list = NULL THEN NULL ELSE CHOOSE h \in Entries : next[h] = NULL

\* *p = e->next, and e freed, after entry->cb.
FreedNotUnlinked(p, e) == UNCHANGED <<publish_list, next>>
Unlinked(p, e) ==
    /\ publish_list' = IF p = HEAD THEN next[e] ELSE publish_list
    /\ next' = IF p = HEAD THEN next ELSE [next EXCEPT ![p] = next[e]]
NotifyAndFree(p, e) ==
    /\ Unlinked(p, e)
    /\ told' = [told EXCEPT ![e] = @ + 1]
    /\ mem' = [mem EXCEPT ![e] = "freed"]

------------------------------------------------------------------------------
(* Handlers of received messages: subscribe_list and protocol_list.           *)
\* The list walk that rejects a repetition, then the insertion; the removal of all.
RegisteredTwice(list, x) == [list EXCEPT ![x] = @ + 1]
Registered(list, x) == IF list[x] > 0 THEN list ELSE [list EXCEPT ![x] = @ + 1]
Unregistered(list, x) == [list EXCEPT ![x] = 0]

\* mqtt_client_connected_cb, and the callback of tuya_iot.c that it calls, with
\* matop_serice_init: a SUBSCRIBE that cannot be sent leaves its topic out, and
\* the topic of files is tried only after the one of answers.
Connected(sent) ==
    LET in == IF "in" \in sent THEN Registered(subscribe_list, "in") ELSE subscribe_list
        rsp == IF "rpc/rsp" \in sent THEN Registered(in, "rpc/rsp") ELSE in
    IN  IF {"rpc/rsp", "rpc/file"} \subseteq sent THEN Registered(rsp, "rpc/file") ELSE rsp

\* mqtt_client_disconnected_cb and matop_serice_destory.
Disconnected(list) == Unregistered(Unregistered(list, "rpc/rsp"), "rpc/file")

------------------------------------------------------------------------------
(* The main thread.                                                           *)
\* tuya_mqtt_init: memset forgets every list; then it succeeds, or fails before or
\* after it has a client.
tuya_mqtt_init ==
    /\ pc = "idle" /\ phase = "startup" /\ phase' = "connect"
    /\ mq' \in {[Zero EXCEPT !.inited = TRUE, !.client = TRUE, !.manual = TRUE],
                Zero, [Zero EXCEPT !.client = TRUE]}
    /\ subscribe_list' = NoTopics /\ protocol_list' = NoProtocols /\ publish_list' = NULL
    /\ UNCHANGED <<pc, cur, next, mem, pubVars, appVars, acks, now>>

\* tuya_mqtt_start that connects, and the registrations that follow it.
tuya_mqtt_start ==
    /\ pc = "idle" /\ phase = "connect" /\ mq.inited
    /\ mq' = [mq EXCEPT !.connected = TRUE, !.manual = FALSE]
    /\ \E sent \in SUBSET Topics : subscribe_list' = Connected(sent)
    /\ protocol_list' = Registered(Registered(Registered(Registered(protocol_list,
                            "CMD"), "GW_RESET"), "UPGD_REQ"), "DPCACHE")
    /\ phase' = "loop"
    /\ UNCHANGED <<pc, cur, listVars, pubVars, appVars, acks, now>>

\* It fails, or the device is no longer bound: RESET destroys the service.
StartFails ==
    /\ pc = "idle" /\ phase = "connect" /\ mq.inited
    /\ mq' = [mq EXCEPT !.manual = FALSE]
    /\ UNCHANGED <<phase, pc, cur, dispVars, listVars, pubVars, appVars, acks, now>>

\* tuya_mqtt_loop without a connection: try to get it back.
LoopReconnects ==
    /\ pc = "idle" /\ phase = "loop" /\ ~mq.connected
    /\ mq' = [mq EXCEPT !.connected = TRUE]
    /\ \E sent \in SUBSET Topics : subscribe_list' = Connected(sent)
    /\ UNCHANGED <<phase, pc, cur, protocol_list, listVars, pubVars, appVars, acks, now>>

\* tuya_mqtt_loop with a connection: walk publish_list, then mqtt_client_yield.
LoopBegins ==
    /\ pc = "idle" /\ phase = "loop" /\ mq.connected
    /\ pc' = "walk" /\ cur' = HEAD
    /\ UNCHANGED <<phase, mq, dispVars, listVars, pubVars, appVars, acks, now>>

ExpiredNever(h) == FALSE
Expired(h) == timeout[h] <= now

\* An entry in time: it is published if it was not; either way the walk goes on.
WalkPublishes ==
    LET e == Link(cur) IN
    /\ pc = "walk" /\ e # NULL /\ ~Expired(e) /\ ~msgid[e]
    /\ \E sent \in BOOLEAN : /\ msgid' = [msgid EXCEPT ![e] = sent]
                             /\ acks' \in IF sent THEN {acks, acks \union {e}} ELSE {acks}
    /\ cur' = e
    /\ UNCHANGED <<phase, mq, pc, dispVars, listVars, timeout, told, appVars, now>>

WalkPassesTwo ==
    LET e == Link(cur) IN
    /\ pc = "walk" /\ e # NULL /\ ~Expired(e) /\ msgid[e]
    /\ cur' = next[e]
    /\ UNCHANGED <<phase, mq, pc, dispVars, listVars, pubVars, appVars, acks, now>>
WalkPasses ==
    LET e == Link(cur) IN
    /\ pc = "walk" /\ e # NULL /\ ~Expired(e) /\ msgid[e]
    /\ cur' = e
    /\ UNCHANGED <<phase, mq, pc, dispVars, listVars, pubVars, appVars, acks, now>>

\* An expired entry is reported and freed.  The loop's increment then steps over
\* the entry after it, and reads through NULL when there is none.
WalkExpires ==
    LET e == Link(cur) IN
    /\ pc = "walk" /\ e # NULL /\ Expired(e)
    /\ NotifyAndFree(cur, e)
    /\ IF next[e] = NULL THEN pc' = "fault" /\ UNCHANGED cur
                         ELSE cur' = next[e] /\ UNCHANGED pc
    /\ UNCHANGED <<phase, mq, dispVars, msgid, timeout, appVars, acks, now>>

WalkEnds ==
    /\ pc = "walk" /\ Link(cur) = NULL
    /\ pc' = "yield"
    /\ UNCHANGED <<phase, mq, cur, dispVars, listVars, pubVars, appVars, acks, now>>

\* mqtt_client_yield handles a PUBACK: mqtt_client_puback_cb.
PubackFound(h) ==
    LET p == IF publish_list = h THEN HEAD ELSE CHOOSE q \in Entries : next[q] = h
    IN  NotifyAndFree(p, h)

Puback(h) ==
    /\ pc = "yield" /\ h \in acks
    /\ acks' = acks \ {h}
    /\ IF Listed(h) THEN PubackFound(h) ELSE UNCHANGED <<listVars, told>>
    /\ UNCHANGED <<mainVars, dispVars, msgid, timeout, appVars, now>>

YieldEnds ==
    /\ pc = "yield" /\ pc' = "idle"
    /\ UNCHANGED <<phase, mq, cur, dispVars, listVars, pubVars, appVars, acks, now>>

\* It fails: mqtt_client_disconnect.  What was on its way is lost.
YieldDisconnects ==
    /\ pc = "yield" /\ pc' = "idle"
    /\ mq' = [mq EXCEPT !.connected = FALSE]
    /\ subscribe_list' = Disconnected(subscribe_list)
    /\ acks' = {}
    /\ UNCHANGED <<phase, cur, protocol_list, listVars, pubVars, appVars, now>>

\* tuya_mqtt_stop, then a new tuya_mqtt_start (reconnect) or tuya_mqtt_destory
\* (stop, reset).
StoppedList == Disconnected(Unregistered(subscribe_list, "in"))

tuya_mqtt_stop ==
    /\ pc = "idle" /\ phase = "loop"
    /\ mq' = [mq EXCEPT !.connected = FALSE, !.manual = TRUE]
    /\ subscribe_list' = StoppedList
    /\ acks' = {}
    /\ phase' \in {"connect", "destroy"}
    /\ UNCHANGED <<pc, cur, protocol_list, listVars, pubVars, appVars, now>>

tuya_mqtt_destory ==
    /\ pc = "idle" /\ (phase = "destroy" \/ (~mq.connected /\ phase \in {"connect", "loop"}))
    /\ mq' = IF mq.inited THEN [mq EXCEPT !.client = FALSE] ELSE mq
    /\ protocol_list' = IF mq.inited THEN NoProtocols ELSE protocol_list
    /\ phase' = "startup" /\ acks' = {}
    /\ UNCHANGED <<pc, cur, subscribe_list, listVars, pubVars, appVars, now>>

------------------------------------------------------------------------------
(* tuya_mqtt_client_publish_common on a thread of the application.            *)
At(a, step) == pc # "fault" /\ appPc[a] = step

Publish(a, h, async) ==
    /\ At(a, "idle") /\ mq.inited /\ mq.connected
    /\ mem[h] = "unused" /\ mem' = [mem EXCEPT ![h] = "allocated"]
    /\ now + TimeoutMs <= MaxTime
    /\ timeout' = [timeout EXCEPT ![h] = now + TimeoutMs]
    /\ mine' = [mine EXCEPT ![a] = h]
    /\ appPc' = [appPc EXCEPT ![a] = IF async THEN "append" ELSE "send"]
    /\ UNCHANGED <<mainVars, dispVars, publish_list, next, msgid, told, last, acks, now>>

\* async = false: published here, before the handle is in the list.  Without a
\* connection the transport refuses it.
PublishSends(a) ==
    LET h == mine[a] IN
    /\ At(a, "send") /\ mq.client
    /\ \E sent \in IF mq.connected THEN BOOLEAN ELSE {FALSE} :
          /\ msgid' = [msgid EXCEPT ![h] = sent]
          /\ acks' \in IF sent THEN {acks, acks \union {h}} ELSE {acks}
    /\ appPc' = [appPc EXCEPT ![a] = "append"]
    /\ UNCHANGED <<mainVars, dispVars, listVars, timeout, told, mine, last, now>>

\* The client was destroyed after is_connected was tested.
PublishFaults(a) ==
    /\ At(a, "send") /\ ~mq.client
    /\ pc' = "fault"
    /\ UNCHANGED <<phase, mq, cur, dispVars, listVars, pubVars, appVars, acks, now>>

\* Reading the end of the list (NULL: it is empty) ...
AppendReads(a) ==
    /\ At(a, "append")
    /\ last' = [last EXCEPT ![a] = LastEntry]
    /\ appPc' = [appPc EXCEPT ![a] = "link"]
    /\ UNCHANGED <<mainVars, dispVars, listVars, pubVars, mine, acks, now>>

\* ... and linking the new entry there.  An entry that was freed meanwhile is
\* written to all the same, and the new one is not in the list.
AppendLinks(a) ==
    /\ At(a, "link")
    /\ IF last[a] = NULL
       THEN publish_list' = mine[a] /\ UNCHANGED next
       ELSE next' = [next EXCEPT ![last[a]] = mine[a]] /\ UNCHANGED publish_list
    /\ appPc' = [appPc EXCEPT ![a] = "idle"]
    /\ mine' = [mine EXCEPT ![a] = NULL] /\ last' = [last EXCEPT ![a] = NULL]
    /\ UNCHANGED <<mainVars, dispVars, mem, pubVars, acks, now>>

Tick ==
    /\ pc # "fault" /\ now < MaxTime /\ now' = now + 1
    /\ UNCHANGED <<mainVars, dispVars, listVars, pubVars, appVars, acks>>

------------------------------------------------------------------------------
Loop ==
    \/ LoopReconnects \/ LoopBegins
    \/ WalkPublishes \/ WalkPasses \/ WalkExpires \/ WalkEnds \/ YieldEnds

Client ==
    \/ tuya_mqtt_init \/ tuya_mqtt_start \/ StartFails
    \/ YieldDisconnects \/ tuya_mqtt_stop \/ tuya_mqtt_destory
    \/ \E h \in Handles : Puback(h)

App(a) ==
    \/ \E h \in Handles, async \in BOOLEAN : Publish(a, h, async)
    \/ PublishSends(a) \/ PublishFaults(a) \/ AppendReads(a) \/ AppendLinks(a)

Next == Loop \/ Client \/ Tick \/ \E a \in Apps : App(a)

(* tuya_iot_yield calls the loop again and again, the clock runs, and a lost   *)
(* connection can be had back if it is tried often enough.                     *)
Fairness ==
    /\ WF_vars(Loop) /\ WF_vars(Tick) /\ SF_vars(LoopReconnects)

Spec == Init /\ [][Next]_vars /\ Fairness

------------------------------------------------------------------------------
\* Types of all variables.
TypeOK ==
    /\ phase \in {"startup", "connect", "loop", "destroy"} /\ mq \in Flags
    /\ subscribe_list \in [Topics -> Nat] /\ protocol_list \in [Protocols -> Nat]
    /\ publish_list \in Handles \union {NULL}
    /\ next \in [Handles -> Handles \union {NULL}]
    /\ mem \in [Handles -> {"unused", "allocated", "freed"}]
    /\ msgid \in [Handles -> BOOLEAN] /\ timeout \in [Handles -> 0..MaxTime]
    /\ told \in [Handles -> Nat]
    /\ pc \in {"idle", "walk", "yield", "fault"} /\ cur \in Handles \union {HEAD}
    /\ appPc \in [Apps -> {"idle", "send", "append", "link"}]
    /\ mine \in [Apps -> Handles \union {NULL}] /\ last \in [Apps -> Handles \union {NULL}]
    /\ acks \in SUBSET Handles /\ now \in 0..MaxTime

\* However appends race with the walk, with PUBACKs and with each other, every
\* entry of the list is allocated memory whose callback is still to be called,
\* and the walk never holds a link inside a freed entry.
ListIsLive ==
    /\ \A h \in Entries : mem[h] = "allocated" /\ told[h] = 0
    /\ pc = "walk" /\ cur # HEAD => mem[cur] = "allocated"

\* A publish's callback is called at most once: a PUBACK never follows a timeout.
ToldOnce == \A h \in Handles : told[h] <= 1

\* After any number of reconnections a received message still has one handler per
\* topic and per protocol: no registration is doubled.
HandledOnce ==
    /\ \A t \in Topics : subscribe_list[t] <= 1
    /\ \A p \in Protocols : protocol_list[p] <= 1
    /\ phase = "loop" => \A p \in Protocols : protocol_list[p] = 1

\* A publish that is in the list has its callback called: it is acknowledged, or
\* expires once its time has come, however its append raced with the walk and with
\* PUBACKs, while the client keeps looping and unless the loop faulted.  Threads that
\* append at once may cut it out of the list: the promise is made when every thread
\* about to link has read the present end, and ends when two are about to.
EndsAreCurrent == \A a \in Apps : appPc[a] = "link" => last[a] = LastEntry
AppendsOverlap == \E a, b \in Apps : a # b /\ appPc[a] = "link" /\ appPc[b] = "link"
PublishResolved ==
    \A h \in Handles :
        Listed(h) /\ EndsAreCurrent ~> \/ told[h] > 0 \/ pc = "fault"
                                      \/ phase # "loop" \/ AppendsOverlap

\* "timeout_ms The timeout for the publish operation in milliseconds": when the
\* loop comes to a publish made timeout_ms milliseconds ago, it has expired.
TimeoutIsMilliseconds ==
    LET e == Link(cur)
        elapsed == (now - (timeout[e] - TimeoutMs)) * MsPerSecond
    IN  pc = "walk" /\ e # NULL /\ elapsed >= TimeoutMs => Expired(e)
==============================================================================
