---------------------------- MODULE NetConnWifi ----------------------------
(***************************************************************************)
(* The WiFi connection of the network manager:                             *)
(* src/src/tuya_cloud_service/netmgr/netconn_wifi.c.                       *)
(*                                                                         *)
(* Connecting and disconnecting are messages on the system work queue; a   *)
(* driver thread reports what became of them; one software timer limits an *)
(* attempt and spaces the next ones.  The worker, the driver's callback,   *)
(* the timer's callback and an application thread share conn.stat,         *)
(* conn.count and the timer without a lock: every read and every write of  *)
(* them is a step.                                                         *)
(***************************************************************************)
EXTENDS Integers, Sequences

CONSTANTS
    TableSize,     \* NETCONN_WIFI_CONN_TABLE
    WorkqLen,      \* bound: messages of this connection on the work queue
    MaxEvents      \* bound: events of the driver not yet handled

ASSUME WifiAssumption == TableSize \in Nat \ {0} /\ WorkqLen \in Nat \ {0} /\ MaxEvents \in Nat \ {0}

VARIABLES
    stat, count, timer,    \* conn.stat, conn.count, conn.timer runs
    wifi,                  \* base.status
    workq,                 \* messages, oldest first
    link, events,          \* driver: the station; events to be reported
    wk, ev, tm, app,       \* where the worker, the driver's callback, the timer's
                           \* callback and the application are
    want, refused,         \* history: the last request taken is to be connected; a
                           \* message could not be queued and none was since
    torn                   \* history: the races below that unsettle an attempt

connVars == <<stat, count, timer, wifi>>
driverVars == <<link, events>>
pcVars == <<wk, ev, tm, app>>
vars == <<connVars, workq, driverVars, pcVars, want, refused, torn>>

\* After netconn_wifi_open; an activated device has asked to be connected.
Init ==
    /\ stat = "ready" /\ count = 0 /\ timer = FALSE /\ wifi = "down"
    /\ workq \in {<<>>, <<"connect">>}
    /\ link = "down" /\ events = <<>>
    /\ wk = "idle" /\ ev = "idle" /\ tm = "idle" /\ app = "idle"
    /\ want = (workq # <<>>) /\ refused = FALSE /\ torn = FALSE

------------------------------------------------------------------------------
(* Messages to the worker.  The result of queueing is never looked at.       *)
Schedule(m) ==
    \/ /\ Len(workq) < WorkqLen
       /\ workq' = Append(workq, m) /\ refused' = FALSE
    \/ refused' = TRUE /\ UNCHANGED workq

\* When __netconn_wifi_connect and __netconn_wifi_disconnect do not queue a message.
ConnectReturns == stat = "linkup"
DisconnectReturns == stat \in {"stop", "ready"}

------------------------------------------------------------------------------
(* The driver.  An attempt ends in an event, or silently.           *)
tal_wifi_station_disconnect ==
    /\ link' = "down"
    /\ \/ /\ link = "up" \/ (link = "joining" /\ Len(events) < MaxEvents)
          /\ events' = Append(events, "down")
       \/ link # "up" /\ UNCHANGED events

StationUp ==
    /\ link = "joining" /\ Len(events) < MaxEvents
    /\ link' = "up" /\ events' = Append(events, "up")
    /\ UNCHANGED <<connVars, workq, pcVars, want, refused, torn>>

StationDown ==
    /\ link # "down" /\ Len(events) < MaxEvents
    /\ link' = "down" /\ events' = Append(events, "down")
    /\ UNCHANGED <<connVars, workq, pcVars, want, refused, torn>>

StationSilent ==
    /\ link = "joining"
    /\ link' = "down"
    /\ UNCHANGED <<connVars, workq, pcVars, events, want, refused, torn>>

------------------------------------------------------------------------------
(* The worker: __netconn_wifi_connect_process.                                *)
Works(from, to) == wk = from /\ wk' = to /\ UNCHANGED <<wifi, ev, tm, app, want, refused>>

WorkTakes(m) ==
    /\ wk = "idle" /\ workq # <<>> /\ Head(workq) = m
    /\ wk' = m /\ workq' = Tail(workq)
    /\ UNCHANGED <<connVars, driverVars, ev, tm, app, want, refused, torn>>

ConnectLeaves ==
    /\ Works("connect", "guard")
    /\ tal_wifi_station_disconnect /\ UNCHANGED <<stat, count, timer, workq, torn>>
ConnectUnguarded ==
    /\ Works("guard", "check") /\ UNCHANGED <<stat, count, timer, workq, driverVars, torn>>
ConnectGuards ==
    /\ Works("guard", "check")
    /\ timer' = TRUE /\ UNCHANGED <<stat, count, workq, driverVars, torn>>
ConnectChecks ==
    /\ Works("check", "join")
    /\ stat' = "check" /\ torn' = (torn /\ ~timer)
    /\ UNCHANGED <<timer, count, workq, driverVars>>
ConnectJoins ==
    /\ Works("join", "idle")
    /\ link' = IF link = "down" THEN "joining" ELSE link
    /\ UNCHANGED <<stat, count, timer, workq, events, torn>>

DisconnectBegins ==
    /\ Works("disconnect", "stop")
    /\ timer' = FALSE /\ count' = 0 /\ UNCHANGED <<stat, workq, driverVars, torn>>
DisconnectStops ==
    /\ Works("stop", "leave")
    /\ stat' = "stop" /\ UNCHANGED <<timer, count, workq, driverVars, torn>>
DisconnectLeaves ==
    /\ Works("leave", "settle")
    /\ tal_wifi_station_disconnect /\ UNCHANGED <<stat, count, timer, workq, torn>>
DisconnectSettles ==
    /\ Works("settle", "idle")
    /\ timer' = TRUE /\ UNCHANGED <<stat, count, workq, driverVars, torn>>

Worker ==
    \/ \E m \in {"connect", "disconnect"} : WorkTakes(m)
    \/ ConnectLeaves \/ ConnectGuards \/ ConnectChecks \/ ConnectJoins
    \/ DisconnectBegins \/ DisconnectStops \/ DisconnectLeaves \/ DisconnectSettles

------------------------------------------------------------------------------
(* The driver's callback: __netconn_wifi_event.  The manager's callback that  *)
(* it ends with changes nothing here.                                         *)
Handles(from, to) == ev = from /\ ev' = to /\ UNCHANGED <<events, link, wk, tm, app, want, torn>>

\* Stopping the timer of an attempt that conn.stat does not tell of yet leaves the
\* attempt without a limit.
EventStopsTimer(e) ==
    /\ ev = "idle" /\ events # <<>> /\ Head(events) = e
    /\ events' = Tail(events) /\ ev' = e /\ timer' = FALSE
    /\ torn' = (torn \/ (e = "down" /\ wk = "check"))
    /\ UNCHANGED <<stat, count, wifi, workq, link, wk, tm, app, want, refused>>

EventUp ==
    /\ Handles("up", "idle")
    /\ count' = 0 /\ stat' = "linkup" /\ wifi' = "up"
    /\ UNCHANGED <<timer, workq, refused>>

EventRetries ==
    /\ Handles("down", "again") /\ stat \in {"check", "wait"}
    /\ UNCHANGED <<connVars, workq, refused>>
EventRelinks ==
    /\ Handles("down", "relink") /\ stat = "linkup"
    /\ stat' = "ready"
    /\ UNCHANGED <<timer, count, wifi, workq, refused>>
EventIgnored ==
    /\ Handles("down", "idle") /\ stat \in {"ready", "stop"}
    /\ wifi' = "down"
    /\ UNCHANGED <<stat, timer, count, workq, refused>>

\* Only this callback makes the state LINKUP: that it is not stays true until the
\* message is queued.
EventConnects ==
    /\ Handles("relink", "idle")
    /\ IF ConnectReturns THEN UNCHANGED <<workq, refused>> ELSE Schedule("connect")
    /\ wifi' = "down"
    /\ UNCHANGED <<stat, timer, count>>

EventPausesLate ==
    /\ timer' = TRUE
    /\ Handles("again", IF count < TableSize THEN "count" ELSE "wait")
    /\ UNCHANGED <<stat, count, wifi, workq, refused>>
\* The pause before the next attempt: the timer is started, and the number of the pause
\* is compared and then advanced.
EventPauses ==
    /\ timer' = TRUE
    /\ Handles("again", IF count < TableSize - 1 THEN "count" ELSE "wait")
    /\ UNCHANGED <<stat, count, wifi, workq, refused>>
EventCounts ==
    /\ Handles("count", "wait") /\ count' = count + 1
    /\ UNCHANGED <<stat, timer, wifi, workq, refused>>
EventWaitsUntold ==
    /\ Handles("wait", "idle") /\ stat' = "wait"
    /\ UNCHANGED <<count, timer, wifi, workq, refused>>
EventWaits ==
    /\ Handles("wait", "idle")
    /\ stat' = "wait" /\ wifi' = "down"
    /\ UNCHANGED <<count, timer, workq, refused>>

Callback ==
    \/ \E e \in {"up", "down"} : EventStopsTimer(e)
    \/ EventUp \/ EventRetries \/ EventRelinks \/ EventIgnored \/ EventConnects
    \/ EventPauses \/ EventCounts \/ EventWaits

------------------------------------------------------------------------------
(* The timer's callback: __netconn_wifi_conn_timer.                           *)
Ticks(from, to) == tm = from /\ tm' = to /\ UNCHANGED <<wifi, driverVars, wk, ev, app, want>>

\* The shortest time, 1 s, is longer than the rest of a handler that started the timer.
TimerFires ==
    /\ timer /\ wk \notin {"check", "join"} /\ ev \notin {"count", "wait"}
    /\ timer' = FALSE
    /\ Ticks("idle", "fired")
    /\ UNCHANGED <<stat, count, workq, refused, torn>>

TimerReads ==
    /\ Ticks("fired", CASE stat = "wait" -> "connect"
                        [] stat = "stop" -> "ready"
                        [] stat = "check" -> "again"
                        [] OTHER -> "idle")
    /\ UNCHANGED <<stat, count, timer, workq, refused, torn>>

\* The state is read before the message is queued.
TimerConnects ==
    /\ Ticks("connect", IF ConnectReturns THEN "check" ELSE "queue")
    /\ UNCHANGED <<stat, count, timer, workq, refused, torn>>
TimerQueues ==
    /\ Ticks("queue", "check")
    /\ Schedule("connect") /\ UNCHANGED <<stat, count, timer, torn>>
TimerChecks ==
    /\ Ticks("check", "idle")
    /\ stat' = "check" /\ UNCHANGED <<count, timer, workq, refused, torn>>
\* The state may have been changed since it was read.
TimerReady ==
    /\ Ticks("ready", "idle")
    /\ stat' = "ready" /\ torn' = (torn \/ stat # "stop")
    /\ UNCHANGED <<count, timer, workq, refused>>
TimerPauses ==
    /\ timer' = TRUE
    /\ Ticks("again", IF count < TableSize - 1 THEN "count" ELSE "wait")
    /\ UNCHANGED <<stat, count, workq, refused, torn>>
TimerCounts ==
    /\ Ticks("count", "wait") /\ count' = count + 1
    /\ UNCHANGED <<stat, timer, workq, refused, torn>>
TimerWaits ==
    /\ Ticks("wait", "idle")
    /\ stat' = "wait" /\ UNCHANGED <<count, timer, workq, refused, torn>>

Timer ==
    \/ TimerFires \/ TimerReads \/ TimerConnects \/ TimerQueues \/ TimerChecks
    \/ TimerReady \/ TimerPauses \/ TimerCounts \/ TimerWaits

------------------------------------------------------------------------------
(* The application: netconn_wifi_set, and the end of a network configuration. *)
Asks(from, to) == app = from /\ app' = to /\ UNCHANGED <<count, wifi, wk, ev, tm, torn>>

\* NETCONN_CMD_SSID_PSWD, __netconn_wifi_netcfg_finish
AppConnects ==
    /\ Asks("idle", IF ConnectReturns THEN "idle" ELSE "connect")
    /\ UNCHANGED <<stat, timer, workq, driverVars, want, refused>>
AppQueuesConnect ==
    /\ Asks("connect", "idle") /\ Schedule("connect") /\ want' = TRUE
    /\ UNCHANGED <<stat, timer, driverVars>>

\* NETCONN_CMD_CLOSE
AppCloses ==
    /\ Asks("idle", IF DisconnectReturns THEN "idle" ELSE "close")
    /\ want' = (want /\ ~DisconnectReturns)
    /\ UNCHANGED <<stat, timer, workq, driverVars, refused>>
AppQueuesClose ==
    /\ Asks("close", "idle") /\ Schedule("disconnect") /\ want' = FALSE
    /\ UNCHANGED <<stat, timer, driverVars>>

\* __wifi_reset_event_cb stops the timer, and goes on as NETCONN_CMD_RESET.
AppResetEvent ==
    /\ Asks("idle", "reset") /\ timer' = FALSE
    /\ UNCHANGED <<stat, workq, driverVars, want, refused>>
AppResets ==
    /\ Asks("idle", "leave") \/ Asks("reset", "leave")
    /\ stat' = "stop" /\ want' = FALSE
    /\ UNCHANGED <<timer, workq, driverVars, refused>>
AppLeaves ==
    /\ Asks("leave", "idle") /\ tal_wifi_station_disconnect
    /\ UNCHANGED <<stat, timer, workq, want, refused>>

------------------------------------------------------------------------------
Next ==
    \/ StationUp \/ StationDown \/ StationSilent
    \/ Worker \/ Callback \/ Timer
    \/ AppConnects \/ AppQueuesConnect \/ AppCloses \/ AppQueuesClose
    \/ AppResetEvent \/ AppResets \/ AppLeaves

Spec == Init /\ [][Next]_vars

------------------------------------------------------------------------------
\* Types of all variables.  count can reach TableSize, one past the table, when both
\* callbacks compare it before either advances it.
TypeOK ==
    /\ stat \in {"ready", "check", "linkup", "wait", "stop"}
    /\ count \in 0..TableSize /\ timer \in BOOLEAN /\ wifi \in {"up", "down"}
    /\ workq \in Seq({"connect", "disconnect"})
    /\ link \in {"down", "joining", "up"} /\ events \in Seq({"up", "down"})
    /\ wk \in {"idle", "connect", "guard", "check", "join", "disconnect", "stop", "leave", "settle"}
    /\ ev \in {"idle", "up", "down", "again", "relink", "count", "wait"}
    /\ tm \in {"idle", "fired", "connect", "queue", "check", "ready", "again", "count", "wait"}
    /\ app \in {"idle", "connect", "close", "reset", "leave"}
    /\ want \in BOOLEAN /\ refused \in BOOLEAN /\ torn \in BOOLEAN

\* The connection is never given up: while it is down and wanted, somebody is about to
\* do something for it: the timer runs, a message is queued, the driver tries or
\* reports, or a thread is at work.  The exceptions are a message that could not be
\* queued and the two races on the timer and the state.
NotStranded ==
    \/ link # "down" \/ ~want
    \/ timer \/ workq # <<>> \/ events # <<>>
    \/ wk # "idle" \/ ev # "idle" \/ tm # "idle" \/ app # "idle"
    \/ refused \/ torn

\* Once the driver's events are handled, what the manager is told is the state of the
\* station, and LINKUP, in which every request to connect is ignored, is not a left-over.
StatusTrue ==
    events = <<>> /\ ev = "idle" =>
        /\ (wifi = "up" <=> link = "up")
        /\ stat = "linkup" => link = "up"
==============================================================================
