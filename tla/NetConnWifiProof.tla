-------------------------- MODULE NetConnWifiProof --------------------------
(***************************************************************************)
(* The WiFi connection is never given up, for every size of the table, the *)
(* work queue and the driver's queue.                                      *)
(***************************************************************************)
EXTENDS NetConnWifi, SequenceTheorems, TLAPS

LastOf(s) == s[Len(s)]
Good == want /\ ~refused /\ ~torn
Leaving == {"guard", "check", "join"}

\* The last event waiting, or being handled, tells of the station.
News ==
    /\ events # <<>> => (LastOf(events) = "up" <=> link = "up")
    /\ events = <<>> /\ ev = "up" => link = "up"
    /\ events = <<>> /\ ev = "idle" => (wifi = "up" <=> link = "up")
    /\ events = <<>> /\ ev \notin {"up", "idle"} => link # "up"
    /\ stat = "linkup" => ev \in {"idle", "up", "down"}
    /\ stat = "linkup" /\ events = <<>> /\ ev = "idle" => link = "up"
    /\ wk \in Leaving => link = "down"

\* Requests: the last message is to connect, and one follows a disconnection.
Requests ==
    /\ want /\ ~refused /\ workq # <<>> => LastOf(workq) = "connect"
    /\ want /\ ~refused /\ wk \in {"disconnect", "stop"} => workq # <<>>
    /\ app = "leave" => ~want
    /\ Good /\ stat \in {"ready", "stop"} =>
         workq # <<>> \/ wk \in {"connect", "guard", "check"} \/ ev = "relink"

\* Somebody other than the worker and the station will do something.
Busy ==
    \/ timer \/ workq # <<>> \/ events # <<>> \/ app = "reset"
    \/ tm \in {"fired", "connect", "queue", "ready", "again"}
    \/ ev \in {"up", "down", "again", "relink"}

Guarded ==
    /\ Good /\ wk = "check" =>
         timer \/ workq # <<>> \/ app = "reset" \/ ev = "up" \/ (ev = "idle" /\ events # <<>>)
    /\ Good /\ wk = "join" => Busy
    /\ Good => Busy \/ link = "up" \/ wk # "idle"

\* Each callback advances count after having compared it, at most once.
Counting ==
    /\ ev = "count" \/ tm = "count" => count + 1 <= TableSize /\ 2 <= TableSize
    /\ ev = "count" /\ tm = "count" => count + 2 <= TableSize

\* TypeOK in two parts, for the provers.
Flags == timer \in BOOLEAN /\ want \in BOOLEAN /\ refused \in BOOLEAN /\ torn \in BOOLEAN
Shapes ==
    /\ stat \in {"ready", "check", "linkup", "wait", "stop"}
    /\ count \in 0..TableSize /\ wifi \in {"up", "down"}
    /\ workq \in Seq({"connect", "disconnect"})
    /\ link \in {"down", "joining", "up"} /\ events \in Seq({"up", "down"})
    /\ wk \in {"idle", "connect", "guard", "check", "join", "disconnect", "stop", "leave", "settle"}
    /\ ev \in {"idle", "up", "down", "again", "relink", "count", "wait"}
    /\ tm \in {"idle", "fired", "connect", "queue", "check", "ready", "again", "count", "wait"}
    /\ app \in {"idle", "connect", "close", "reset", "leave"}

WifiInv == TypeOK /\ Counting /\ News /\ Requests /\ Guarded

------------------------------------------------------------------------------
(* Sequences and the operations on them.                                      *)
\* The last element of a sequence that grew.
LEMMA LastAppend ==
    ASSUME NEW S, NEW s \in Seq(S), NEW e \in S
    PROVE  /\ Append(s, e) \in Seq(S) /\ Append(s, e) # <<>>
           /\ LastOf(Append(s, e)) = e
BY DEF LastOf

\* ... and of one that lost its head.
LEMMA LastTail ==
    ASSUME NEW S, NEW s \in Seq(S), s # <<>>
    PROVE  /\ Tail(s) \in Seq(S)
           /\ Tail(s) = <<>> => LastOf(s) = Head(s)
           /\ Tail(s) # <<>> => LastOf(Tail(s)) = LastOf(s)
<1> DEFINE t == Tail(s)
<1>1. Len(s) \in Nat /\ Len(s) > 0 /\ t \in Seq(S) /\ Len(t) = Len(s) - 1
    BY HeadTailProperties, EmptySeq, LenProperties
<1>2. \A i \in 1..Len(t) : t[i] = s[i + 1]
    BY HeadTailProperties
<1>3. t = <<>> <=> Len(t) = 0
    BY <1>1, EmptySeq
<1>4. Head(s) = s[1]
    OBVIOUS
<1> HIDE DEF t
<1>5. CASE t = <<>>
  <2>1. Len(s) = 1
      BY <1>1, <1>3, <1>5
  <2> QED BY <1>1, <1>4, <1>5, <2>1 DEF LastOf, t
<1>6. CASE t # <<>>
  <2>1. Len(t) \in 1..Len(t) /\ Len(t) + 1 = Len(s)
      BY <1>1, <1>3, <1>6
  <2>2. t[Len(t)] = s[Len(s)]
      BY <1>2, <2>1
  <2> QED BY <1>1, <1>6, <2>2 DEF LastOf, t
<1> QED BY <1>5, <1>6

\* A message is queued as the last one, or refused.
LEMMA ScheduleFacts ==
    ASSUME TypeOK, NEW m \in {"connect", "disconnect"}, Schedule(m)
    PROVE  /\ workq' \in Seq({"connect", "disconnect"})
           /\ \/ workq' # <<>> /\ LastOf(workq') = m /\ refused' = FALSE
              \/ workq' = workq /\ refused' = TRUE
<1>1. workq \in Seq({"connect", "disconnect"})
    BY DEF TypeOK
<1>2. /\ Append(workq, m) \in Seq({"connect", "disconnect"})
      /\ Append(workq, m) # <<>> /\ LastOf(Append(workq, m)) = m
    BY <1>1, LastAppend
<1> QED BY <1>1, <1>2, Zenon DEF Schedule

\* The queue stays a sequence of messages.
LEMMA AskFacts ==
    ASSUME TypeOK, Schedule("connect") \/ Schedule("disconnect") \/ UNCHANGED workq
    PROVE  workq' \in Seq({"connect", "disconnect"})
<1>1. workq \in Seq({"connect", "disconnect"})
    BY DEF TypeOK
<1> QED BY <1>1, ScheduleFacts, Zenon

\* Leaving an access point is reported.
LEMMA LeaveFacts ==
    ASSUME TypeOK, tal_wifi_station_disconnect
    PROVE  /\ events' \in Seq({"up", "down"}) /\ link' = "down"
           /\ \/ events' # <<>> /\ LastOf(events') = "down"
              \/ link # "up" /\ events' = events
<1>1. events \in Seq({"up", "down"})
    BY DEF TypeOK
<1>2. /\ Append(events, "down") \in Seq({"up", "down"})
      /\ Append(events, "down") # <<>> /\ LastOf(Append(events, "down")) = "down"
    BY <1>1, LastAppend
<1> QED BY <1>1, <1>2, Zenon DEF tal_wifi_station_disconnect

\* An event is taken from the front.
LEMMA TakeFacts ==
    ASSUME TypeOK, NEW e \in {"up", "down"}, EventStopsTimer(e)
    PROVE  /\ events' \in Seq({"up", "down"}) /\ events # <<>>
           /\ events' = <<>> => LastOf(events) = e
           /\ events' # <<>> => LastOf(events') = LastOf(events)
<1>1. events \in Seq({"up", "down"}) /\ events # <<>> /\ Head(events) = e /\ events' = Tail(events)
    BY DEF TypeOK, EventStopsTimer
<1> QED BY <1>1, LastTail

\* So is a message.
LEMMA WorkFacts ==
    ASSUME TypeOK, NEW m \in {"connect", "disconnect"}, WorkTakes(m)
    PROVE  /\ workq' \in Seq({"connect", "disconnect"}) /\ workq # <<>>
           /\ workq' = <<>> => LastOf(workq) = m
           /\ workq' # <<>> => LastOf(workq') = LastOf(workq)
<1>1. workq \in Seq({"connect", "disconnect"}) /\ workq # <<>> /\ Head(workq) = m /\ workq' = Tail(workq)
    BY DEF TypeOK, WorkTakes
<1> QED BY <1>1, LastTail

\* The driver reports the end of an attempt.
LEMMA StationFacts ==
    ASSUME TypeOK, StationUp \/ StationDown
    PROVE  /\ events' \in Seq({"up", "down"}) /\ events' # <<>>
           /\ StationUp => LastOf(events') = "up"
           /\ StationDown => LastOf(events') = "down"
<1>1. events \in Seq({"up", "down"})
    BY DEF TypeOK
<1>2. \A e \in {"up", "down"} : /\ Append(events, e) \in Seq({"up", "down"})
                              /\ Append(events, e) # <<>> /\ LastOf(Append(events, e)) = e
    BY <1>1, LastAppend
<1>3. CASE StationUp
    BY <1>2, <1>3, Zenon DEF StationUp, StationDown
<1>4. CASE StationDown
    BY <1>2, <1>4, Zenon DEF StationUp, StationDown
<1> QED BY <1>3, <1>4

\* The two parts are TypeOK, before and after a step.
LEMMA TypesLemma == (TypeOK <=> Flags /\ Shapes) /\ (TypeOK' <=> Flags' /\ Shapes')
BY Zenon DEF TypeOK, Flags, Shapes

------------------------------------------------------------------------------
(* Every step keeps the invariant.                                            *)
\* The flags.
LEMMA FlagsNext ==
    ASSUME WifiInv, [Next]_vars
    PROVE  Flags'
<1> USE WifiAssumption DEF WifiAssumption, connVars, driverVars, pcVars, TypeOK, Flags
<1>0. TypeOK /\ Counting /\ News /\ Requests /\ Guarded
    BY DEF WifiInv
<1>1. CASE StationUp
    BY <1>0, <1>1, StationFacts, Zenon DEF StationUp
<1>2. CASE StationDown
    BY <1>0, <1>2, StationFacts, Zenon DEF StationDown
<1>3. CASE StationSilent
    BY <1>0, <1>3, Zenon DEF StationSilent
<1>4. ASSUME NEW m \in {"connect", "disconnect"}, WorkTakes(m) PROVE Flags'
    BY <1>0, <1>4, WorkFacts, Zenon DEF WorkTakes
<1>5. CASE ConnectLeaves
    BY <1>0, <1>5, LeaveFacts, Zenon DEF ConnectLeaves, Works
<1>6. CASE DisconnectLeaves
    BY <1>0, <1>6, LeaveFacts, Zenon DEF DisconnectLeaves, Works
<1>7. CASE ConnectGuards
    BY <1>0, <1>7, Zenon DEF ConnectGuards, Works
<1>8. CASE ConnectChecks
    BY <1>0, <1>8, Zenon DEF ConnectChecks, Works
<1>9. CASE ConnectJoins
    BY <1>0, <1>9, Zenon DEF ConnectJoins, Works
<1>10. CASE DisconnectBegins
    BY <1>0, <1>10, Zenon DEF DisconnectBegins, Works
<1>11. CASE DisconnectStops
    BY <1>0, <1>11, Zenon DEF DisconnectStops, Works
<1>12. CASE DisconnectSettles
    BY <1>0, <1>12, Zenon DEF DisconnectSettles, Works
<1>13. ASSUME NEW e \in {"up", "down"}, EventStopsTimer(e) PROVE Flags'
    BY <1>0, <1>13, TakeFacts, Zenon DEF EventStopsTimer
<1>14. CASE EventUp
    BY <1>0, <1>14, Zenon DEF EventUp, Handles
<1>15. CASE EventRetries
    BY <1>0, <1>15, Zenon DEF EventRetries, Handles
<1>16. CASE EventRelinks
    BY <1>0, <1>16, Zenon DEF EventRelinks, Handles
<1>17. CASE EventIgnored
    BY <1>0, <1>17, Zenon DEF EventIgnored, Handles
<1>18. CASE EventPauses
    BY <1>0, <1>18, Zenon DEF EventPauses, Handles
<1>19. CASE EventCounts
    BY <1>0, <1>19, Zenon DEF EventCounts, Handles
<1>20. CASE EventWaits
    BY <1>0, <1>20, Zenon DEF EventWaits, Handles
<1>21. CASE EventConnects
    BY <1>0, <1>21, ScheduleFacts, Zenon DEF EventConnects, Handles, ConnectReturns
<1>22. CASE TimerFires
    BY <1>0, <1>22, Zenon DEF TimerFires, Ticks
<1>23. CASE TimerReads
    BY <1>0, <1>23, Zenon DEF TimerReads, Ticks
<1>24. CASE TimerChecks
    BY <1>0, <1>24, Zenon DEF TimerChecks, Ticks
<1>25. CASE TimerReady
    BY <1>0, <1>25, Zenon DEF TimerReady, Ticks
<1>26. CASE TimerPauses
    BY <1>0, <1>26, Zenon DEF TimerPauses, Ticks
<1>27. CASE TimerCounts
    BY <1>0, <1>27, Zenon DEF TimerCounts, Ticks
<1>28. CASE TimerWaits
    BY <1>0, <1>28, Zenon DEF TimerWaits, Ticks
<1>29. CASE TimerConnects
    BY <1>0, <1>29, Zenon DEF TimerConnects, Ticks, ConnectReturns
<1>30. CASE AppConnects
    BY <1>0, <1>30, Zenon DEF AppConnects, Asks, ConnectReturns
<1>31. CASE AppCloses
    BY <1>0, <1>31, Zenon DEF AppCloses, Asks, DisconnectReturns
<1>32. CASE AppResetEvent
    BY <1>0, <1>32, Zenon DEF AppResetEvent, Asks
<1>33. CASE AppResets
    BY <1>0, <1>33, Zenon DEF AppResets, Asks
<1>34. CASE AppLeaves
    BY <1>0, <1>34, LeaveFacts, Zenon DEF AppLeaves, Asks
<1>36. CASE TimerQueues
    BY <1>0, <1>36, ScheduleFacts, Zenon DEF TimerQueues, Ticks
<1>37. CASE AppQueuesConnect
    BY <1>0, <1>37, ScheduleFacts, Zenon DEF AppQueuesConnect, Asks
<1>38. CASE AppQueuesClose
    BY <1>0, <1>38, ScheduleFacts, Zenon DEF AppQueuesClose, Asks
<1>35. CASE UNCHANGED vars
    BY <1>0, <1>35 DEF vars
<1> QED BY <1>1, <1>2, <1>3, <1>4, <1>5, <1>6, <1>7, <1>8, <1>9, <1>10, <1>11, <1>12, <1>13, <1>14, <1>15, <1>16, <1>17, <1>18, <1>19, <1>20, <1>21, <1>22, <1>23, <1>24, <1>25, <1>26, <1>27, <1>28, <1>29, <1>30, <1>31, <1>32, <1>33, <1>34, <1>35, <1>36, <1>37, <1>38 DEF Next, Worker, Callback, Timer

\* The other types.
LEMMA ShapesNext ==
    ASSUME WifiInv, [Next]_vars
    PROVE  Shapes'
<1> USE WifiAssumption DEF WifiAssumption, connVars, driverVars, pcVars, TypeOK, Counting, Shapes
<1>0. TypeOK /\ Counting /\ News /\ Requests /\ Guarded
    BY DEF WifiInv
<1>1. CASE StationUp
    BY <1>0, <1>1, StationFacts DEF StationUp
<1>2. CASE StationDown
    BY <1>0, <1>2, StationFacts DEF StationDown
<1>3. CASE StationSilent
    BY <1>0, <1>3 DEF StationSilent
<1>4. ASSUME NEW m \in {"connect", "disconnect"}, WorkTakes(m) PROVE Shapes'
    BY <1>0, <1>4, WorkFacts DEF WorkTakes
<1>5. CASE ConnectLeaves
    BY <1>0, <1>5, LeaveFacts DEF ConnectLeaves, Works
<1>6. CASE DisconnectLeaves
    BY <1>0, <1>6, LeaveFacts DEF DisconnectLeaves, Works
<1>7. CASE ConnectGuards
    BY <1>0, <1>7 DEF ConnectGuards, Works
<1>8. CASE ConnectChecks
    BY <1>0, <1>8 DEF ConnectChecks, Works
<1>9. CASE ConnectJoins
    BY <1>0, <1>9 DEF ConnectJoins, Works
<1>10. CASE DisconnectBegins
    BY <1>0, <1>10 DEF DisconnectBegins, Works
<1>11. CASE DisconnectStops
    BY <1>0, <1>11 DEF DisconnectStops, Works
<1>12. CASE DisconnectSettles
    BY <1>0, <1>12 DEF DisconnectSettles, Works
<1>13. ASSUME NEW e \in {"up", "down"}, EventStopsTimer(e) PROVE Shapes'
    BY <1>0, <1>13, TakeFacts DEF EventStopsTimer
<1>14. CASE EventUp
    BY <1>0, <1>14 DEF EventUp, Handles
<1>15. CASE EventRetries
    BY <1>0, <1>15 DEF EventRetries, Handles
<1>16. CASE EventRelinks
    BY <1>0, <1>16 DEF EventRelinks, Handles
<1>17. CASE EventIgnored
    BY <1>0, <1>17 DEF EventIgnored, Handles
<1>18. CASE EventPauses
    BY <1>0, <1>18 DEF EventPauses, Handles
<1>19. CASE EventCounts
    BY <1>0, <1>19 DEF EventCounts, Handles
<1>20. CASE EventWaits
    BY <1>0, <1>20 DEF EventWaits, Handles
<1>21. CASE EventConnects
    BY <1>0, <1>21, AskFacts DEF EventConnects, Handles, ConnectReturns
<1>22. CASE TimerFires
    BY <1>0, <1>22 DEF TimerFires, Ticks
<1>23. CASE TimerReads
    BY <1>0, <1>23 DEF TimerReads, Ticks
<1>24. CASE TimerChecks
    BY <1>0, <1>24 DEF TimerChecks, Ticks
<1>25. CASE TimerReady
    BY <1>0, <1>25 DEF TimerReady, Ticks
<1>26. CASE TimerPauses
    BY <1>0, <1>26 DEF TimerPauses, Ticks
<1>27. CASE TimerCounts
    BY <1>0, <1>27 DEF TimerCounts, Ticks
<1>28. CASE TimerWaits
    BY <1>0, <1>28 DEF TimerWaits, Ticks
<1>29. CASE TimerConnects
    BY <1>0, <1>29 DEF TimerConnects, Ticks, ConnectReturns
<1>30. CASE AppConnects
    BY <1>0, <1>30 DEF AppConnects, Asks, ConnectReturns
<1>31. CASE AppCloses
    BY <1>0, <1>31 DEF AppCloses, Asks, DisconnectReturns
<1>32. CASE AppResetEvent
    BY <1>0, <1>32 DEF AppResetEvent, Asks
<1>33. CASE AppResets
    BY <1>0, <1>33 DEF AppResets, Asks
<1>34. CASE AppLeaves
    BY <1>0, <1>34, LeaveFacts DEF AppLeaves, Asks
<1>36. CASE TimerQueues
    BY <1>0, <1>36, AskFacts DEF TimerQueues, Ticks
<1>37. CASE AppQueuesConnect
    BY <1>0, <1>37, AskFacts DEF AppQueuesConnect, Asks
<1>38. CASE AppQueuesClose
    BY <1>0, <1>38, AskFacts DEF AppQueuesClose, Asks
<1>35. CASE UNCHANGED vars
    BY <1>0, <1>35 DEF vars
<1> QED BY <1>1, <1>2, <1>3, <1>4, <1>5, <1>6, <1>7, <1>8, <1>9, <1>10, <1>11, <1>12, <1>13, <1>14, <1>15, <1>16, <1>17, <1>18, <1>19, <1>20, <1>21, <1>22, <1>23, <1>24, <1>25, <1>26, <1>27, <1>28, <1>29, <1>30, <1>31, <1>32, <1>33, <1>34, <1>35, <1>36, <1>37, <1>38 DEF Next, Worker, Callback, Timer

\* The table is overrun by at most one.
LEMMA CountingNext ==
    ASSUME WifiInv, [Next]_vars
    PROVE  Counting'
<1> USE WifiAssumption DEF WifiAssumption, connVars, driverVars, pcVars, TypeOK, Counting
<1>0. TypeOK /\ Counting /\ News /\ Requests /\ Guarded
    BY DEF WifiInv
<1>1. CASE StationUp
    BY <1>0, <1>1, StationFacts DEF StationUp
<1>2. CASE StationDown
    BY <1>0, <1>2, StationFacts DEF StationDown
<1>3. CASE StationSilent
    BY <1>0, <1>3 DEF StationSilent
<1>4. ASSUME NEW m \in {"connect", "disconnect"}, WorkTakes(m) PROVE Counting'
    BY <1>0, <1>4, WorkFacts DEF WorkTakes
<1>5. CASE ConnectLeaves
    BY <1>0, <1>5, LeaveFacts DEF ConnectLeaves, Works
<1>6. CASE DisconnectLeaves
    BY <1>0, <1>6, LeaveFacts DEF DisconnectLeaves, Works
<1>7. CASE ConnectGuards
    BY <1>0, <1>7 DEF ConnectGuards, Works
<1>8. CASE ConnectChecks
    BY <1>0, <1>8 DEF ConnectChecks, Works
<1>9. CASE ConnectJoins
    BY <1>0, <1>9 DEF ConnectJoins, Works
<1>10. CASE DisconnectBegins
    BY <1>0, <1>10 DEF DisconnectBegins, Works
<1>11. CASE DisconnectStops
    BY <1>0, <1>11 DEF DisconnectStops, Works
<1>12. CASE DisconnectSettles
    BY <1>0, <1>12 DEF DisconnectSettles, Works
<1>13. ASSUME NEW e \in {"up", "down"}, EventStopsTimer(e) PROVE Counting'
    BY <1>0, <1>13, TakeFacts DEF EventStopsTimer
<1>14. CASE EventUp
    BY <1>0, <1>14 DEF EventUp, Handles
<1>15. CASE EventRetries
    BY <1>0, <1>15 DEF EventRetries, Handles
<1>16. CASE EventRelinks
    BY <1>0, <1>16 DEF EventRelinks, Handles
<1>17. CASE EventIgnored
    BY <1>0, <1>17 DEF EventIgnored, Handles
<1>18. CASE EventPauses
    BY <1>0, <1>18 DEF EventPauses, Handles
<1>19. CASE EventCounts
    BY <1>0, <1>19 DEF EventCounts, Handles
<1>20. CASE EventWaits
    BY <1>0, <1>20 DEF EventWaits, Handles
<1>21. CASE EventConnects
    BY <1>0, <1>21, ScheduleFacts DEF EventConnects, Handles, ConnectReturns
<1>22. CASE TimerFires
    BY <1>0, <1>22 DEF TimerFires, Ticks
<1>23. CASE TimerReads
    BY <1>0, <1>23 DEF TimerReads, Ticks
<1>24. CASE TimerChecks
    BY <1>0, <1>24 DEF TimerChecks, Ticks
<1>25. CASE TimerReady
    BY <1>0, <1>25 DEF TimerReady, Ticks
<1>26. CASE TimerPauses
    BY <1>0, <1>26 DEF TimerPauses, Ticks
<1>27. CASE TimerCounts
    BY <1>0, <1>27 DEF TimerCounts, Ticks
<1>28. CASE TimerWaits
    BY <1>0, <1>28 DEF TimerWaits, Ticks
<1>29. CASE TimerConnects
    BY <1>0, <1>29 DEF TimerConnects, Ticks, ConnectReturns
<1>30. CASE AppConnects
    BY <1>0, <1>30 DEF AppConnects, Asks, ConnectReturns
<1>31. CASE AppCloses
    BY <1>0, <1>31 DEF AppCloses, Asks, DisconnectReturns
<1>32. CASE AppResetEvent
    BY <1>0, <1>32 DEF AppResetEvent, Asks
<1>33. CASE AppResets
    BY <1>0, <1>33 DEF AppResets, Asks
<1>34. CASE AppLeaves
    BY <1>0, <1>34, LeaveFacts DEF AppLeaves, Asks
<1>36. CASE TimerQueues
    BY <1>0, <1>36, ScheduleFacts DEF TimerQueues, Ticks
<1>37. CASE AppQueuesConnect
    BY <1>0, <1>37, ScheduleFacts DEF AppQueuesConnect, Asks
<1>38. CASE AppQueuesClose
    BY <1>0, <1>38, ScheduleFacts DEF AppQueuesClose, Asks
<1>35. CASE UNCHANGED vars
    BY <1>0, <1>35 DEF vars
<1> QED BY <1>1, <1>2, <1>3, <1>4, <1>5, <1>6, <1>7, <1>8, <1>9, <1>10, <1>11, <1>12, <1>13, <1>14, <1>15, <1>16, <1>17, <1>18, <1>19, <1>20, <1>21, <1>22, <1>23, <1>24, <1>25, <1>26, <1>27, <1>28, <1>29, <1>30, <1>31, <1>32, <1>33, <1>34, <1>35, <1>36, <1>37, <1>38 DEF Next, Worker, Callback, Timer

\* The events tell of the station.
LEMMA NewsNext ==
    ASSUME WifiInv, [Next]_vars
    PROVE  News'
<1> USE WifiAssumption DEF WifiAssumption, connVars, driverVars, pcVars, TypeOK, News, Leaving
<1>0. TypeOK /\ Counting /\ News /\ Requests /\ Guarded
    BY DEF WifiInv
<1>1. CASE StationUp
    BY <1>0, <1>1, StationFacts DEF StationUp
<1>2. CASE StationDown
    BY <1>0, <1>2, StationFacts DEF StationDown
<1>3. CASE StationSilent
    BY <1>0, <1>3 DEF StationSilent
<1>4. ASSUME NEW m \in {"connect", "disconnect"}, WorkTakes(m) PROVE News'
    BY <1>0, <1>4, WorkFacts DEF WorkTakes
<1>5. CASE ConnectLeaves
    BY <1>0, <1>5, LeaveFacts DEF ConnectLeaves, Works
<1>6. CASE DisconnectLeaves
    BY <1>0, <1>6, LeaveFacts DEF DisconnectLeaves, Works
<1>7. CASE ConnectGuards
    BY <1>0, <1>7 DEF ConnectGuards, Works
<1>8. CASE ConnectChecks
    BY <1>0, <1>8 DEF ConnectChecks, Works
<1>9. CASE ConnectJoins
    BY <1>0, <1>9 DEF ConnectJoins, Works
<1>10. CASE DisconnectBegins
    BY <1>0, <1>10 DEF DisconnectBegins, Works
<1>11. CASE DisconnectStops
    BY <1>0, <1>11 DEF DisconnectStops, Works
<1>12. CASE DisconnectSettles
    BY <1>0, <1>12 DEF DisconnectSettles, Works
<1>13. ASSUME NEW e \in {"up", "down"}, EventStopsTimer(e) PROVE News'
    BY <1>0, <1>13, TakeFacts DEF EventStopsTimer
<1>14. CASE EventUp
    BY <1>0, <1>14 DEF EventUp, Handles
<1>15. CASE EventRetries
    BY <1>0, <1>15 DEF EventRetries, Handles
<1>16. CASE EventRelinks
    BY <1>0, <1>16 DEF EventRelinks, Handles
<1>17. CASE EventIgnored
    BY <1>0, <1>17 DEF EventIgnored, Handles
<1>18. CASE EventPauses
    BY <1>0, <1>18 DEF EventPauses, Handles
<1>19. CASE EventCounts
    BY <1>0, <1>19 DEF EventCounts, Handles
<1>20. CASE EventWaits
    BY <1>0, <1>20 DEF EventWaits, Handles
<1>21. CASE EventConnects
    BY <1>0, <1>21, ScheduleFacts DEF EventConnects, Handles, ConnectReturns
<1>22. CASE TimerFires
    BY <1>0, <1>22 DEF TimerFires, Ticks
<1>23. CASE TimerReads
    BY <1>0, <1>23 DEF TimerReads, Ticks
<1>24. CASE TimerChecks
    BY <1>0, <1>24 DEF TimerChecks, Ticks
<1>25. CASE TimerReady
    BY <1>0, <1>25 DEF TimerReady, Ticks
<1>26. CASE TimerPauses
    BY <1>0, <1>26 DEF TimerPauses, Ticks
<1>27. CASE TimerCounts
    BY <1>0, <1>27 DEF TimerCounts, Ticks
<1>28. CASE TimerWaits
    BY <1>0, <1>28 DEF TimerWaits, Ticks
<1>29. CASE TimerConnects
    BY <1>0, <1>29 DEF TimerConnects, Ticks, ConnectReturns
<1>30. CASE AppConnects
    BY <1>0, <1>30 DEF AppConnects, Asks, ConnectReturns
<1>31. CASE AppCloses
    BY <1>0, <1>31 DEF AppCloses, Asks, DisconnectReturns
<1>32. CASE AppResetEvent
    BY <1>0, <1>32 DEF AppResetEvent, Asks
<1>33. CASE AppResets
    BY <1>0, <1>33 DEF AppResets, Asks
<1>34. CASE AppLeaves
    BY <1>0, <1>34, LeaveFacts DEF AppLeaves, Asks
<1>36. CASE TimerQueues
    BY <1>0, <1>36, ScheduleFacts DEF TimerQueues, Ticks
<1>37. CASE AppQueuesConnect
    BY <1>0, <1>37, ScheduleFacts DEF AppQueuesConnect, Asks
<1>38. CASE AppQueuesClose
    BY <1>0, <1>38, ScheduleFacts DEF AppQueuesClose, Asks
<1>35. CASE UNCHANGED vars
    BY <1>0, <1>35 DEF vars
<1> QED BY <1>1, <1>2, <1>3, <1>4, <1>5, <1>6, <1>7, <1>8, <1>9, <1>10, <1>11, <1>12, <1>13, <1>14, <1>15, <1>16, <1>17, <1>18, <1>19, <1>20, <1>21, <1>22, <1>23, <1>24, <1>25, <1>26, <1>27, <1>28, <1>29, <1>30, <1>31, <1>32, <1>33, <1>34, <1>35, <1>36, <1>37, <1>38 DEF Next, Worker, Callback, Timer

\* A connection that is wanted is asked for.
LEMMA RequestsNext ==
    ASSUME WifiInv, [Next]_vars
    PROVE  Requests'
<1> USE WifiAssumption DEF WifiAssumption, connVars, driverVars, pcVars, TypeOK, News, Requests, Good, Leaving
<1>0. TypeOK /\ Counting /\ News /\ Requests /\ Guarded
    BY DEF WifiInv
<1>1. CASE StationUp
    BY <1>0, <1>1, StationFacts DEF StationUp
<1>2. CASE StationDown
    BY <1>0, <1>2, StationFacts DEF StationDown
<1>3. CASE StationSilent
    BY <1>0, <1>3 DEF StationSilent
<1>4. ASSUME NEW m \in {"connect", "disconnect"}, WorkTakes(m) PROVE Requests'
    BY <1>0, <1>4, WorkFacts DEF WorkTakes
<1>5. CASE ConnectLeaves
    BY <1>0, <1>5, LeaveFacts DEF ConnectLeaves, Works
<1>6. CASE DisconnectLeaves
    BY <1>0, <1>6, LeaveFacts DEF DisconnectLeaves, Works
<1>7. CASE ConnectGuards
    BY <1>0, <1>7 DEF ConnectGuards, Works
<1>8. CASE ConnectChecks
    BY <1>0, <1>8 DEF ConnectChecks, Works
<1>9. CASE ConnectJoins
    BY <1>0, <1>9 DEF ConnectJoins, Works
<1>10. CASE DisconnectBegins
    BY <1>0, <1>10 DEF DisconnectBegins, Works
<1>11. CASE DisconnectStops
    BY <1>0, <1>11 DEF DisconnectStops, Works
<1>12. CASE DisconnectSettles
    BY <1>0, <1>12 DEF DisconnectSettles, Works
<1>13. ASSUME NEW e \in {"up", "down"}, EventStopsTimer(e) PROVE Requests'
    BY <1>0, <1>13, TakeFacts DEF EventStopsTimer
<1>14. CASE EventUp
    BY <1>0, <1>14 DEF EventUp, Handles
<1>15. CASE EventRetries
    BY <1>0, <1>15 DEF EventRetries, Handles
<1>16. CASE EventRelinks
    BY <1>0, <1>16 DEF EventRelinks, Handles
<1>17. CASE EventIgnored
    BY <1>0, <1>17 DEF EventIgnored, Handles
<1>18. CASE EventPauses
    BY <1>0, <1>18 DEF EventPauses, Handles
<1>19. CASE EventCounts
    BY <1>0, <1>19 DEF EventCounts, Handles
<1>20. CASE EventWaits
    BY <1>0, <1>20 DEF EventWaits, Handles
<1>21. CASE EventConnects
    BY <1>0, <1>21, ScheduleFacts DEF EventConnects, Handles, ConnectReturns
<1>22. CASE TimerFires
    BY <1>0, <1>22 DEF TimerFires, Ticks
<1>23. CASE TimerReads
    BY <1>0, <1>23 DEF TimerReads, Ticks
<1>24. CASE TimerChecks
    BY <1>0, <1>24 DEF TimerChecks, Ticks
<1>25. CASE TimerReady
    BY <1>0, <1>25 DEF TimerReady, Ticks
<1>26. CASE TimerPauses
    BY <1>0, <1>26 DEF TimerPauses, Ticks
<1>27. CASE TimerCounts
    BY <1>0, <1>27 DEF TimerCounts, Ticks
<1>28. CASE TimerWaits
    BY <1>0, <1>28 DEF TimerWaits, Ticks
<1>29. CASE TimerConnects
    BY <1>0, <1>29 DEF TimerConnects, Ticks, ConnectReturns
<1>30. CASE AppConnects
    BY <1>0, <1>30 DEF AppConnects, Asks, ConnectReturns
<1>31. CASE AppCloses
    BY <1>0, <1>31 DEF AppCloses, Asks, DisconnectReturns
<1>32. CASE AppResetEvent
    BY <1>0, <1>32 DEF AppResetEvent, Asks
<1>33. CASE AppResets
    BY <1>0, <1>33 DEF AppResets, Asks
<1>34. CASE AppLeaves
    BY <1>0, <1>34, LeaveFacts DEF AppLeaves, Asks
<1>36. CASE TimerQueues
    BY <1>0, <1>36, ScheduleFacts DEF TimerQueues, Ticks
<1>37. CASE AppQueuesConnect
    BY <1>0, <1>37, ScheduleFacts DEF AppQueuesConnect, Asks
<1>38. CASE AppQueuesClose
    BY <1>0, <1>38, ScheduleFacts DEF AppQueuesClose, Asks
<1>35. CASE UNCHANGED vars
    BY <1>0, <1>35 DEF vars
<1> QED BY <1>1, <1>2, <1>3, <1>4, <1>5, <1>6, <1>7, <1>8, <1>9, <1>10, <1>11, <1>12, <1>13, <1>14, <1>15, <1>16, <1>17, <1>18, <1>19, <1>20, <1>21, <1>22, <1>23, <1>24, <1>25, <1>26, <1>27, <1>28, <1>29, <1>30, <1>31, <1>32, <1>33, <1>34, <1>35, <1>36, <1>37, <1>38 DEF Next, Worker, Callback, Timer

\* Somebody stays busy.
LEMMA GuardedNext ==
    ASSUME WifiInv, [Next]_vars
    PROVE  Guarded'
<1> USE WifiAssumption DEF WifiAssumption, connVars, driverVars, pcVars, TypeOK, News, Requests, Guarded, Busy, Good, Leaving
<1>0. TypeOK /\ Counting /\ News /\ Requests /\ Guarded
    BY DEF WifiInv
<1>1. CASE StationUp
    BY <1>0, <1>1, StationFacts DEF StationUp
<1>2. CASE StationDown
    BY <1>0, <1>2, StationFacts DEF StationDown
<1>3. CASE StationSilent
    BY <1>0, <1>3 DEF StationSilent
<1>4. ASSUME NEW m \in {"connect", "disconnect"}, WorkTakes(m) PROVE Guarded'
    BY <1>0, <1>4, WorkFacts DEF WorkTakes
<1>5. CASE ConnectLeaves
    BY <1>0, <1>5, LeaveFacts DEF ConnectLeaves, Works
<1>6. CASE DisconnectLeaves
    BY <1>0, <1>6, LeaveFacts DEF DisconnectLeaves, Works
<1>7. CASE ConnectGuards
    BY <1>0, <1>7 DEF ConnectGuards, Works
<1>8. CASE ConnectChecks
    BY <1>0, <1>8 DEF ConnectChecks, Works
<1>9. CASE ConnectJoins
    BY <1>0, <1>9 DEF ConnectJoins, Works
<1>10. CASE DisconnectBegins
    BY <1>0, <1>10 DEF DisconnectBegins, Works
<1>11. CASE DisconnectStops
    BY <1>0, <1>11 DEF DisconnectStops, Works
<1>12. CASE DisconnectSettles
    BY <1>0, <1>12 DEF DisconnectSettles, Works
<1>13. ASSUME NEW e \in {"up", "down"}, EventStopsTimer(e) PROVE Guarded'
    BY <1>0, <1>13, TakeFacts DEF EventStopsTimer
<1>14. CASE EventUp
    BY <1>0, <1>14 DEF EventUp, Handles
<1>15. CASE EventRetries
    BY <1>0, <1>15 DEF EventRetries, Handles
<1>16. CASE EventRelinks
    BY <1>0, <1>16 DEF EventRelinks, Handles
<1>17. CASE EventIgnored
    BY <1>0, <1>17 DEF EventIgnored, Handles
<1>18. CASE EventPauses
    BY <1>0, <1>18 DEF EventPauses, Handles
<1>19. CASE EventCounts
    BY <1>0, <1>19 DEF EventCounts, Handles
<1>20. CASE EventWaits
    BY <1>0, <1>20 DEF EventWaits, Handles
<1>21. CASE EventConnects
    BY <1>0, <1>21, ScheduleFacts DEF EventConnects, Handles, ConnectReturns
<1>22. CASE TimerFires
    BY <1>0, <1>22 DEF TimerFires, Ticks
<1>23. CASE TimerReads
    BY <1>0, <1>23 DEF TimerReads, Ticks
<1>24. CASE TimerChecks
    BY <1>0, <1>24 DEF TimerChecks, Ticks
<1>25. CASE TimerReady
    BY <1>0, <1>25 DEF TimerReady, Ticks
<1>26. CASE TimerPauses
    BY <1>0, <1>26 DEF TimerPauses, Ticks
<1>27. CASE TimerCounts
    BY <1>0, <1>27 DEF TimerCounts, Ticks
<1>28. CASE TimerWaits
    BY <1>0, <1>28 DEF TimerWaits, Ticks
<1>29. CASE TimerConnects
    BY <1>0, <1>29 DEF TimerConnects, Ticks, ConnectReturns
<1>30. CASE AppConnects
    BY <1>0, <1>30 DEF AppConnects, Asks, ConnectReturns
<1>31. CASE AppCloses
    BY <1>0, <1>31 DEF AppCloses, Asks, DisconnectReturns
<1>32. CASE AppResetEvent
    BY <1>0, <1>32 DEF AppResetEvent, Asks
<1>33. CASE AppResets
    BY <1>0, <1>33 DEF AppResets, Asks
<1>34. CASE AppLeaves
    BY <1>0, <1>34, LeaveFacts DEF AppLeaves, Asks
<1>36. CASE TimerQueues
    BY <1>0, <1>36, ScheduleFacts DEF TimerQueues, Ticks
<1>37. CASE AppQueuesConnect
    BY <1>0, <1>37, ScheduleFacts DEF AppQueuesConnect, Asks
<1>38. CASE AppQueuesClose
    BY <1>0, <1>38, ScheduleFacts DEF AppQueuesClose, Asks
<1>35. CASE UNCHANGED vars
    BY <1>0, <1>35 DEF vars
<1> QED BY <1>1, <1>2, <1>3, <1>4, <1>5, <1>6, <1>7, <1>8, <1>9, <1>10, <1>11, <1>12, <1>13, <1>14, <1>15, <1>16, <1>17, <1>18, <1>19, <1>20, <1>21, <1>22, <1>23, <1>24, <1>25, <1>26, <1>27, <1>28, <1>29, <1>30, <1>31, <1>32, <1>33, <1>34, <1>35, <1>36, <1>37, <1>38 DEF Next, Worker, Callback, Timer

------------------------------------------------------------------------------
\* The initial states satisfy the invariant.
LEMMA WifiInvInit == Init => WifiInv
<1> SUFFICES ASSUME Init PROVE WifiInv
    OBVIOUS
<1>0. workq \in Seq({"connect", "disconnect"}) /\ events \in Seq({"up", "down"})
  <2>1. /\ <<>> \in Seq({"connect", "disconnect"}) /\ <<>> \in Seq({"up", "down"})
        /\ <<"connect">> \in Seq({"connect", "disconnect"})
      OBVIOUS
  <2> QED BY <2>1, Zenon DEF Init
<1>1. Shapes
    BY <1>0, WifiAssumption DEF Init, Shapes, WifiAssumption
<1>3. Flags
    BY Zenon DEF Init, Flags
<1>4. TypeOK
    BY <1>1, <1>3, TypesLemma
<1>2. workq # <<>> => LastOf(workq) = "connect"
    BY DEF Init, LastOf
<1> QED BY <1>4, <1>2 DEF Init, WifiInv, Counting, News, Requests, Guarded, Good, Busy, Leaving

\* The inductive invariant: the driver's events tell of the station, a wanted connection
\* is asked for, and somebody stays busy until it is there.
THEOREM WifiInvariant == Spec => []WifiInv
<1>1. WifiInv /\ [Next]_vars => WifiInv'
    BY TypesLemma, FlagsNext, ShapesNext, CountingNext, NewsNext, RequestsNext, GuardedNext DEF WifiInv
<1> QED BY <1>1, WifiInvInit, PTL DEF Spec

\* The type invariant; count runs past the table by one at most.
THEOREM WifiTypes == Spec => []TypeOK
<1>1. WifiInv => TypeOK
    BY DEF WifiInv
<1> QED BY <1>1, WifiInvariant, PTL

\* A connection that is down and wanted is never given up, however the worker, the two
\* callbacks and the application interleave.
THEOREM WifiNotStranded == Spec => []NotStranded
<1>1. WifiInv => NotStranded
    BY DEF WifiInv, Guarded, Good, Busy, NotStranded
<1> QED BY <1>1, WifiInvariant, PTL

\* What the manager is told is the state of the station.
THEOREM WifiStatusTrue == Spec => []StatusTrue
<1>1. WifiInv => StatusTrue
    BY DEF WifiInv, News, StatusTrue
<1> QED BY <1>1, WifiInvariant, PTL
==============================================================================
