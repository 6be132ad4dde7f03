-------------------------- MODULE MqttServiceProof --------------------------
(***************************************************************************)
(* Theorems about MqttService, for every set of threads and handles, every *)
(* timeout and every bound on the clock.                                   *)
(***************************************************************************)
EXTENDS MqttService, TLAPS

\* The places that hold a link: the head, and the memory of an entry not yet freed.
Sources == Handles \union {HEAD}
Live(p) == p = HEAD \/ mem[p] = "allocated"

\* No live link leads to freed memory, or to an entry that its thread has yet to link.
LinksLive ==
    \A p \in Sources : Live(p) /\ Link(p) # NULL =>
        mem[Link(p)] = "allocated" /\ \A a \in Apps : mine[a] # Link(p)

\* An entry hangs on one live link.
LinksOne ==
    \A p, q \in Sources :
        Live(p) /\ Live(q) /\ Link(p) # NULL /\ Link(p) = Link(q) => p = q

\* The links make no cycle: every set of entries has one whose link leaves it.
Acyclic == \A S \in SUBSET Handles : S # {} => \E h \in S : next[h] \notin S

\* What a thread is about to link is its own and fresh.
MineFresh ==
    \A a \in Apps :
        /\ appPc[a] # "idle" <=> mine[a] # NULL
        /\ mine[a] # NULL => /\ mem[mine[a]] = "allocated" /\ next[mine[a]] = NULL
                             /\ \A b \in Apps : mine[b] = mine[a] => a = b

\* What it read as the end of the list was linked before.
LastLinked ==
    \A a \in Apps :
        appPc[a] = "link" /\ last[a] # NULL =>
            mem[last[a]] # "unused" /\ \A b \in Apps : mine[b] # last[a]

\* The callback is called when the entry is freed, and then only.
Told ==
    \A h \in Handles :
        /\ told[h] = IF mem[h] = "freed" THEN 1 ELSE 0
        /\ mem[h] = "unused" => next[h] = NULL

\* The walk holds a live link.
WalkLive == pc = "walk" => Live(cur)

ListInv == LinksLive /\ LinksOne /\ Acyclic /\ MineFresh /\ LastLinked /\ Told /\ WalkLive

MqttInv == TypeOK /\ ListInv /\ HandledOnce

------------------------------------------------------------------------------
LEMMA Pointers == NULL \notin Handles /\ HEAD \notin Handles /\ NULL # HEAD
BY PointersAssumption DEF NULL, HEAD

\* Entries is closed, and within every closed set.
LEMMA Reached ==
    ASSUME TypeOK
    PROVE  /\ Entries \in SUBSET Handles /\ Closed(Entries)
           /\ \A S \in SUBSET Handles : Closed(S) => Entries \subseteq S
<1>1. Entries \in SUBSET Handles
    BY DEF Entries
<1>2. publish_list # NULL => publish_list \in Entries
    BY DEF Entries, Closed, TypeOK
<1>3. ASSUME NEW h \in Entries, next[h] # NULL PROVE next[h] \in Entries
  <2>1. h \in Handles /\ next[h] \in Handles
      BY <1>1, <1>3 DEF TypeOK
  <2>2. ASSUME NEW S \in SUBSET Handles, Closed(S) PROVE next[h] \in S
      BY <1>3, <2>2 DEF Entries, Closed
  <2> QED BY <2>1, <2>2 DEF Entries
<1>4. \A S \in SUBSET Handles : Closed(S) => Entries \subseteq S
    BY DEF Entries
<1> QED BY <1>1, <1>2, <1>3, <1>4 DEF Closed

\* The entries of the list are allocated, and linked by the thread that made them.
LEMMA EntriesLive ==
    ASSUME TypeOK, LinksLive
    PROVE  \A h \in Entries : mem[h] = "allocated" /\ \A a \in Apps : mine[a] # h
<1> DEFINE S == {h \in Handles : mem[h] = "allocated" /\ \A a \in Apps : mine[a] # h}
<1>1. S \in SUBSET Handles
    OBVIOUS
<1>2. publish_list # NULL => publish_list \in S
    BY DEF LinksLive, Sources, Live, Link, TypeOK
<1>3. ASSUME NEW h \in S, next[h] # NULL PROVE next[h] \in S
    BY <1>3, Pointers DEF LinksLive, Sources, Live, Link, TypeOK
<1>4. Closed(S)
    BY <1>2, <1>3 DEF Closed
<1> QED BY <1>1, <1>4, Reached

\* A list that is not empty has an end.
LEMMA HasLast ==
    ASSUME TypeOK, Acyclic, publish_list # NULL
    PROVE  LastEntry \in Entries /\ next[LastEntry] = NULL
<1>1. Entries # {} /\ Entries \in SUBSET Handles
    BY Reached DEF Closed
<1>2. PICK h \in Entries : next[h] \notin Entries
    BY <1>1 DEF Acyclic
<1>3. next[h] = NULL
    BY <1>2, Reached DEF Closed
<1> QED BY <1>2, <1>3 DEF LastEntry

\* An entry that is not the first has one in front of it.
LEMMA HasPred ==
    ASSUME TypeOK, NEW h \in Entries, publish_list # h
    PROVE  \E q \in Entries : next[q] = h
<1> SUFFICES ASSUME \A q \in Entries : next[q] # h PROVE FALSE
    OBVIOUS
<1> DEFINE S == Entries \ {h}
<1>1. S \in SUBSET Handles
    BY Reached
<1>2. Closed(S)
    BY Reached DEF Closed
<1> QED BY <1>1, <1>2, Reached

------------------------------------------------------------------------------
\* Unlinking an entry makes no cycle.
LEMMA UnlinkAcyclic ==
    ASSUME TypeOK, Acyclic, NEW p \in Handles, NEW e \in Handles, next[p] = e,
           next' = [next EXCEPT ![p] = next[e]]
    PROVE  Acyclic'
<1> SUFFICES ASSUME NEW S \in SUBSET Handles, S # {} PROVE \E h \in S : next'[h] \notin S
    BY DEF Acyclic
<1>0. next \in [Handles -> Handles \union {NULL}]
    BY DEF TypeOK
<1>1. CASE p \in S
  <2>1. S \union {e} \in SUBSET Handles /\ S \union {e} # {}
      OBVIOUS
  <2>2. PICK h \in S \union {e} : next[h] \notin S \union {e}
      BY <2>1 DEF Acyclic
  <2>3. h # p
      BY <2>2
  <2>4. CASE h = e
      BY <1>0, <1>1, <2>2, <2>4
  <2>5. CASE h # e
      BY <1>0, <2>2, <2>3, <2>5
  <2> QED BY <2>4, <2>5
<1>2. CASE p \notin S
    BY <1>0, <1>2 DEF Acyclic
<1> QED BY <1>1, <1>2

\* entry->cb, unlinking and freeing of the entry e that the live link p points to.
LEMMA UnlinkKeeps ==
    ASSUME TypeOK, ListInv, NEW p \in Sources, NEW e \in Handles, Live(p), Link(p) = e,
           NotifyAndFree(p, e), UNCHANGED appVars
    PROVE  /\ LinksLive' /\ LinksOne' /\ Acyclic' /\ MineFresh' /\ LastLinked' /\ Told'
           /\ next[e] # NULL => next[e] \in Handles /\ mem'[next[e]] = "allocated"
           /\ publish_list' \in Handles \union {NULL}
           /\ next' \in [Handles -> Handles \union {NULL}]
           /\ mem' \in [Handles -> {"unused", "allocated", "freed"}]
           /\ told' \in [Handles -> Nat]
<1>1. mem[e] = "allocated" /\ \A a \in Apps : mine[a] # e
    BY Pointers DEF ListInv, LinksLive
<1>2. next[e] # e
  <2>1. {e} \in SUBSET Handles /\ {e} # {}
      OBVIOUS
  <2> QED BY <2>1 DEF ListInv, Acyclic
<1>3. p # e
    BY <1>2, Pointers DEF Link, Sources
<1>4. e \in Sources /\ Live(e) /\ Link(e) = next[e]
    BY <1>1, Pointers DEF Sources, Live, Link
<1>5. next[e] \in Handles \union {NULL}
    BY DEF TypeOK
<1>6. /\ publish_list' \in Handles \union {NULL}
      /\ next' \in [Handles -> Handles \union {NULL}]
      /\ mem' \in [Handles -> {"unused", "allocated", "freed"}]
      /\ told' \in [Handles -> Nat]
  <2>1. /\ publish_list \in Handles \union {NULL} /\ next \in [Handles -> Handles \union {NULL}]
        /\ mem \in [Handles -> {"unused", "allocated", "freed"}] /\ told \in [Handles -> Nat]
      BY DEF TypeOK
  <2>2. publish_list' \in Handles \union {NULL} /\ next' \in [Handles -> Handles \union {NULL}]
      BY <1>5, <2>1 DEF NotifyAndFree, Unlinked
  <2>3. mem' \in [Handles -> {"unused", "allocated", "freed"}] /\ told' \in [Handles -> Nat]
      BY <2>1 DEF NotifyAndFree
  <2> QED BY <2>2, <2>3
<1>7. \A q \in Sources : (Link(q))' = IF q = p THEN next[e] ELSE Link(q)
    BY <1>5, Pointers DEF NotifyAndFree, Unlinked, Link, Sources, TypeOK
<1>8. \A q \in Sources : (Live(q))' <=> Live(q) /\ q # e
    BY Pointers DEF NotifyAndFree, Live, Sources, TypeOK
<1>9. \A q \in Sources : Live(q) /\ Link(q) = e => q = p
    BY Pointers DEF ListInv, LinksOne
<1>10. \A q \in Sources : Link(q) \in Handles \union {NULL}
    BY DEF Link, Sources, TypeOK
<1>11. \A h \in Handles : h # e => mem'[h] = mem[h]
    BY DEF NotifyAndFree, TypeOK
<1>12. mine' = mine /\ appPc' = appPc /\ last' = last
    BY DEF appVars
<1>13. LinksLive'
  <2> SUFFICES ASSUME NEW q \in Sources, (Live(q))', (Link(q))' # NULL
               PROVE  mem'[(Link(q))'] = "allocated" /\ \A a \in Apps : mine'[a] # (Link(q))'
      BY DEF LinksLive
  <2>1. Live(q) /\ q # e
      BY <1>8
  <2>2. CASE q = p
      BY <1>2, <1>4, <1>5, <1>7, <1>11, <1>12, <2>2 DEF ListInv, LinksLive
  <2>3. CASE q # p
      BY <1>7, <1>9, <1>10, <1>11, <1>12, <2>1, <2>3 DEF ListInv, LinksLive
  <2> QED BY <2>2, <2>3
<1>14. LinksOne'
    BY <1>4, <1>7, <1>8 DEF ListInv, LinksOne
<1>15. Acyclic'
  <2>1. CASE p = HEAD
      BY <2>1 DEF NotifyAndFree, Unlinked, ListInv, Acyclic
  <2>2. CASE p # HEAD
    <3>1. p \in Handles /\ next[p] = e /\ next' = [next EXCEPT ![p] = next[e]]
        BY <2>2 DEF Sources, Link, NotifyAndFree, Unlinked
    <3> QED BY <3>1, UnlinkAcyclic DEF ListInv
  <2> QED BY <2>1, <2>2
<1>16. \A h \in Handles : next[h] = NULL => next'[h] = NULL
    BY Pointers, <1>3 DEF NotifyAndFree, Unlinked, TypeOK, Link, Sources
<1>17. MineFresh'
    BY <1>1, <1>11, <1>12, <1>16 DEF ListInv, MineFresh, TypeOK
<1>18. LastLinked'
    BY <1>12 DEF ListInv, LastLinked, NotifyAndFree, TypeOK
<1>19. Told'
    BY <1>1, <1>16 DEF ListInv, Told, NotifyAndFree, TypeOK
<1>20. next[e] # NULL => next[e] \in Handles /\ mem'[next[e]] = "allocated"
    BY <1>2, <1>4, <1>5, <1>11 DEF ListInv, LinksLive
<1> QED BY <1>6, <1>13, <1>14, <1>15, <1>17, <1>18, <1>19, <1>20

------------------------------------------------------------------------------
\* A step that touches neither links nor memory, nor what the threads hold of them.
LEMMA LinksUnchanged ==
    ASSUME ListInv, UNCHANGED <<listVars, told, appVars>>
    PROVE  LinksLive' /\ LinksOne' /\ Acyclic' /\ MineFresh' /\ LastLinked' /\ Told'
<1>1. /\ publish_list' = publish_list /\ next' = next /\ mem' = mem /\ told' = told
      /\ appPc' = appPc /\ mine' = mine /\ last' = last
    BY DEF listVars, appVars
<1>2. LinksLive' /\ LinksOne'
    BY <1>1 DEF ListInv, LinksLive, LinksOne, Live, Link
<1>3. Acyclic'
    BY <1>1 DEF ListInv, Acyclic
<1>4. MineFresh' /\ LastLinked' /\ Told'
    BY <1>1 DEF ListInv, MineFresh, LastLinked, Told
<1> QED BY <1>2, <1>3, <1>4

\* The walk of the main thread, and the PUBACKs.
LEMMA LoopKeeps ==
    ASSUME MqttInv, Loop \/ \E h \in Handles : Puback(h)
    PROVE  ListInv'
<1> USE DEF MqttInv
<1>1. CASE LoopReconnects \/ LoopBegins \/ WalkEnds \/ YieldEnds
  <2>1. UNCHANGED <<listVars, told, appVars>>
      BY <1>1 DEF LoopReconnects, LoopBegins, WalkEnds, YieldEnds, pubVars
  <2>2. WalkLive'
      BY <1>1 DEF LoopReconnects, LoopBegins, WalkEnds, YieldEnds, WalkLive, Live
  <2> QED BY <2>1, <2>2, LinksUnchanged DEF ListInv
<1>2. CASE WalkPublishes \/ WalkPasses
  <2>1. UNCHANGED <<listVars, told, appVars>>
      BY <1>2 DEF WalkPublishes, WalkPasses, pubVars
  <2>2. pc = "walk" /\ cur' = Link(cur) /\ Link(cur) # NULL
      BY <1>2 DEF WalkPublishes, WalkPasses
  <2>3. mem[cur'] = "allocated"
      BY <2>2 DEF ListInv, WalkLive, LinksLive, Sources, TypeOK
  <2>4. WalkLive'
      BY <2>1, <2>3 DEF WalkLive, Live, listVars
  <2> QED BY <2>1, <2>4, LinksUnchanged DEF ListInv
<1>3. CASE WalkExpires
  <2> DEFINE e == Link(cur)
  <2>1. pc = "walk" /\ e # NULL /\ NotifyAndFree(cur, e) /\ UNCHANGED appVars
      BY <1>3 DEF WalkExpires
  <2>2. cur \in Sources /\ Live(cur) /\ e \in Handles
      BY <2>1 DEF ListInv, WalkLive, TypeOK, Sources, Link
  <2> HIDE DEF e
  <2>3. /\ LinksLive' /\ LinksOne' /\ Acyclic' /\ MineFresh' /\ LastLinked' /\ Told'
        /\ next[e] # NULL => next[e] \in Handles /\ mem'[next[e]] = "allocated"
    <3>1. Link(cur) = e
        BY DEF e
    <3> QED BY <2>1, <2>2, <3>1, UnlinkKeeps
  <2>4. IF next[e] = NULL THEN pc' = "fault" ELSE cur' = next[e]
      BY <1>3 DEF WalkExpires, e
  <2>5. WalkLive'
      BY <2>3, <2>4 DEF WalkLive, Live
  <2> QED BY <2>3, <2>5 DEF ListInv
<1>4. ASSUME NEW h \in Handles, Puback(h) PROVE ListInv'
  <2>1. pc = "yield" /\ pc' = "yield" /\ UNCHANGED appVars
      BY <1>4 DEF Puback, mainVars
  <2>2. WalkLive'
      BY <2>1 DEF WalkLive
  <2>3. CASE Listed(h)
    <3> DEFINE p == IF publish_list = h THEN HEAD ELSE CHOOSE q \in Entries : next[q] = h
    <3>1. NotifyAndFree(p, h)
        BY <1>4, <2>3 DEF Puback, PubackFound
    <3>2. p \in Sources /\ Live(p) /\ Link(p) = h
      <4>1. CASE publish_list = h
          BY <4>1 DEF Sources, Live, Link
      <4>2. CASE publish_list # h
        <5>1. p \in Entries /\ next[p] = h
            BY <2>3, <4>2, HasPred DEF Listed
        <5>2. p \in Handles /\ mem[p] = "allocated"
            BY <5>1, Reached, EntriesLive DEF ListInv
        <5> QED BY <5>1, <5>2, Pointers DEF Sources, Live, Link
      <4> QED BY <4>1, <4>2
    <3> HIDE DEF p
    <3> QED BY <2>1, <2>2, <3>1, <3>2, UnlinkKeeps DEF ListInv
  <2>4. CASE ~Listed(h)
    <3>1. UNCHANGED <<listVars, told, appVars>>
        BY <1>4, <2>4 DEF Puback
    <3> QED BY <2>2, <3>1, LinksUnchanged DEF ListInv
  <2> QED BY <2>3, <2>4
<1> QED BY <1>1, <1>2, <1>3, <1>4 DEF Loop

\* The other steps of the main thread, and the clock.
LEMMA ClientKeeps ==
    ASSUME MqttInv,
           \/ tuya_mqtt_init \/ tuya_mqtt_start \/ StartFails \/ YieldDisconnects
           \/ tuya_mqtt_stop \/ tuya_mqtt_destory \/ Tick
    PROVE  ListInv'
<1> USE DEF MqttInv
<1>1. CASE tuya_mqtt_init
  <2>1. /\ publish_list' = NULL /\ pc' = "idle" /\ next' = next /\ mem' = mem /\ told' = told
        /\ appPc' = appPc /\ mine' = mine /\ last' = last
      BY <1>1 DEF tuya_mqtt_init, pubVars, appVars
  <2>2. \A p \in Sources : (Live(p))' <=> Live(p)
      BY <2>1 DEF Live
  <2>3. \A p \in Sources : (Link(p))' \in {Link(p), NULL}
      BY <2>1 DEF Link
  <2>4. LinksLive' /\ LinksOne'
      BY <2>1, <2>2, <2>3 DEF ListInv, LinksLive, LinksOne
  <2>5. Acyclic'
      BY <2>1 DEF ListInv, Acyclic
  <2>6. MineFresh' /\ LastLinked' /\ Told' /\ WalkLive'
      BY <2>1 DEF ListInv, MineFresh, LastLinked, Told, WalkLive
  <2> QED BY <2>4, <2>5, <2>6 DEF ListInv
<1>2. CASE \/ tuya_mqtt_start \/ StartFails \/ YieldDisconnects
           \/ tuya_mqtt_stop \/ tuya_mqtt_destory \/ Tick
  <2>1. UNCHANGED <<listVars, told, appVars>>
      BY <1>2 DEF tuya_mqtt_start, StartFails, YieldDisconnects, tuya_mqtt_stop,
                  tuya_mqtt_destory, Tick, pubVars
  <2>2. (pc' = pc /\ cur' = cur) \/ pc' = "idle"
      BY <1>2 DEF tuya_mqtt_start, StartFails, YieldDisconnects, tuya_mqtt_stop,
                  tuya_mqtt_destory, Tick, mainVars
  <2>3. WalkLive'
      BY <2>1, <2>2 DEF ListInv, WalkLive, Live, listVars
  <2> QED BY <2>1, <2>3, LinksUnchanged DEF ListInv
<1> QED BY <1>1, <1>2

\* A publish allocates a handle that nobody knows.
LEMMA PublishKeeps ==
    ASSUME MqttInv, NEW a \in Apps, NEW h \in Handles, NEW async \in BOOLEAN,
           Publish(a, h, async)
    PROVE  ListInv'
<1> USE DEF MqttInv
<1>1. /\ appPc[a] = "idle" /\ mem[h] = "unused" /\ publish_list' = publish_list /\ next' = next
      /\ told' = told /\ last' = last /\ pc' = pc /\ cur' = cur
      /\ mem' = [mem EXCEPT ![h] = "allocated"] /\ mine' = [mine EXCEPT ![a] = h]
      /\ appPc' = [appPc EXCEPT ![a] = IF async THEN "append" ELSE "send"]
    BY DEF Publish, At, mainVars
<1>2. /\ mem \in [Handles -> {"unused", "allocated", "freed"}]
      /\ mine \in [Apps -> Handles \union {NULL}]
      /\ appPc \in [Apps -> {"idle", "send", "append", "link"}]
      /\ last \in [Apps -> Handles \union {NULL}]
      /\ publish_list \in Handles \union {NULL}
      /\ next \in [Handles -> Handles \union {NULL}]
      /\ cur \in Sources
    BY DEF TypeOK, Sources
<1>3. \A p \in Sources : (Live(p))' <=> Live(p) \/ p = h
    BY <1>1, <1>2, Pointers DEF Live, Sources
<1>4. \A p \in Sources : (Link(p))' = Link(p) /\ Link(p) \in Handles \union {NULL}
    BY <1>1, <1>2 DEF Link, Sources
<1>5. Link(h) = NULL
    BY <1>1, Pointers DEF ListInv, Told, Link
<1>6. \A p \in Sources : Live(p) => Link(p) # h
    BY <1>1, Pointers DEF ListInv, LinksLive
<1>7. LinksLive'
    BY <1>1, <1>2, <1>3, <1>4, <1>5, <1>6 DEF ListInv, LinksLive
<1>8. LinksOne'
    BY <1>3, <1>4, <1>5 DEF ListInv, LinksOne
<1>9. Acyclic'
    BY <1>1 DEF ListInv, Acyclic
<1>10. MineFresh'
    BY <1>1, <1>2, Pointers DEF ListInv, MineFresh, Told
<1>11. LastLinked'
    BY <1>1, <1>2, Pointers DEF ListInv, LastLinked
<1>12. Told'
    BY <1>1, <1>2 DEF ListInv, Told
<1>13. WalkLive'
    BY <1>1, <1>2, <1>3 DEF ListInv, WalkLive
<1> QED BY <1>7, <1>8, <1>9, <1>10, <1>11, <1>12, <1>13 DEF ListInv

\* A thread links its entry, once, at the end that it read.
LEMMA AppendKeeps ==
    ASSUME MqttInv, NEW a \in Apps, AppendLinks(a)
    PROVE  ListInv'
<1> USE DEF MqttInv
<1> DEFINE h == mine[a]
           l == IF last[a] = NULL THEN HEAD ELSE last[a]
<1>1. /\ appPc[a] = "link" /\ mem' = mem /\ told' = told /\ pc' = pc /\ cur' = cur
      /\ mine' = [mine EXCEPT ![a] = NULL] /\ last' = [last EXCEPT ![a] = NULL]
      /\ appPc' = [appPc EXCEPT ![a] = "idle"]
    BY DEF AppendLinks, At, mainVars, pubVars
<1>2. /\ mem \in [Handles -> {"unused", "allocated", "freed"}]
      /\ mine \in [Apps -> Handles \union {NULL}]
      /\ appPc \in [Apps -> {"idle", "send", "append", "link"}]
      /\ last \in [Apps -> Handles \union {NULL}]
      /\ publish_list \in Handles \union {NULL}
      /\ next \in [Handles -> Handles \union {NULL}]
    BY DEF TypeOK
<1>3. h # NULL /\ h \in Handles /\ mem[h] = "allocated" /\ next[h] = NULL
    BY <1>1, <1>2 DEF ListInv, MineFresh
<1>4. \A b \in Apps : b # a => mine[b] # h
    BY <1>3 DEF ListInv, MineFresh
<1>5. l \in Sources /\ l # h
    BY <1>1, <1>2, <1>3, Pointers DEF ListInv, LastLinked, Sources
<1>6. \A p \in Sources : (Link(p))' = IF p = l THEN h ELSE Link(p)
    BY <1>2, <1>5, Pointers DEF AppendLinks, Link, Sources
<1>7. \A p \in Sources : (Live(p))' <=> Live(p)
    BY <1>1 DEF Live
<1>8. \A p \in Sources : Live(p) => Link(p) # h
    BY <1>3 DEF ListInv, LinksLive
<1>9. /\ publish_list' = IF l = HEAD THEN h ELSE publish_list
      /\ next' = IF l = HEAD THEN next ELSE [next EXCEPT ![l] = h]
    BY <1>2, Pointers DEF AppendLinks
<1> HIDE DEF l
<1>10. \A b \in Apps : mine'[b] = IF b = a THEN NULL ELSE mine[b]
    BY <1>1, <1>2
<1> HIDE DEF h
<1>11. LinksLive'
  <2> SUFFICES ASSUME NEW p \in Sources, (Live(p))', (Link(p))' # NULL
               PROVE  mem'[(Link(p))'] = "allocated" /\ \A b \in Apps : mine'[b] # (Link(p))'
      BY DEF LinksLive
  <2>1. CASE p = l
      BY <1>1, <1>3, <1>4, <1>6, <1>10, <2>1
  <2>2. CASE p # l
      BY <1>1, <1>6, <1>7, <1>10, <2>2 DEF ListInv, LinksLive
  <2> QED BY <2>1, <2>2
<1>12. LinksOne'
    BY <1>6, <1>7, <1>8 DEF ListInv, LinksOne
<1>13. Acyclic'
  <2> SUFFICES ASSUME NEW S \in SUBSET Handles, S # {} PROVE \E g \in S : next'[g] \notin S
      BY DEF Acyclic
  <2>1. CASE l = HEAD
      BY <1>9, <2>1 DEF ListInv, Acyclic
  <2>2. CASE l # HEAD /\ h \in S
    <3>1. next'[h] = NULL
        BY <1>2, <1>3, <1>5, <1>9, <2>2
    <3> QED BY <2>2, <3>1, Pointers
  <2>3. CASE l # HEAD /\ h \notin S
    <3>1. PICK g \in S : next[g] \notin S
        BY DEF ListInv, Acyclic
    <3> QED BY <1>2, <1>9, <2>3, <3>1
  <2> QED BY <2>1, <2>2, <2>3
<1>14. \A b \in Apps : b # a /\ mine[b] # NULL => next'[mine[b]] = next[mine[b]]
  <2> SUFFICES ASSUME NEW b \in Apps, b # a, mine[b] # NULL, l # HEAD
               PROVE  l # mine[b]
      BY <1>2, <1>9
  <2> QED BY <1>1 DEF l, ListInv, LastLinked
<1>15. MineFresh'
    BY <1>1, <1>2, <1>10, <1>14, Pointers DEF ListInv, MineFresh
<1>16. LastLinked'
    BY <1>1, <1>2, <1>10, Pointers DEF ListInv, LastLinked
<1>17. Told'
  <2>1. l # HEAD => mem[l] # "unused"
      BY <1>1 DEF l, ListInv, LastLinked
  <2> QED BY <1>1, <1>2, <1>9, <2>1 DEF ListInv, Told
<1>18. WalkLive'
    BY <1>1 DEF ListInv, WalkLive, Live
<1> QED BY <1>11, <1>12, <1>13, <1>15, <1>16, <1>17, <1>18 DEF ListInv

\* The steps in between: sending, and reading the end of the list.
LEMMA AppKeeps ==
    ASSUME MqttInv, NEW a \in Apps, App(a)
    PROVE  ListInv'
<1> USE DEF MqttInv
<1>1. ASSUME NEW h \in Handles, NEW async \in BOOLEAN, Publish(a, h, async) PROVE ListInv'
    BY <1>1, PublishKeeps
<1>2. CASE AppendLinks(a)
    BY <1>2, AppendKeeps
<1>3. CASE PublishFaults(a)
  <2>1. UNCHANGED <<listVars, told, appVars>> /\ pc' = "fault"
      BY <1>3 DEF PublishFaults, pubVars
  <2>2. WalkLive'
      BY <2>1 DEF WalkLive
  <2> QED BY <2>1, <2>2, LinksUnchanged DEF ListInv
<1>4. CASE PublishSends(a) \/ AppendReads(a)
  <2>1. /\ publish_list' = publish_list /\ next' = next /\ mem' = mem /\ told' = told
        /\ mine' = mine /\ pc' = pc /\ cur' = cur
      BY <1>4 DEF PublishSends, AppendReads, listVars, pubVars, mainVars
  <2>2. \/ appPc[a] = "send" /\ appPc' = [appPc EXCEPT ![a] = "append"] /\ last' = last
        \/ /\ appPc[a] = "append" /\ appPc' = [appPc EXCEPT ![a] = "link"]
           /\ last' = [last EXCEPT ![a] = LastEntry]
      BY <1>4 DEF PublishSends, AppendReads, At
  <2>3. /\ appPc \in [Apps -> {"idle", "send", "append", "link"}]
        /\ last \in [Apps -> Handles \union {NULL}]
      BY DEF TypeOK
  <2>4. LinksLive' /\ LinksOne' /\ WalkLive'
      BY <2>1 DEF ListInv, LinksLive, LinksOne, WalkLive, Live, Link
  <2>5. Acyclic' /\ Told'
      BY <2>1 DEF ListInv, Acyclic, Told
  <2>6. MineFresh'
      BY <2>1, <2>2, <2>3 DEF ListInv, MineFresh
  <2>7. LastEntry # NULL => mem[LastEntry] # "unused" /\ \A b \in Apps : mine[b] # LastEntry
    <3>1. CASE publish_list = NULL
        BY <3>1 DEF LastEntry
    <3>2. CASE publish_list # NULL
      <4>1. LastEntry \in Entries
          BY <3>2, HasLast DEF ListInv
      <4> QED BY <4>1, EntriesLive DEF ListInv
    <3> QED BY <3>1, <3>2
  <2>8. LastLinked'
      BY <2>1, <2>2, <2>3, <2>7 DEF ListInv, LastLinked
  <2> QED BY <2>4, <2>5, <2>6, <2>8 DEF ListInv
<1> QED BY <1>1, <1>2, <1>3, <1>4 DEF App

------------------------------------------------------------------------------
\* One handler for each topic and each protocol.
One(list, S) == list \in [S -> Nat] /\ \A x \in S : list[x] <= 1

LEMMA RegisterOne ==
    ASSUME NEW S, NEW list, NEW x \in S, One(list, S)
    PROVE  /\ One(Registered(list, x), S) /\ Registered(list, x)[x] = 1
           /\ \A y \in S : list[y] = 1 => Registered(list, x)[y] = 1
           /\ One(Unregistered(list, x), S)
BY DEF One, Registered, Unregistered

LEMMA ConnectedOne ==
    ASSUME One(subscribe_list, Topics), NEW sent \in SUBSET Topics
    PROVE  One(Connected(sent), Topics)
<1> DEFINE in == IF "in" \in sent THEN Registered(subscribe_list, "in") ELSE subscribe_list
           rsp == IF "rpc/rsp" \in sent THEN Registered(in, "rpc/rsp") ELSE in
<1>1. "in" \in Topics /\ "rpc/rsp" \in Topics /\ "rpc/file" \in Topics
    BY DEF Topics
<1>2. One(in, Topics)
    BY <1>1, RegisterOne
<1> HIDE DEF in
<1>3. One(rsp, Topics)
    BY <1>1, <1>2, RegisterOne
<1> HIDE DEF rsp
<1>4. One(IF {"rpc/rsp", "rpc/file"} \subseteq sent THEN Registered(rsp, "rpc/file") ELSE rsp, Topics)
    BY <1>1, <1>3, RegisterOne
<1> QED BY <1>4 DEF Connected, in, rsp

LEMMA DisconnectedOne ==
    ASSUME NEW list, One(list, Topics)
    PROVE  One(Disconnected(list), Topics)
<1>1. "rpc/rsp" \in Topics /\ "rpc/file" \in Topics
    BY DEF Topics
<1>2. One(Unregistered(list, "rpc/rsp"), Topics)
    BY <1>1, RegisterOne
<1> QED BY <1>1, <1>2, RegisterOne DEF Disconnected

Registrations == One(subscribe_list, Topics) /\ One(protocol_list, Protocols)

LEMMA ProtocolsOne ==
    ASSUME One(protocol_list, Protocols), tuya_mqtt_start
    PROVE  One(protocol_list, Protocols)' /\ \A p \in Protocols : protocol_list'[p] = 1
<1> DEFINE cmd == Registered(protocol_list, "CMD")
           rst == Registered(cmd, "GW_RESET")
           upg == Registered(rst, "UPGD_REQ")
<1>1. "CMD" \in Protocols /\ "GW_RESET" \in Protocols /\ "UPGD_REQ" \in Protocols /\ "DPCACHE" \in Protocols
    BY DEF Protocols
<1>2. One(cmd, Protocols) /\ cmd["CMD"] = 1
    BY <1>1, RegisterOne
<1>3. protocol_list' = Registered(upg, "DPCACHE")
    BY DEF tuya_mqtt_start
<1> HIDE DEF cmd
<1>4. One(rst, Protocols) /\ rst["CMD"] = 1 /\ rst["GW_RESET"] = 1
    BY <1>1, <1>2, RegisterOne
<1> HIDE DEF rst
<1>5. One(upg, Protocols) /\ upg["CMD"] = 1 /\ upg["GW_RESET"] = 1 /\ upg["UPGD_REQ"] = 1
    BY <1>1, <1>4, RegisterOne
<1> HIDE DEF upg
<1>6. /\ One(protocol_list', Protocols) /\ protocol_list'["CMD"] = 1
      /\ protocol_list'["GW_RESET"] = 1 /\ protocol_list'["UPGD_REQ"] = 1
      /\ protocol_list'["DPCACHE"] = 1
    BY <1>1, <1>3, <1>5, RegisterOne
<1> QED BY <1>6 DEF One, Protocols

LEMMA HandledKept ==
    ASSUME MqttInv, [Next]_vars
    PROVE  Registrations' /\ HandledOnce'
<1>1. Registrations
    BY DEF MqttInv, HandledOnce, TypeOK, Registrations, One
<1>2. One(NoTopics, Topics) /\ One(NoProtocols, Protocols)
    BY DEF One, NoTopics, NoProtocols
<1>3. CASE tuya_mqtt_init
    BY <1>2, <1>3 DEF tuya_mqtt_init, HandledOnce, Registrations, One
<1>4. CASE tuya_mqtt_start
  <2>1. One(subscribe_list', Topics)
      BY <1>1, <1>4, ConnectedOne DEF tuya_mqtt_start, Registrations
  <2> QED BY <1>1, <1>4, <2>1, ProtocolsOne DEF HandledOnce, Registrations, One
<1>5. CASE LoopReconnects
  <2>1. One(subscribe_list', Topics)
      BY <1>1, <1>5, ConnectedOne DEF LoopReconnects, Registrations
  <2>2. protocol_list' = protocol_list /\ phase' = phase
      BY <1>5 DEF LoopReconnects
  <2> QED BY <1>1, <2>1, <2>2 DEF MqttInv, HandledOnce, Registrations, One
<1>6. CASE YieldDisconnects \/ tuya_mqtt_stop
  <2>1. One(subscribe_list', Topics)
    <3>1. "in" \in Topics
        BY DEF Topics
    <3>2. One(Unregistered(subscribe_list, "in"), Topics)
        BY <1>1, <3>1, RegisterOne DEF Registrations
    <3> QED BY <1>1, <1>6, <3>2, DisconnectedOne
               DEF YieldDisconnects, tuya_mqtt_stop, StoppedList, Registrations
  <2>2. protocol_list' = protocol_list /\ (phase' = "loop" => phase = "loop")
      BY <1>6 DEF YieldDisconnects, tuya_mqtt_stop
  <2> QED BY <1>1, <2>1, <2>2 DEF MqttInv, HandledOnce, Registrations, One
<1>7. CASE tuya_mqtt_destory
    BY <1>1, <1>2, <1>7 DEF tuya_mqtt_destory, HandledOnce, Registrations, One
<1>8. ASSUME UNCHANGED <<phase, subscribe_list, protocol_list>>
      PROVE  Registrations' /\ HandledOnce'
    BY <1>1, <1>8 DEF MqttInv, HandledOnce, Registrations, One
<1>9. CASE LoopBegins \/ WalkPublishes \/ WalkPasses \/ WalkExpires \/ WalkEnds \/ YieldEnds
    BY <1>8, <1>9 DEF LoopBegins, WalkPublishes, WalkPasses, WalkExpires, WalkEnds, YieldEnds,
                      dispVars
<1>10. CASE StartFails \/ (\E h \in Handles : Puback(h)) \/ Tick \/ UNCHANGED vars
    BY <1>8, <1>10 DEF StartFails, Puback, Tick, vars, mainVars, dispVars
<1>11. ASSUME NEW a \in Apps, App(a) PROVE Registrations' /\ HandledOnce'
    BY <1>8, <1>11 DEF App, Publish, PublishSends, PublishFaults, AppendReads, AppendLinks,
                       mainVars, dispVars
<1> QED BY <1>3, <1>4, <1>5, <1>6, <1>7, <1>9, <1>10, <1>11 DEF Next, Loop, Client

------------------------------------------------------------------------------
\* TypeOK in three parts.
MainTypes ==
    /\ phase \in {"startup", "connect", "loop", "destroy"} /\ mq \in Flags
    /\ pc \in {"idle", "walk", "yield", "fault"} /\ cur \in Handles \union {HEAD}
    /\ acks \in SUBSET Handles /\ now \in 0..MaxTime
    /\ msgid \in [Handles -> BOOLEAN] /\ timeout \in [Handles -> 0..MaxTime]
ListTypes ==
    /\ publish_list \in Handles \union {NULL}
    /\ next \in [Handles -> Handles \union {NULL}]
    /\ mem \in [Handles -> {"unused", "allocated", "freed"}]
    /\ told \in [Handles -> Nat]
    /\ appPc \in [Apps -> {"idle", "send", "append", "link"}]
    /\ mine \in [Apps -> Handles \union {NULL}] /\ last \in [Apps -> Handles \union {NULL}]

LEMMA MainTypesKept ==
    ASSUME MqttInv, [Next]_vars
    PROVE  MainTypes'
<1>1. MainTypes
    BY DEF MqttInv, TypeOK, MainTypes
<1>2. /\ Zero \in Flags /\ [Zero EXCEPT !.client = TRUE] \in Flags
      /\ [Zero EXCEPT !.inited = TRUE, !.client = TRUE, !.manual = TRUE] \in Flags
    BY DEF Zero, Flags
<1>3. CASE tuya_mqtt_init
  <2>1. mq' \in Flags
      BY <1>2, <1>3 DEF tuya_mqtt_init
  <2> QED BY <1>1, <1>3, <2>1 DEF tuya_mqtt_init, MainTypes, pubVars
<1>4. CASE tuya_mqtt_start \/ StartFails \/ tuya_mqtt_stop \/ tuya_mqtt_destory
    BY <1>1, <1>4 DEF tuya_mqtt_start, StartFails, tuya_mqtt_stop, tuya_mqtt_destory,
                      MainTypes, pubVars, Flags
<1>5. CASE LoopReconnects \/ LoopBegins \/ WalkEnds \/ YieldEnds \/ YieldDisconnects
    BY <1>1, <1>5 DEF LoopReconnects, LoopBegins, WalkEnds, YieldEnds, YieldDisconnects,
                      MainTypes, pubVars, Flags
<1>6. cur # NULL /\ Link(cur) \in Handles \union {NULL}
    BY Pointers DEF MqttInv, TypeOK, Link
<1>7. CASE WalkPublishes \/ WalkPasses
    BY <1>1, <1>6, <1>7 DEF WalkPublishes, WalkPasses, MainTypes, pubVars
<1>8. CASE WalkExpires
  <2>1. Link(cur) \in Handles /\ next[Link(cur)] \in Handles \union {NULL}
      BY <1>6, <1>8 DEF WalkExpires, MqttInv, TypeOK
  <2> QED BY <1>1, <1>8, <2>1 DEF WalkExpires, MainTypes
<1>9. CASE \E h \in Handles : Puback(h)
    BY <1>1, <1>9 DEF Puback, MainTypes, mainVars
<1>10. CASE Tick
    BY <1>1, <1>10, MqttServiceAssumption DEF Tick, MainTypes, mainVars, pubVars
<1>11. ASSUME NEW a \in Apps, App(a) PROVE MainTypes'
  <2>1. CASE \E h \in Handles, async \in BOOLEAN : Publish(a, h, async)
      BY <1>1, <2>1, MqttServiceAssumption DEF Publish, MainTypes, mainVars
  <2>2. CASE PublishSends(a)
    <3>1. mine[a] \in Handles
        BY <2>2 DEF PublishSends, At, MqttInv, ListInv, MineFresh, TypeOK
    <3> QED BY <1>1, <2>2, <3>1 DEF PublishSends, MainTypes, mainVars
  <2>3. CASE PublishFaults(a) \/ AppendReads(a) \/ AppendLinks(a)
      BY <1>1, <2>3 DEF PublishFaults, AppendReads, AppendLinks, MainTypes, mainVars, pubVars
  <2> QED BY <1>11, <2>1, <2>2, <2>3 DEF App
<1>12. CASE UNCHANGED vars
    BY <1>1, <1>12 DEF vars, MainTypes, mainVars, pubVars
<1> QED BY <1>3, <1>4, <1>5, <1>7, <1>8, <1>9, <1>10, <1>11, <1>12 DEF Next, Loop, Client

LEMMA ListTypesKept ==
    ASSUME MqttInv, [Next]_vars
    PROVE  ListTypes'
<1>1. ListTypes
    BY DEF MqttInv, TypeOK, ListTypes
<1>2. ASSUME UNCHANGED <<listVars, told, appVars>> PROVE ListTypes'
    BY <1>1, <1>2 DEF ListTypes, listVars, appVars
<1>3. CASE \/ tuya_mqtt_start \/ StartFails \/ tuya_mqtt_stop \/ tuya_mqtt_destory
           \/ YieldDisconnects \/ Tick \/ UNCHANGED vars
    BY <1>2, <1>3 DEF tuya_mqtt_start, StartFails, tuya_mqtt_stop, tuya_mqtt_destory,
                      YieldDisconnects, Tick, vars, pubVars
<1>4. CASE LoopReconnects \/ LoopBegins \/ WalkEnds \/ YieldEnds \/ WalkPublishes \/ WalkPasses
    BY <1>2, <1>4 DEF LoopReconnects, LoopBegins, WalkEnds, YieldEnds, WalkPublishes,
                      WalkPasses, pubVars
<1>5. CASE tuya_mqtt_init
    BY <1>1, <1>5 DEF tuya_mqtt_init, ListTypes, pubVars, appVars
<1>6. ASSUME NEW p \in Sources, NEW e \in Handles, NotifyAndFree(p, e), UNCHANGED appVars
      PROVE  ListTypes'
  <2>1. publish_list' \in Handles \union {NULL} /\ next' \in [Handles -> Handles \union {NULL}]
      BY <1>1, <1>6 DEF NotifyAndFree, Unlinked, ListTypes
  <2>2. mem' \in [Handles -> {"unused", "allocated", "freed"}] /\ told' \in [Handles -> Nat]
      BY <1>1, <1>6 DEF NotifyAndFree, ListTypes
  <2> QED BY <1>1, <1>6, <2>1, <2>2 DEF ListTypes, appVars
<1>7. CASE WalkExpires
  <2>1. cur \in Sources /\ Link(cur) \in Handles
      BY <1>7 DEF WalkExpires, MqttInv, TypeOK, Link, Sources
  <2> QED BY <1>6, <1>7, <2>1 DEF WalkExpires
<1>8. ASSUME NEW h \in Handles, Puback(h) PROVE ListTypes'
  <2>1. CASE Listed(h)
    <3> DEFINE p == IF publish_list = h THEN HEAD ELSE CHOOSE q \in Entries : next[q] = h
    <3>1. NotifyAndFree(p, h) /\ UNCHANGED appVars
        BY <1>8, <2>1 DEF Puback, PubackFound
    <3>2. p \in Sources
        BY <2>1, HasPred, Reached DEF Listed, Sources, MqttInv
    <3> QED BY <1>6, <3>1, <3>2
  <2>2. CASE ~Listed(h)
      BY <1>2, <1>8, <2>2 DEF Puback
  <2> QED BY <2>1, <2>2
<1>9. ASSUME NEW a \in Apps, App(a) PROVE ListTypes'
  <2>1. CASE \E h \in Handles, async \in BOOLEAN : Publish(a, h, async)
      BY <1>1, <2>1 DEF Publish, ListTypes
  <2>2. CASE PublishSends(a) \/ PublishFaults(a)
      BY <1>1, <2>2 DEF PublishSends, PublishFaults, ListTypes, listVars, pubVars, appVars
  <2>3. CASE AppendReads(a)
    <3>1. LastEntry \in Handles \union {NULL}
      <4>1. CASE publish_list = NULL
          BY <4>1 DEF LastEntry
      <4>2. CASE publish_list # NULL
          BY <4>2, HasLast, Reached DEF MqttInv, ListInv
      <4> QED BY <4>1, <4>2
    <3> QED BY <1>1, <2>3, <3>1 DEF AppendReads, ListTypes, listVars, pubVars
  <2>4. CASE AppendLinks(a)
      BY <1>1, <2>4 DEF AppendLinks, ListTypes, pubVars
  <2> QED BY <1>9, <2>1, <2>2, <2>3, <2>4 DEF App
<1> QED BY <1>3, <1>4, <1>5, <1>7, <1>8, <1>9 DEF Next, Loop, Client

------------------------------------------------------------------------------
\* The invariant holds initially.
LEMMA MqttInit == Init => MqttInv
<1> SUFFICES ASSUME Init PROVE MqttInv
    OBVIOUS
<1>1. TypeOK
    BY MqttServiceAssumption DEF Init, TypeOK, Flags, Zero, NoTopics, NoProtocols
<1>2. LinksLive /\ LinksOne /\ MineFresh /\ LastLinked /\ Told /\ WalkLive
    BY DEF Init, LinksLive, LinksOne, MineFresh, LastLinked, Told, WalkLive, Link, Sources
<1>3. Acyclic
    BY Pointers DEF Init, Acyclic
<1>4. HandledOnce
    BY DEF Init, HandledOnce, NoTopics, NoProtocols
<1> QED BY <1>1, <1>2, <1>3, <1>4 DEF MqttInv, ListInv

\* Every step keeps it.
LEMMA MqttStep == MqttInv /\ [Next]_vars => MqttInv'
<1> SUFFICES ASSUME MqttInv, [Next]_vars PROVE MqttInv'
    OBVIOUS
<1>1. TypeOK'
    BY MainTypesKept, ListTypesKept, HandledKept
       DEF TypeOK, MainTypes, ListTypes, Registrations, One
<1>2. ListInv'
  <2>1. CASE UNCHANGED vars
    <3>1. UNCHANGED <<listVars, told, appVars, pc, cur>>
        BY <2>1 DEF vars, pubVars, mainVars
    <3>2. WalkLive'
        BY <3>1 DEF MqttInv, ListInv, WalkLive, Live, listVars
    <3> QED BY <3>1, <3>2, LinksUnchanged DEF MqttInv, ListInv
  <2> QED BY <2>1, LoopKeeps, ClientKeeps, AppKeeps DEF Next, Client
<1> QED BY <1>1, <1>2, HandledKept DEF MqttInv

\* The inductive invariant, for any threads, handles, timeout and clock: the links of
\* publish_list make no cycle, each entry hangs on one link, and none leads to freed
\* memory, however appends race with the loop of the service.
THEOREM MqttInvariant == Spec => []MqttInv
<1> QED BY MqttInit, MqttStep, PTL DEF Spec

\* The variables of the service keep their types.
THEOREM MqttTypes == Spec => []TypeOK
<1>1. MqttInv => TypeOK
    BY DEF MqttInv
<1> QED BY <1>1, MqttInvariant, PTL

\* Every entry of publish_list is allocated memory whose callback is still to be called,
\* and the walk of tuya_mqtt_loop never holds a link inside a freed entry.
THEOREM MqttListIsLive == Spec => []ListIsLive
<1>1. MqttInv => ListIsLive
  <2> SUFFICES ASSUME MqttInv PROVE ListIsLive
      OBVIOUS
  <2>1. \A h \in Entries : mem[h] = "allocated" /\ told[h] = 0
      BY EntriesLive, Reached DEF MqttInv, ListInv, Told
  <2> QED BY <2>1 DEF MqttInv, ListInv, WalkLive, Live, ListIsLive
<1> QED BY <1>1, MqttInvariant, PTL

\* The callback of a publish is called at most once: after an expiry no PUBACK finds it.
THEOREM MqttToldOnce == Spec => []ToldOnce
<1>1. MqttInv => ToldOnce
    BY DEF MqttInv, ListInv, Told, ToldOnce
<1> QED BY <1>1, MqttInvariant, PTL

\* After any number of connections each topic and protocol has one handler at most, and
\* in the loop each protocol has one.
THEOREM MqttHandledOnce == Spec => []HandledOnce
<1>1. MqttInv => HandledOnce
    BY DEF MqttInv
<1> QED BY <1>1, MqttInvariant, PTL
==============================================================================
