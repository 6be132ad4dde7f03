-------------------------------- MODULE Matop --------------------------------
(***************************************************************************)
(* MATOP, requests to the cloud over MQTT:                                 *)
(* src/src/tuya_cloud_service/cloud/matop_service.c, driven by the         *)
(* callbacks and the loop of tuya_iot.c.                                   *)
(*                                                                         *)
(* Requests come from the main thread (a protocol handler, or the callback *)
(* of an earlier request), the timer thread, the OTA thread and threads of *)
(* the application.  A request is numbered, sent, and only then appended   *)
(* to message_list, without a lock.  The main thread alone removes and     *)
(* frees entries: on an answer, a timeout, a disconnection.                *)
(*                                                                         *)
(* A step that reads or writes a freed entry leaves the program undefined: *)
(* pc = "fault", and nothing happens after it.                             *)
(***************************************************************************)
EXTENDS Integers

CONSTANTS
    Main, Apps,      \* the thread of tuya_iot_yield; the other requesting threads
    Handles,         \* mqtt_atop_message_t allocations, each made once
    IdMod,           \* 2^16: entry->id has 16 bits
    MaxConnects      \* bound: the numbering restarts by a connection while era is below it

Threads == Apps \union {Main}
NULL == "NULL"
HEAD == "message_list"

ASSUME MatopAssumption ==
    /\ Main \notin Apps /\ NULL \notin Handles /\ HEAD \notin Handles
    /\ IdMod \in Nat \ {0} /\ MaxConnects \in Nat

VARIABLES
    conn,                 \* MQTT: "down", "deaf" (no topic of answers registered) or "up"
    id_cnt, era,          \* context->id_cnt; how often the numbering has restarted
    message_list, next,   \* the list head, and entry->next
    mem,                  \* of an entry: "unused", "allocated" or "freed"
    id, late,             \* entry->id, with the era it was given in; entry->timeout is past
    told, by,             \* calls of entry->notify_cb; the request whose answer made one
    pc, cur, target, nxt, \* main thread: step, link (HEAD or an entry), entry, entry->next
    ans, success,         \* the answer at hand, and what the callback is told
    rpc, mine, cnt, last, \* requesting threads: step, handle, id_cnt and list end as read
    answers,              \* answers on their way, named by the request they answer
    raced, torn           \* history: a link, or id_cnt, was overwritten unseen

numVars == <<id_cnt, era, torn>>
listVars == <<message_list, next, mem, raced>>
msgVars == <<id, late>>
outVars == <<told, by>>
mainVars == <<pc, cur, target, nxt, ans, success>>
reqVars == <<rpc, mine, cnt, last>>
vars == <<conn, numVars, listVars, msgVars, outVars, mainVars, reqVars, answers>>

Ids == [no : 0..(IdMod - 1), era : Nat]

Init ==
    /\ conn = "down"
    /\ id_cnt = 0 /\ era = 0 /\ torn = FALSE
    /\ message_list = NULL /\ next = [h \in Handles |-> NULL]
    /\ mem = [h \in Handles |-> "unused"] /\ raced = FALSE
    /\ id = [h \in Handles |-> [no |-> 0, era |-> 0]]
    /\ late = {}
    /\ told = [h \in Handles |-> 0] /\ by = [h \in Handles |-> NULL]
    /\ pc = "idle" /\ cur = HEAD /\ target = NULL /\ nxt = NULL
    /\ ans = NULL /\ success = FALSE
    /\ rpc = [t \in Threads |-> "idle"] /\ mine = [t \in Threads |-> NULL]
    /\ cnt = [t \in Threads |-> 0] /\ last = [t \in Threads |-> NULL]
    /\ answers = {}

------------------------------------------------------------------------------
(* Requests: matop_service_request_async on any thread.                       *)
\* The main thread makes one from a protocol handler, or from the callback of a
\* request that failed (matop_app_notify_upgrade_info_on).
MayRequest(t) == t = Main => pc = "idle" \/ (pc = "tell" /\ ~success)
At(t, step) == pc # "fault" /\ rpc[t] = step
Goto(t, step) == rpc' = [rpc EXCEPT ![t] = step]

\* malloc, and the load of ++id_cnt.
Request(t, h) ==
    /\ At(t, "idle") /\ MayRequest(t) /\ mem[h] = "unused"
    /\ mem' = [mem EXCEPT ![h] = "allocated"]
    /\ mine' = [mine EXCEPT ![t] = h] /\ cnt' = [cnt EXCEPT ![t] = id_cnt]
    /\ Goto(t, "number")
    /\ UNCHANGED <<conn, numVars, message_list, next, raced, msgVars, outVars,
                   mainVars, last, answers>>

\* The store: an entry's id has 16 bits, id_cnt 32.
Numbered(t) ==
    LET n == cnt[t] + 1 IN
    /\ id_cnt' = n
    /\ era' = IF n % IdMod = 0 THEN era + 1 ELSE era
    /\ torn' = (torn \/ id_cnt # cnt[t])
    /\ id' = [id EXCEPT ![mine[t]] = [no |-> n % IdMod, era |-> era']]

Number(t) ==
    /\ At(t, "number")
    /\ Numbered(t) /\ cnt' = [cnt EXCEPT ![t] = 0]
    /\ Goto(t, "send")
    /\ UNCHANGED <<conn, late, listVars, outVars, mainVars, mine, last, answers>>

\* matop_request_send: without the connection, or with resquest_topic still empty,
\* or by chance it fails.  Sent, it may be answered from now on.
SendFails(t) ==
    /\ At(t, "send")
    /\ mem' = [mem EXCEPT ![mine[t]] = "freed"]
    /\ mine' = [mine EXCEPT ![t] = NULL]
    /\ Goto(t, "idle")
    /\ UNCHANGED <<conn, numVars, message_list, next, raced, msgVars, outVars,
                   mainVars, cnt, last, answers>>

Send(t) ==
    /\ At(t, "send") /\ conn = "up"
    /\ answers' \in {answers, answers \union {mine[t]}}
    /\ Goto(t, "append")
    /\ UNCHANGED <<conn, numVars, listVars, msgVars, outVars, mainVars,
                   mine, cnt, last>>

\* Only now it goes to the end of the list: the head is looked at ...
AppendReads(t) ==
    /\ At(t, "append")
    /\ last' = [last EXCEPT ![t] = HEAD]
    /\ Goto(t, IF message_list = NULL THEN "link" ELSE "walk")
    /\ UNCHANGED <<conn, numVars, listVars, msgVars, outVars, mainVars,
                   mine, cnt, answers>>

Gone(p) == p # HEAD /\ mem[p] = "freed"
Link(p) == IF p = HEAD THEN message_list ELSE next[p]

\* ... read again, and the links are followed ...
AppendWalks(t) ==
    /\ At(t, "walk") /\ ~Gone(last[t]) /\ Link(last[t]) # NULL
    /\ last' = [last EXCEPT ![t] = Link(last[t])]
    /\ UNCHANGED <<conn, numVars, listVars, msgVars, outVars, mainVars,
                   rpc, mine, cnt, answers>>

AppendSeesEnd(t) ==
    /\ At(t, "walk") /\ last[t] # HEAD /\ ~Gone(last[t]) /\ Link(last[t]) = NULL
    /\ Goto(t, "link")
    /\ UNCHANGED <<conn, numVars, listVars, msgVars, outVars, mainVars,
                   mine, cnt, last, answers>>

\* ... and the last one written.  What another thread linked there in between is lost.
SetLink(p, h) ==
    /\ message_list' = IF p = HEAD THEN h ELSE message_list
    /\ next' = IF p = HEAD THEN next ELSE [next EXCEPT ![p] = h]

AppendLinks(t) ==
    /\ At(t, "link") /\ ~Gone(last[t])
    /\ SetLink(last[t], mine[t])
    /\ raced' = (raced \/ Link(last[t]) # NULL)
    /\ mine' = [mine EXCEPT ![t] = NULL] /\ last' = [last EXCEPT ![t] = NULL]
    /\ Goto(t, "idle")
    /\ UNCHANGED <<conn, numVars, mem, msgVars, outVars, mainVars, cnt, answers>>

\* The main thread freed the entry under the walk, or the only one after the look.
AppendFaults(t) ==
    /\ rpc[t] \in {"walk", "link"} /\ pc # "fault"
    /\ Gone(last[t]) \/ (rpc[t] = "walk" /\ last[t] = HEAD /\ message_list = NULL)
    /\ pc' = "fault"
    /\ UNCHANGED <<conn, numVars, listVars, msgVars, outVars, cur, target, nxt,
                   ans, success, reqVars, answers>>

------------------------------------------------------------------------------
(* The main thread.                                                           *)
Idle == pc = "idle" /\ rpc[Main] = "idle"

\* A function of the service returns, and its local variables are gone.
Return ==
    /\ pc' = "idle" /\ cur' = HEAD
    /\ target' = NULL /\ nxt' = NULL /\ ans' = NULL /\ success' = FALSE

\* matop_serice_init, on every connection: memset forgets the list and the numbers.
\* The topic of files is tried only after that of answers, and its failure ignored.
matop_serice_init ==
    /\ Idle /\ conn = "down" /\ era < MaxConnects
    /\ conn' \in {"deaf", "up"}
    /\ id_cnt' = 0 /\ era' = era + 1
    /\ message_list' = NULL /\ raced' = (raced \/ message_list # NULL)
    /\ UNCHANGED <<torn, next, mem, msgVars, outVars, mainVars, reqVars, answers>>

\* matop_serice_destory, on every disconnection: the entries are freed one by one,
\* without a call.
matop_serice_destory ==
    /\ Idle /\ conn # "down"
    /\ conn' = "down"
    /\ pc' = "destroy"
    /\ UNCHANGED <<numVars, listVars, msgVars, outVars, cur, target, nxt, ans, success,
                   reqVars, answers>>

DestroyFrees ==
    /\ pc = "destroy" /\ message_list # NULL
    /\ message_list' = next[message_list]
    /\ mem' = [mem EXCEPT ![message_list] = "freed"]
    /\ UNCHANGED <<conn, numVars, next, raced, msgVars, outVars, mainVars,
                   reqVars, answers>>

DestroyEnds ==
    /\ pc = "destroy" /\ message_list = NULL
    /\ Return
    /\ UNCHANGED <<conn, numVars, listVars, msgVars, outVars, reqVars, answers>>

\* An answer: on_matop_service_data_receive, or on_matop_service_file_rawdata_receive
\* whose answers are always a success.  It may come late, and more than once.
Receive(h, ok) ==
    /\ Idle /\ conn = "up" /\ h \in answers
    /\ answers' \in {answers, answers \ {h}}
    /\ pc' = "find" /\ ans' = h /\ success' = ok /\ target' = message_list
    /\ UNCHANGED <<conn, numVars, listVars, msgVars, outVars, cur, nxt, reqVars>>

MatchesAny(h) == TRUE
Matches(h) == id[h].no = id[ans].no

FindPasses ==
    /\ pc = "find" /\ target # NULL /\ ~Matches(target)
    /\ target' = next[target]
    /\ UNCHANGED <<conn, numVars, listVars, msgVars, outVars, pc, cur, nxt,
                   ans, success, reqVars, answers>>

FindFails ==
    /\ pc = "find" /\ target = NULL
    /\ Return
    /\ UNCHANGED <<conn, numVars, listVars, msgVars, outVars, reqVars, answers>>

\* entry->notify_cb.  What the callback requests are steps of Main's own.
Notify(h, whose) ==
    /\ told' = [told EXCEPT ![h] = @ + 1]
    /\ by' = [by EXCEPT ![h] = whose]

FindTellsOnly ==
    /\ pc = "find" /\ target # NULL /\ Matches(target)
    /\ Notify(target, ans) /\ Return
    /\ UNCHANGED <<conn, numVars, listVars, msgVars, reqVars, answers>>
FindTells ==
    /\ pc = "find" /\ target # NULL /\ Matches(target)
    /\ Notify(target, ans)
    /\ pc' = "tell" /\ cur' = NULL
    /\ UNCHANGED <<conn, numVars, listVars, msgVars, target, nxt, ans, success,
                   reqVars, answers>>

\* matop_serice_yield.
YieldBegins ==
    /\ Idle
    /\ pc' = "yield" /\ cur' = HEAD
    /\ UNCHANGED <<conn, numVars, listVars, msgVars, outVars, target, nxt, ans, success,
                   reqVars, answers>>

YieldPassesLate ==
    /\ pc = "yield" /\ Link(cur) # NULL
    /\ cur' = Link(cur)
    /\ UNCHANGED <<conn, numVars, listVars, msgVars, outVars, pc, target, nxt, ans,
                   success, reqVars, answers>>
YieldPasses ==
    LET e == Link(cur) IN
    /\ pc = "yield" /\ e # NULL /\ e \notin late
    /\ cur' = e
    /\ UNCHANGED <<conn, numVars, listVars, msgVars, outVars, pc, target, nxt, ans,
                   success, reqVars, answers>>

YieldEnds ==
    /\ pc = "yield" /\ Link(cur) = NULL
    /\ Return
    /\ UNCHANGED <<conn, numVars, listVars, msgVars, outVars, reqVars, answers>>

YieldTells ==
    LET e == Link(cur) IN
    /\ pc = "yield" /\ e # NULL /\ e \in late
    /\ Notify(e, NULL)
    /\ pc' = "tell" /\ target' = e /\ success' = FALSE
    /\ UNCHANGED <<conn, numVars, listVars, msgVars, cur, nxt, ans, reqVars,
                   answers>>

\* The callback returns.  A timeout kept the link to the entry; an answer walks the
\* list again for it, and may not find it.
TellReturns ==
    /\ pc = "tell" /\ rpc[Main] = "idle"
    /\ IF cur = NULL THEN pc' = "unlink" /\ cur' = HEAD /\ UNCHANGED nxt
                     ELSE pc' = "splice" /\ nxt' = next[target] /\ UNCHANGED cur
    /\ UNCHANGED <<conn, numVars, listVars, msgVars, outVars, target, ans, success,
                   reqVars, answers>>

UnlinkPasses ==
    /\ pc = "unlink" /\ Link(cur) \notin {target, NULL}
    /\ cur' = Link(cur)
    /\ UNCHANGED <<conn, numVars, listVars, msgVars, outVars, pc, target, nxt, ans,
                   success, reqVars, answers>>

UnlinkFinds ==
    /\ pc = "unlink" /\ Link(cur) = target
    /\ pc' = "splice" /\ nxt' = next[target]
    /\ UNCHANGED <<conn, numVars, listVars, msgVars, outVars, cur, target, ans, success,
                   reqVars, answers>>

UnlinkEnds ==
    /\ pc = "unlink" /\ Link(cur) = NULL
    /\ Return
    /\ UNCHANGED <<conn, numVars, listVars, msgVars, outVars, reqVars, answers>>

SpliceFreesOnly ==
    /\ pc = "splice" /\ Return
    /\ mem' = [mem EXCEPT ![target] = "freed"]
    /\ UNCHANGED <<conn, numVars, message_list, next, raced, msgVars, outVars, reqVars, answers>>
SpliceCutsList ==
    /\ pc = "splice" /\ Return
    /\ SetLink(cur, NULL)
    /\ raced' = (raced \/ Link(cur) # target \/ next[target] # nxt)
    /\ mem' = [mem EXCEPT ![target] = "freed"]
    /\ UNCHANGED <<conn, numVars, msgVars, outVars, reqVars, answers>>
\* *current = entry->next, with entry->next as loaded before; then the entry is freed.
Splice ==
    /\ pc = "splice"
    /\ SetLink(cur, nxt)
    /\ raced' = (raced \/ Link(cur) # target \/ next[target] # nxt)
    /\ mem' = [mem EXCEPT ![target] = "freed"]
    /\ Return
    /\ UNCHANGED <<conn, numVars, msgVars, outVars, reqVars, answers>>

\* The clock passes entry->timeout, at once where now + request->timeout needs more
\* than the 32 bits of the field.
TimePasses(h) ==
    /\ pc # "fault" /\ mem[h] = "allocated" /\ h \notin late
    /\ late' = late \union {h}
    /\ UNCHANGED <<conn, numVars, listVars, id, outVars, mainVars, reqVars, answers>>

------------------------------------------------------------------------------
Yield == YieldBegins \/ YieldPasses \/ YieldEnds \/ YieldTells

Removal ==
    \/ FindPasses \/ FindFails \/ FindTells
    \/ TellReturns \/ UnlinkPasses \/ UnlinkFinds \/ UnlinkEnds \/ Splice
    \/ DestroyFrees \/ DestroyEnds

Requester(t) ==
    \/ \E h \in Handles : Request(t, h)
    \/ Number(t) \/ Send(t) \/ SendFails(t)
    \/ AppendReads(t) \/ AppendWalks(t) \/ AppendSeesEnd(t) \/ AppendLinks(t)
    \/ AppendFaults(t)

Next ==
    \/ matop_serice_init \/ matop_serice_destory
    \/ Yield \/ Removal
    \/ \E h \in Handles : TimePasses(h) \/ \E ok \in BOOLEAN : Receive(h, ok)
    \/ \E t \in Threads : Requester(t)

(* tuya_iot_yield runs the main thread, each request it has begun included,    *)
(* comes back to matop_serice_yield whatever else it does, and the clock runs. *)
Proceeds == Number(Main) \/ Send(Main) \/ SendFails(Main) \/ AppendReads(Main)
            \/ AppendWalks(Main) \/ AppendSeesEnd(Main) \/ AppendLinks(Main)

Fairness ==
    /\ WF_vars(Yield \/ Removal \/ Proceeds) /\ SF_vars(YieldBegins)
    /\ \A h \in Handles : WF_vars(TimePasses(h))

Spec == Init /\ [][Next]_vars /\ Fairness

------------------------------------------------------------------------------
\* Types of all variables; no callback is called a second time.
TypeOK ==
    /\ conn \in {"down", "deaf", "up"}
    /\ id_cnt \in Nat /\ era \in Nat /\ torn \in BOOLEAN /\ raced \in BOOLEAN
    /\ message_list \in Handles \union {NULL}
    /\ next \in [Handles -> Handles \union {NULL}]
    /\ mem \in [Handles -> {"unused", "allocated", "freed"}]
    /\ id \in [Handles -> Ids] /\ late \in SUBSET Handles
    /\ told \in [Handles -> 0..1] /\ by \in [Handles -> Handles \union {NULL}]
    /\ pc \in {"idle", "destroy", "find", "yield", "tell", "unlink", "splice", "fault"}
    /\ cur \in Handles \union {HEAD, NULL} /\ target \in Handles \union {NULL}
    /\ nxt \in Handles \union {NULL} /\ ans \in Handles \union {NULL}
    /\ success \in BOOLEAN
    /\ rpc \in [Threads -> {"idle", "number", "send", "append", "walk", "link"}]
    /\ mine \in [Threads -> Handles \union {NULL}] /\ cnt \in [Threads -> Nat]
    /\ last \in [Threads -> Handles \union {NULL, HEAD}]
    /\ answers \in SUBSET Handles

\* The entries that can be reached from the head: the least set closed under the links.
Closed(S) ==
    /\ message_list # NULL => message_list \in S
    /\ \A h \in S : next[h] # NULL => next[h] \in S
Entries == {h \in Handles : \A S \in SUBSET Handles : Closed(S) => h \in S}

Telling == pc \in {"tell", "unlink", "splice"}

\* However requests of other threads race with answers, timeouts and disconnections,
\* the list holds allocated entries whose callback is still to come, apart from the
\* one being told, and the main thread never follows a link out of a freed entry.
ListIsLive ==
    pc # "fault" =>
    /\ \A h \in Entries : /\ mem[h] = "allocated"
                          /\ told[h] = 0 \/ (Telling /\ h = target)
    /\ pc \in {"find", "tell", "unlink", "splice"} /\ target # NULL => mem[target] = "allocated"
    /\ pc \in {"yield", "unlink", "splice"} /\ cur # HEAD => mem[cur] = "allocated"

\* As long as no store of one thread hid that of another, a request that was sent is
\* in the hands of its thread, in the list, or freed: in particular the one that a
\* callback makes while the entry it was called for is taken out of the list.
NoneForgotten ==
    ~raced /\ pc # "fault" =>
        \A h \in Handles : mem[h] = "allocated" =>
            h \in Entries \/ \E t \in Threads : mine[t] = h

\* An answer is given to the request it answers: late, repeated or early, it can reach
\* another one only when the numbering restarted between them (a reconnection, or 16
\* bits run out), or two threads took the same number.
OwnAnswer ==
    \A h \in Handles :
        by[h] # NULL => by[h] = h \/ id[by[h]].era # id[h].era \/ torn

------------------------------------------------------------------------------
Outcome ==
    [h \in Handles |->
        IF mem[h] = "unused" THEN "none"
        ELSE IF told[h] > 0 THEN IF by[h] = NULL THEN "timedOut" ELSE "answered"
        ELSE IF mem[h] = "allocated" THEN "open" ELSE "closed"]

\* A request that is in the list comes to its outcome: it is answered, timed out or
\* freed with the connection, unless a store of another thread hid an entry of the
\* list or the program faulted.  An entry whose answer came too early times out.
RequestResolved ==
    \A h \in Handles : h \in Entries ~> Outcome[h] # "open" \/ raced \/ pc = "fault"

Book == INSTANCE RequestBook WITH Requests <- Handles, outcome <- Outcome

\* The service implements RequestBook: one outcome per request, and a final one.
OneOutcome == Book!Spec
==============================================================================
