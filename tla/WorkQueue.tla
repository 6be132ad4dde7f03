------------------------------ MODULE WorkQueue ------------------------------
(***************************************************************************)
(* The work queue of src/src/tal_system/src/tal_workqueue.c, on top of the *)
(* thread manager (TalThread): any number of callers put items in, one     *)
(* worker thread takes them out, delayed works put their item in from the  *)
(* timer thread.  tuya_queue_* (external) is a queue with its own lock.    *)
(***************************************************************************)
EXTENDS TalThread

CONSTANTS
    Worker,       \* the thread tal_workqueue_create starts
    queue_len,    \* capacity of the queue and maximum of the semaphore
    Cbs,          \* callbacks
    Datas,        \* non-NULL callback arguments
    DelayedWorks, \* callbacks that are used with tal_workqueue_init_delayed
    NULL,
    MaxOps        \* bound: number of items scheduled and delayed works created

ASSUME WorkQueueAssumption ==
    /\ Worker \in Threads
    /\ queue_len \in Nat \ {0}
    /\ MaxOps \in Nat
    /\ DelayedWorks \subseteq Cbs
    /\ NULL \notin Cbs /\ NULL \notin Datas

VARIABLES
    open,      \* the TAL_WORKQUEUE_T is allocated
    queue,     \* WORK_ITEM_T; a cancelled item keeps its place with cb = NULL
    sem,
    posting,   \* callers between tuya_queue_input and tal_semaphore_post
    wpc,       \* the worker, in __work_thread_cb
    work_item, \* the worker's copy of the item it took
    rel,       \* progress of tal_workqueue_release
    stray,     \* callers that were posting when the queue they are in was freed
    extra,     \* their posts that reached the semaphore of a later queue
    dw,        \* delayed works: "none", "idle", armed (its loop type) or "deleted"
    tcb,       \* delayed work whose timer the timer thread is dispatching
    ops

strays == <<stray, extra>>
wqVars == <<open, queue, sem, posting, wpc, work_item, rel, strays, dw, tcb, ops>>
vars == <<wqVars, threadVars>>

Items == [cb : Cbs \cup {NULL}, data : Datas \cup {NULL}]
NoItem == [cb |-> NULL, data |-> NULL]

Init ==
    /\ ThreadInit
    /\ open = FALSE /\ queue = <<>> /\ sem = 0 /\ posting = 0
    /\ wpc = "off" /\ work_item = NoItem /\ rel = "none" /\ stray = 0 /\ extra = 0
    /\ dw = [d \in DelayedWorks |-> "none"] /\ tcb = NULL
    /\ ops = 0

------------------------------------------------------------------------------
(* tal_workqueue_create; every failure rolls back and leaves no trace.        *)
tal_workqueue_create ==
    /\ ~open
    /\ tal_thread_create_and_start(Worker)
    /\ open' = TRUE /\ queue' = <<>> /\ sem' = 0
    /\ UNCHANGED <<strays, posting, wpc, work_item, rel, dw, tcb, ops>>

Enqueue(q) ==
    /\ queue' = q
    /\ posting' = posting + 1

(* tal_workqueue_schedule: the input half; a full queue is an error.          *)
Input(item) ==
    /\ open /\ Len(queue) < queue_len
    /\ Enqueue(Append(queue, item))

tal_workqueue_schedule(cb, data) ==
    /\ ops < MaxOps /\ ops' = ops + 1
    /\ Input([cb |-> cb, data |-> data])
    /\ UNCHANGED <<strays, open, sem, wpc, work_item, rel, dw, tcb, threadVars>>

tal_workqueue_schedule_instant(cb, data) ==
    /\ ops < MaxOps /\ ops' = ops + 1
    /\ open /\ Len(queue) < queue_len
    /\ Enqueue(<<[cb |-> cb, data |-> data]>> \o queue)
    /\ UNCHANGED <<strays, open, sem, wpc, work_item, rel, dw, tcb, threadVars>>

\* tal_semaphore_post: a post at the maximum is lost.
SemPostUnbounded == sem + 1
SemPostForgotten == sem
SemPost == IF sem < queue_len THEN sem + 1 ELSE sem

\* The post half of either schedule.
SchedulePost ==
    /\ posting > 0
    /\ posting' = posting - 1
    /\ sem' = SemPost
    /\ UNCHANGED <<strays, open, queue, wpc, work_item, rel, dw, tcb, ops, threadVars>>

\* __work_cancel_traverse: same callback, or same data.  The item keeps its place.
Matches(item, cb, data) ==
    \/ cb # NULL /\ item.cb = cb
    \/ data # NULL /\ item.data = data

CancelByRemoval(cb, data) == SelectSeq(queue, LAMBDA item : ~Matches(item, cb, data))
Cancelled(cb, data) ==
    [i \in 1..Len(queue) |->
        IF Matches(queue[i], cb, data) THEN [queue[i] EXCEPT !.cb = NULL] ELSE queue[i]]

tal_workqueue_cancel(cb, data) ==
    /\ open /\ ~(cb = NULL /\ data = NULL)
    /\ queue' = Cancelled(cb, data)
    /\ UNCHANGED <<strays, open, sem, posting, wpc, work_item, rel, dw, tcb, ops, threadVars>>

------------------------------------------------------------------------------
(* __work_thread_cb.                                                          *)
WorkerEnters ==
    /\ WrapRun(Worker)
    /\ wpc' = "test"
    /\ UNCHANGED <<strays, open, queue, sem, posting, work_item, rel, dw, tcb, ops>>

WorkerTest ==
    /\ wpc = "test"
    /\ \/ /\ thrdRunSta[Worker] = "RUNNING"
          /\ wpc' = "wait"
          /\ UNCHANGED threadVars
       \/ /\ thrdRunSta[Worker] # "RUNNING"
          /\ wpc' = "off"
          /\ FuncReturns(Worker)
    /\ UNCHANGED <<strays, open, queue, sem, posting, work_item, rel, dw, tcb, ops>>

WorkerWait ==
    /\ wpc = "wait" /\ sem > 0
    /\ sem' = sem - 1
    /\ wpc' = "output"
    /\ UNCHANGED <<strays, open, queue, posting, work_item, rel, dw, tcb, ops, threadVars>>

WorkerOutputKept ==
    /\ wpc = "output"
    /\ \/ /\ queue # <<>>
          /\ work_item' = Head(queue)
          /\ queue' = queue
          /\ wpc' = IF Head(queue).cb # NULL THEN "call" ELSE "test"
       \/ queue = <<>> /\ wpc' = "test" /\ UNCHANGED <<queue, work_item>>
    /\ UNCHANGED <<strays, open, sem, posting, rel, dw, tcb, ops, threadVars>>

\* tuya_queue_output; on an empty queue the worker sleeps and tests again.
WorkerOutput ==
    /\ wpc = "output"
    /\ \/ /\ queue # <<>>
          /\ work_item' = Head(queue)
          /\ queue' = Tail(queue)
          /\ wpc' = IF Head(queue).cb # NULL THEN "call" ELSE "test"
       \/ queue = <<>> /\ wpc' = "test" /\ UNCHANGED <<queue, work_item>>
    /\ UNCHANGED <<strays, open, sem, posting, rel, dw, tcb, ops, threadVars>>

WorkerCallReturns ==
    /\ wpc = "call"
    /\ wpc' = "test" /\ work_item' = NoItem
    /\ UNCHANGED <<strays, open, queue, sem, posting, rel, dw, tcb, ops, threadVars>>

WorkerStep == WorkerEnters \/ WorkerTest \/ WorkerWait \/ WorkerOutput \/ WorkerCallReturns

\* The rest of the worker's life, in the thread manager.
WorkerThread ==
    /\ \/ WrapStart(Worker) \/ WrapSeesStop(Worker)
       \/ WrapSetDelete(Worker) \/ WrapCleanup(Worker)
    /\ UNCHANGED wqVars

------------------------------------------------------------------------------
(* tal_workqueue_release: delete the thread, post, poll until the thread's    *)
(* state is DELETE, free.  Delayed works are cancelled before.                *)
ReleaseDelete ==
    /\ open /\ rel = "none"
    /\ \A d \in DelayedWorks : dw[d] = "none"
    /\ tal_thread_delete(Worker)
    /\ rel' = "stop"
    /\ UNCHANGED <<strays, open, queue, sem, posting, wpc, work_item, dw, tcb, ops>>

ReleaseAddDelNode ==
    /\ rel = "stop"
    /\ AddDelThrdNode(Worker)
    /\ rel' = "post"
    /\ UNCHANGED <<strays, open, queue, sem, posting, wpc, work_item, dw, tcb, ops>>

ReleasePost ==
    /\ rel = "post"
    /\ sem' = SemPost
    /\ rel' = "poll"
    /\ UNCHANGED <<strays, open, queue, posting, wpc, work_item, dw, tcb, ops, threadVars>>

(* tal_thread_get_state reads DELETE.  The worker frees its own node right    *)
(* after it set DELETE, so the read may be one of freed memory: it may still  *)
(* find DELETE there, or never see it.                                        *)
ReleasePollEarly == rel = "poll" /\ thrdRunSta[Worker] # "RUNNING"
ReleasePoll == rel = "poll" /\ thrdRunSta[Worker] \in {"DELETE", "FREE"}

(* The rest of the release.  Nothing keeps a caller that is between its input *)
(* and its post, or a timer callback about to schedule, from going on in the  *)
(* freed queue.                                                               *)
tal_workqueue_release ==
    /\ ReleasePoll
    /\ open' = FALSE /\ queue' = <<>> /\ sem' = 0
    /\ stray' = stray + posting /\ posting' = 0 /\ extra' = 0
    /\ rel' = "none"
    /\ UNCHANGED <<wpc, work_item, dw, tcb, ops, threadVars>>

(* The post of such a caller, through freed memory: it is lost, or, when a    *)
(* later queue has the memory, it is one more count of that queue's semaphore.*)
StrayPost ==
    /\ stray > 0
    /\ stray' = stray - 1
    /\ \/ UNCHANGED <<sem, extra>>
       \/ open /\ sem' = SemPost /\ extra' = extra + 1
    /\ UNCHANGED <<open, queue, posting, wpc, work_item, rel, dw, tcb, ops, threadVars>>

------------------------------------------------------------------------------
(* Delayed works.  The timer is abstract here (see SwTimer): an armed work's  *)
(* timer may be dispatched, which makes it current in the timer thread before *)
(* its callback runs, without any lock held in between.                       *)
tal_workqueue_init_delayed(d) ==
    /\ open /\ rel = "none" /\ dw[d] = "none"
    /\ ops < MaxOps /\ ops' = ops + 1
    /\ dw' = [dw EXCEPT ![d] = "idle"]
    /\ UNCHANGED <<strays, open, queue, sem, posting, wpc, work_item, rel, tcb, threadVars>>

\* The caller that cancels a work does not use it any more.
Usable(d) == dw[d] \notin {"none", "deleted"}

tal_workqueue_start_delayed(d, type) ==
    /\ Usable(d)
    /\ dw' = [dw EXCEPT ![d] = type]
    /\ UNCHANGED <<strays, open, queue, sem, posting, wpc, work_item, rel, tcb, ops, threadVars>>

tal_workqueue_stop_delayed(d) ==
    /\ Usable(d)
    /\ dw' = [dw EXCEPT ![d] = "idle"]
    /\ UNCHANGED <<strays, open, queue, sem, posting, wpc, work_item, rel, tcb, ops, threadVars>>

DispatchDelayed(d) ==
    /\ dw[d] \in {"ONCE", "CYCLE"} /\ tcb = NULL
    /\ tcb' = d
    /\ dw' = IF dw[d] = "ONCE" THEN [dw EXCEPT ![d] = "idle"] ELSE dw
    /\ UNCHANGED <<strays, open, queue, sem, posting, wpc, work_item, rel, ops, threadVars>>

\* __delayed_work_cb.  After tal_workqueue_cancel_delayed it reads freed memory:
\* what it finds may still be the work, which it then schedules, and the queue of
\* the work may be another one by then.
DelayedWorkCb ==
    /\ tcb # NULL /\ tcb' = NULL
    /\ \/ ops < MaxOps /\ ops' = ops + 1 /\ Input([cb |-> tcb, data |-> NULL])
       \/ (Len(queue) = queue_len \/ ~Usable(tcb) \/ ops = MaxOps)
          /\ UNCHANGED <<queue, posting, ops>>
    /\ UNCHANGED <<strays, open, sem, wpc, work_item, rel, dw, threadVars>>

\* tal_workqueue_cancel_delayed deletes the timer ...
tal_workqueue_cancel_delayed(d) ==
    /\ Usable(d)
    /\ dw' = [dw EXCEPT ![d] = "deleted"]
    /\ UNCHANGED <<strays, open, queue, sem, posting, wpc, work_item, rel, tcb, ops, threadVars>>

\* ... and then cancels the queued items of the work and frees it.
CancelDelayedForgetsItems(d) == queue
CancelDelayedItems(d) == Cancelled(d, NULL)

CancelDelayedQueued(d) ==
    /\ dw[d] = "deleted"
    /\ dw' = [dw EXCEPT ![d] = "none"]
    /\ queue' = CancelDelayedItems(d)
    /\ UNCHANGED <<strays, open, sem, posting, wpc, work_item, rel, tcb, ops, threadVars>>

------------------------------------------------------------------------------
Schedule ==
    \E cb \in Cbs \ DelayedWorks, data \in Datas \cup {NULL} :
        tal_workqueue_schedule(cb, data) \/ tal_workqueue_schedule_instant(cb, data)

Cancel == \E cb \in Cbs \cup {NULL}, data \in Datas \cup {NULL} : tal_workqueue_cancel(cb, data)

Delayed ==
    \/ \E d \in DelayedWorks :
          \/ tal_workqueue_init_delayed(d)
          \/ \E type \in {"ONCE", "CYCLE"} : tal_workqueue_start_delayed(d, type)
          \/ tal_workqueue_stop_delayed(d)
          \/ tal_workqueue_cancel_delayed(d) \/ CancelDelayedQueued(d)
          \/ DispatchDelayed(d)
    \/ DelayedWorkCb

Release == ReleaseDelete \/ ReleaseAddDelNode \/ ReleasePost \/ tal_workqueue_release

Next ==
    \/ tal_workqueue_create \/ Schedule \/ SchedulePost \/ StrayPost \/ Cancel \/ Delayed
    \/ WorkerStep \/ WorkerThread \/ Release

(* The worker is scheduled and its callbacks return; a caller inside          *)
(* tal_workqueue_schedule or tal_workqueue_release goes on to its next call,  *)
(* except that nothing is promised of a poll that reads freed memory.         *)
Fairness ==
    /\ WF_vars(WorkerStep) /\ WF_vars(WorkerThread)
    /\ WF_vars(SchedulePost) /\ WF_vars(ReleaseAddDelNode \/ ReleasePost)

Spec == Init /\ [][Next]_vars /\ Fairness

------------------------------------------------------------------------------
Holding == IF wpc = "output" THEN 1 ELSE 0
ReleaseToken == IF rel = "poll" THEN 1 ELSE 0

\* Types of the queue's own variables and of the thread nodes' fields.
QueueTypeOK ==
    /\ open \in BOOLEAN
    /\ queue \in Seq(Items)
    /\ sem \in 0..queue_len
    /\ posting \in Nat /\ stray \in Nat /\ extra \in Nat
    /\ wpc \in {"off", "test", "wait", "output", "call"}
    /\ work_item \in Items
    /\ rel \in {"none", "stop", "post", "poll"}
    /\ dw \in [DelayedWorks -> {"none", "idle", "ONCE", "CYCLE", "deleted"}]
    /\ tcb \in DelayedWorks \cup {NULL}
    /\ ops \in 0..MaxOps
    /\ NodeTypeOK

\* Types of all variables.
TypeOK ==
    /\ QueueTypeOK
    /\ s_all_thrd_mag \subseteq Threads /\ deleting \subseteq Threads
    /\ del_list \in Seq(Threads)

\* The queue never outgrows its capacity, and there is a semaphore count, a post
\* to come or a worker about to take, for every item in it, cancelled ones
\* included: no item is stranded.  Only the post of tal_workqueue_release, and the
\* posts of callers left inside a queue freed before this one, add counts to these.
TokensMatchItems ==
    /\ Len(queue) <= queue_len
    /\ Len(queue) <= sem + posting + Holding
    /\ sem + posting + Holding <= Len(queue) + ReleaseToken + extra

\* The memory of the queue is freed only after the worker has left its loop, even
\* when the release polls a thread node that is already freed.
FreedAfterLoop == ~open => wpc = "off" /\ tpc[Worker] \in {"none", "cleanup"}

Live(d) == {i \in 1..Len(queue) : queue[i].cb = d}

\* After tal_workqueue_cancel_delayed has returned the worker takes at most one more
\* item of the work: the one of a timer callback that was already past the timer's
\* mutex.  (An item the worker had taken before is running already.)
AtMostOneLateDelayed ==
    \A d \in DelayedWorks :
        dw[d] = "none" => /\ \A i, j \in Live(d) : i = j
                          /\ tcb = d => Live(d) = {}

\* What may still come of a cancelled work, and the run of it that is under way.
Late(d) == Live(d) # {} \/ tcb = d
InHand(d) == wpc = "call" /\ work_item.cb = d

\* That late run is the last: while the work stays cancelled nothing makes it run
\* again, the worker's taking of the late item uses it up, and whatever the worker
\* runs of the work was in its hands already or is that item.
LateRunIsLast ==
    [][\A d \in DelayedWorks :
          dw[d] = "none" /\ dw'[d] = "none" =>
              /\ Late(d)' => Late(d)
              /\ InHand(d)' => InHand(d) \/ (Late(d) /\ ~Late(d)')]_vars

\* Every item is taken: once callers stop scheduling, the queue drains, unless
\* tal_workqueue_release, which drops what it finds, is under way.
QueueDrains == (queue # <<>>) ~> (queue = <<>> \/ rel # "none")
==============================================================================
