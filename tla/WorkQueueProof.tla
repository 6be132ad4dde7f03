--------------------------- MODULE WorkQueueProof ---------------------------
(***************************************************************************)
(* Proofs about WorkQueue, for every capacity of the queue, every set of   *)
(* callbacks and any number of operations.                                 *)
(***************************************************************************)
EXTENDS WorkQueue, NaturalsInduction, WellFoundedInduction, TLAPS

\* What ties the worker's loop to its thread node: the worker is inside its loop
\* only while the thread manager runs its function, and a node in state DELETE, or
\* freed, belongs to a thread that is past its function.
WorkerLinked ==
    /\ wpc # "off" => tpc[Worker] = "func"
    /\ thrdRunSta[Worker] \in {"DELETE", "FREE"} => tpc[Worker] \in {"none", "cleanup"}

\* No caller is inside the queue when it is created or after it is released.
ClosedIsQuiet == ~open => posting = 0

USE DEF strays

IInv == QueueTypeOK /\ TokensMatchItems /\ WorkerLinked /\ FreedAfterLoop /\ ClosedIsQuiet

------------------------------------------------------------------------------
\* __work_cancel_traverse keeps every item in its place.
LEMMA CancelledKeepsPlaces ==
    ASSUME queue \in Seq(Items), NEW cb, NEW data
    PROVE  /\ Cancelled(cb, data) \in Seq(Items)
           /\ Len(Cancelled(cb, data)) = Len(queue)
<1>1. \A i \in 1..Len(queue) : queue[i] \in Items
  OBVIOUS
<1>2. \A i \in 1..Len(queue) : [queue[i] EXCEPT !.cb = NULL] \in Items
  BY <1>1 DEF Items
<1>3. QED
  BY <1>1, <1>2 DEF Cancelled

\* __free_all_del_thrd_node frees no node that is not in state DELETE.
LEMMA FreedIsDeletable ==
    ASSUME NEW t, NEW self, t \in FreedBy(self)
    PROVE  thrdRunSta[t] = "DELETE"
BY DEF FreedBy, Deletable

\* A post adds one count, or none at the maximum, and never exceeds it.
LEMMA SemPostBounds ==
    ASSUME sem \in 0..queue_len
    PROVE  /\ SemPost \in 0..queue_len
           /\ sem < queue_len => SemPost = sem + 1
           /\ sem = queue_len => SemPost = sem
BY WorkQueueAssumption DEF SemPost

------------------------------------------------------------------------------
\* The initial state satisfies the invariant.
LEMMA InitIInv == Init => IInv
<1> SUFFICES ASSUME Init PROVE IInv
  OBVIOUS
<1> USE WorkQueueAssumption DEF Init, ThreadInit
<1>1. QueueTypeOK
  <2>1. work_item \in Items /\ queue \in Seq(Items)
    BY DEF NoItem, Items
  <2>2. NodeTypeOK
    BY DEF NodeTypeOK
  <2>3. open \in BOOLEAN
    OBVIOUS
  <2>4. /\ sem \in 0..queue_len /\ posting \in Nat /\ stray \in Nat /\ extra \in Nat
        /\ ops \in 0..MaxOps
    OBVIOUS
  <2>5. dw \in [DelayedWorks -> {"none", "idle", "ONCE", "CYCLE", "deleted"}]
    OBVIOUS
  <2>6. QED
    BY <2>1, <2>2, <2>3, <2>4, <2>5 DEF QueueTypeOK
<1>2. TokensMatchItems
  BY DEF TokensMatchItems, Holding, ReleaseToken
<1>3. WorkerLinked /\ FreedAfterLoop /\ ClosedIsQuiet
  BY DEF WorkerLinked, FreedAfterLoop, ClosedIsQuiet
<1>4. QED
  BY <1>1, <1>2, <1>3 DEF IInv

------------------------------------------------------------------------------
\* A step that puts an item in the queue, leaving its post for later.
LEMMA EnqueueKeeps ==
    ASSUME QueueTypeOK, TokensMatchItems, NEW q \in Seq(Items),
           Len(q) = Len(queue) + 1, Len(queue) < queue_len, Enqueue(q),
           UNCHANGED <<sem, wpc, rel, extra>>
    PROVE  queue' \in Seq(Items) /\ posting' \in Nat /\ TokensMatchItems'
BY WorkQueueAssumption
   DEF QueueTypeOK, TokensMatchItems, Enqueue, Holding, ReleaseToken

\* A step that leaves the worker, its thread and the queue's memory alone.
LEMMA ThreadUntouched ==
    ASSUME WorkerLinked, FreedAfterLoop, UNCHANGED <<open, wpc, threadVars>>
    PROVE  WorkerLinked' /\ FreedAfterLoop'
BY DEF WorkerLinked, FreedAfterLoop, threadVars

\* The types of what a step leaves alone.
LEMMA RestUntouched ==
    ASSUME QueueTypeOK, UNCHANGED <<open, wpc, work_item, threadVars>>
    PROVE  /\ open' \in BOOLEAN /\ work_item' \in Items /\ NodeTypeOK'
           /\ wpc' \in {"off", "test", "wait", "output", "call"}
BY DEF QueueTypeOK, NodeTypeOK, threadVars

\* tal_workqueue_schedule and tal_workqueue_schedule_instant preserve the invariant.
LEMMA ScheduleIInv == IInv /\ Schedule => IInv'
<1> SUFFICES ASSUME IInv, NEW cb \in Cbs \ DelayedWorks, NEW data \in Datas \cup {NULL},
                    tal_workqueue_schedule(cb, data) \/ tal_workqueue_schedule_instant(cb, data)
             PROVE  IInv'
  BY DEF Schedule
<1> DEFINE item == [cb |-> cb, data |-> data]
<1>1. item \in Items
  BY DEF Items
<1>2. /\ open /\ Len(queue) < queue_len /\ queue \in Seq(Items)
      /\ UNCHANGED <<stray, extra, open, sem, wpc, work_item, rel, dw, tcb, threadVars>>
      /\ ops < MaxOps /\ ops' = ops + 1
  BY DEF IInv, QueueTypeOK, tal_workqueue_schedule, tal_workqueue_schedule_instant, Input
<1>3. Enqueue(Append(queue, item)) \/ Enqueue(<<item>> \o queue)
  BY DEF tal_workqueue_schedule, tal_workqueue_schedule_instant, Input
<1>4. /\ Append(queue, item) \in Seq(Items) /\ Len(Append(queue, item)) = Len(queue) + 1
      /\ <<item>> \o queue \in Seq(Items) /\ Len(<<item>> \o queue) = Len(queue) + 1
  BY <1>1, <1>2
<1>5. queue' \in Seq(Items) /\ posting' \in Nat /\ TokensMatchItems'
  BY <1>2, <1>3, <1>4, EnqueueKeeps DEF IInv
<1>6. WorkerLinked' /\ FreedAfterLoop'
  BY <1>2, ThreadUntouched DEF IInv
<1>7. QueueTypeOK'
  BY <1>2, <1>5, RestUntouched, WorkQueueAssumption DEF IInv, QueueTypeOK
<1>8. QED
  BY <1>2, <1>5, <1>6, <1>7 DEF IInv, ClosedIsQuiet

\* The post that follows preserves the invariant: a post that is lost at the
\* maximum leaves as many counts as the queue has room for.
LEMMA SchedulePostIInv == IInv /\ SchedulePost => IInv'
<1> SUFFICES ASSUME IInv, SchedulePost PROVE IInv'
  OBVIOUS
<1>1. UNCHANGED <<stray, extra, open, queue, wpc, work_item, rel, dw, tcb, ops, threadVars>>
  BY DEF SchedulePost
<1>2. /\ posting > 0 /\ posting' = posting - 1 /\ sem' = SemPost
      /\ posting \in Nat /\ sem \in 0..queue_len
  BY DEF SchedulePost, IInv, QueueTypeOK
<1>3. TokensMatchItems'
  BY <1>1, <1>2, SemPostBounds, WorkQueueAssumption
     DEF IInv, QueueTypeOK, TokensMatchItems, Holding, ReleaseToken
<1>4. WorkerLinked' /\ FreedAfterLoop'
  BY <1>1, ThreadUntouched DEF IInv
<1>5. QueueTypeOK'
  BY <1>1, <1>2, SemPostBounds, RestUntouched DEF IInv, QueueTypeOK
<1>6. ClosedIsQuiet'
  BY <1>1, <1>2 DEF IInv, ClosedIsQuiet
<1>7. QED
  BY <1>3, <1>4, <1>5, <1>6 DEF IInv

\* The post of a caller left inside a freed queue preserves the invariant: it never
\* takes a count away, and what it adds is one of the extra counts.
LEMMA StrayPostIInv == IInv /\ StrayPost => IInv'
<1> SUFFICES ASSUME IInv, StrayPost PROVE IInv'
  OBVIOUS
<1>1. UNCHANGED <<open, queue, posting, wpc, work_item, rel, dw, tcb, ops, threadVars>>
  BY DEF StrayPost
<1>2. stray' \in Nat /\ extra \in Nat /\ sem \in 0..queue_len
  BY DEF StrayPost, IInv, QueueTypeOK
<1>3. \/ sem' = sem /\ extra' = extra
      \/ sem' = SemPost /\ extra' = extra + 1
  BY DEF StrayPost
<1>4. /\ sem' \in 0..queue_len /\ extra' \in Nat
      /\ \/ sem' = sem /\ extra' = extra
         \/ sem' = sem /\ extra' = extra + 1
         \/ sem' = sem + 1 /\ extra' = extra + 1
  BY <1>2, <1>3, SemPostBounds, WorkQueueAssumption
<1>5. TokensMatchItems'
  BY <1>1, <1>2, <1>4, WorkQueueAssumption
     DEF IInv, QueueTypeOK, TokensMatchItems, Holding, ReleaseToken
<1>6. WorkerLinked' /\ FreedAfterLoop'
  BY <1>1, ThreadUntouched DEF IInv
<1>7. QueueTypeOK'
  BY <1>1, <1>2, <1>4, RestUntouched DEF IInv, QueueTypeOK
<1>8. QED
  BY <1>1, <1>5, <1>6, <1>7 DEF IInv, ClosedIsQuiet

\* tal_workqueue_cancel preserves the invariant.
LEMMA CancelIInv == IInv /\ Cancel => IInv'
<1> SUFFICES ASSUME IInv, NEW cb, NEW data, tal_workqueue_cancel(cb, data)
             PROVE  IInv'
  BY DEF Cancel
<1>1. /\ queue' = Cancelled(cb, data)
      /\ UNCHANGED <<stray, extra, open, sem, posting, wpc, work_item, rel, dw, tcb, ops, threadVars>>
  BY DEF tal_workqueue_cancel
<1>2. queue' \in Seq(Items) /\ Len(queue') = Len(queue)
  BY <1>1, CancelledKeepsPlaces DEF IInv, QueueTypeOK
<1>3. TokensMatchItems'
  BY <1>1, <1>2 DEF IInv, TokensMatchItems, Holding, ReleaseToken
<1>4. WorkerLinked' /\ FreedAfterLoop'
  BY <1>1, ThreadUntouched DEF IInv
<1>5. QueueTypeOK'
  BY <1>1, <1>2, RestUntouched DEF IInv, QueueTypeOK
<1>6. QED
  BY <1>1, <1>3, <1>4, <1>5 DEF IInv, ClosedIsQuiet

\* The delayed works preserve the invariant.
LEMMA DelayedIInv == IInv /\ Delayed => IInv'
<1> SUFFICES ASSUME IInv, Delayed PROVE IInv'
  OBVIOUS
<1>1. UNCHANGED <<stray, extra, open, sem, wpc, work_item, rel, threadVars>>
  BY DEF Delayed, tal_workqueue_init_delayed, tal_workqueue_start_delayed,
         tal_workqueue_stop_delayed, tal_workqueue_cancel_delayed, CancelDelayedQueued,
         DispatchDelayed, DelayedWorkCb
<1>2. WorkerLinked' /\ FreedAfterLoop'
  BY <1>1, ThreadUntouched DEF IInv
<1>3. CASE DelayedWorkCb
  <2>1. tcb \in DelayedWorks /\ tcb' = NULL /\ dw' = dw
    BY <1>3 DEF DelayedWorkCb, IInv, QueueTypeOK
  <2>2. CASE /\ ops < MaxOps /\ ops' = ops + 1 /\ Input([cb |-> tcb, data |-> NULL])
    <3> DEFINE item == [cb |-> tcb, data |-> NULL]
    <3>1. item \in Items
      BY <2>1, WorkQueueAssumption DEF Items
    <3>2. open /\ Len(queue) < queue_len /\ Enqueue(Append(queue, item)) /\ queue \in Seq(Items)
      BY <2>2 DEF Input, IInv, QueueTypeOK
    <3>3. Append(queue, item) \in Seq(Items) /\ Len(Append(queue, item)) = Len(queue) + 1
      BY <3>1, <3>2
    <3>4. queue' \in Seq(Items) /\ posting' \in Nat /\ TokensMatchItems'
      BY <1>1, <3>2, <3>3, EnqueueKeeps DEF IInv
    <3>5. QueueTypeOK'
      BY <1>1, <2>1, <2>2, <3>4, RestUntouched, WorkQueueAssumption DEF IInv, QueueTypeOK
    <3>6. QED
      BY <1>1, <1>2, <3>2, <3>4, <3>5 DEF IInv, ClosedIsQuiet
  <2>3. CASE UNCHANGED <<queue, posting, ops>>
    <3>1. QueueTypeOK'
      BY <1>1, <2>1, <2>3, RestUntouched DEF IInv, QueueTypeOK
    <3>2. TokensMatchItems'
      BY <1>1, <2>3 DEF IInv, TokensMatchItems, Holding, ReleaseToken
    <3>3. QED
      BY <1>1, <1>2, <2>3, <3>1, <3>2 DEF IInv, ClosedIsQuiet
  <2>4. QED
    BY <1>3, <2>2, <2>3 DEF DelayedWorkCb
<1>4. ASSUME NEW d \in DelayedWorks,
             \/ tal_workqueue_init_delayed(d)
             \/ \E type \in {"ONCE", "CYCLE"} : tal_workqueue_start_delayed(d, type)
             \/ tal_workqueue_stop_delayed(d)
             \/ tal_workqueue_cancel_delayed(d)
             \/ DispatchDelayed(d)
      PROVE  IInv'
  <2>1. UNCHANGED <<queue, posting>>
    BY <1>4 DEF tal_workqueue_init_delayed, tal_workqueue_start_delayed,
                tal_workqueue_stop_delayed, tal_workqueue_cancel_delayed,
                DispatchDelayed
  <2>2. /\ dw' \in [DelayedWorks -> {"none", "idle", "ONCE", "CYCLE", "deleted"}]
        /\ tcb' \in DelayedWorks \cup {NULL} /\ ops' \in 0..MaxOps
    BY <1>4, WorkQueueAssumption
       DEF IInv, QueueTypeOK, tal_workqueue_init_delayed, tal_workqueue_start_delayed,
           tal_workqueue_stop_delayed, tal_workqueue_cancel_delayed,
                DispatchDelayed
  <2>3. QueueTypeOK'
    BY <1>1, <2>1, <2>2, RestUntouched DEF IInv, QueueTypeOK
  <2>4. TokensMatchItems'
    BY <1>1, <2>1 DEF IInv, TokensMatchItems, Holding, ReleaseToken
  <2>5. QED
    BY <1>1, <1>2, <2>1, <2>3, <2>4 DEF IInv, ClosedIsQuiet
<1>5. ASSUME NEW d \in DelayedWorks, CancelDelayedQueued(d)
      PROVE  IInv'
  <2>1. /\ queue' = Cancelled(d, NULL) /\ UNCHANGED <<posting, tcb, ops>>
        /\ dw' = [dw EXCEPT ![d] = "none"]
    BY <1>5 DEF CancelDelayedQueued, CancelDelayedItems
  <2>2. queue' \in Seq(Items) /\ Len(queue') = Len(queue)
    BY <2>1, CancelledKeepsPlaces DEF IInv, QueueTypeOK
  <2>3. TokensMatchItems'
    BY <1>1, <2>1, <2>2 DEF IInv, TokensMatchItems, Holding, ReleaseToken
  <2>4. QueueTypeOK'
    BY <1>1, <2>1, <2>2, RestUntouched DEF IInv, QueueTypeOK
  <2>5. QED
    BY <1>1, <1>2, <2>1, <2>3, <2>4 DEF IInv, ClosedIsQuiet
<1>6. QED
  BY <1>3, <1>4, <1>5 DEF Delayed

------------------------------------------------------------------------------
\* The worker's loop preserves the invariant.
LEMMA WorkerStepIInv == IInv /\ WorkerStep => IInv'
<1> SUFFICES ASSUME IInv, WorkerStep PROVE IInv'
  OBVIOUS
<1> USE WorkQueueAssumption DEF IInv, ClosedIsQuiet
<1>1. CASE WorkerEnters
  <2>1. /\ tpc[Worker] = "enter" /\ wpc' = "test"
        /\ thrdRunSta' = [thrdRunSta EXCEPT ![Worker] = "RUNNING"]
        /\ tpc' = [tpc EXCEPT ![Worker] = "func"]
        /\ UNCHANGED <<stray, extra, open, queue, sem, posting, work_item, rel, dw, tcb, ops>>
    BY <1>1 DEF WorkerEnters, WrapRun
  <2>2. NodeTypeOK' /\ tpc'[Worker] = "func" /\ thrdRunSta'[Worker] = "RUNNING"
    BY <2>1 DEF QueueTypeOK, NodeTypeOK
  <2>3. QueueTypeOK' /\ WorkerLinked'
    BY <2>1, <2>2 DEF QueueTypeOK, WorkerLinked
  <2>4. TokensMatchItems'
    BY <2>1 DEF QueueTypeOK, WorkerLinked, TokensMatchItems, Holding, ReleaseToken
  <2>5. FreedAfterLoop'
    BY <2>1 DEF FreedAfterLoop
  <2>6. QED
    BY <2>1, <2>3, <2>4, <2>5
<1>2. CASE WorkerTest
  <2>1. wpc = "test" /\ UNCHANGED <<stray, extra, open, queue, sem, posting, work_item, rel, dw, tcb, ops>>
    BY <1>2 DEF WorkerTest
  <2>2. /\ wpc' \in {"off", "wait"} /\ NodeTypeOK' /\ thrdRunSta' = thrdRunSta
        /\ wpc' # "off" => tpc' = tpc
        /\ wpc' = "off" => tpc'[Worker] = "await"
    BY <1>2 DEF WorkerTest, FuncReturns, threadVars, QueueTypeOK, NodeTypeOK
  <2>3. TokensMatchItems'
    BY <2>1, <2>2 DEF TokensMatchItems, Holding, ReleaseToken
  <2>4. WorkerLinked' /\ FreedAfterLoop'
    BY <2>1, <2>2 DEF WorkerLinked, FreedAfterLoop
  <2>5. QueueTypeOK'
    BY <2>1, <2>2 DEF QueueTypeOK
  <2>6. QED
    BY <2>1, <2>3, <2>4, <2>5
<1>3. CASE WorkerWait
  <2>1. /\ wpc = "wait" /\ wpc' = "output" /\ sem > 0 /\ sem' = sem - 1
        /\ UNCHANGED <<stray, extra, open, queue, posting, work_item, rel, dw, tcb, ops, threadVars>>
    BY <1>3 DEF WorkerWait
  <2>2. TokensMatchItems'
    BY <2>1 DEF TokensMatchItems, QueueTypeOK, Holding, ReleaseToken
  <2>3. WorkerLinked' /\ FreedAfterLoop'
    BY <2>1 DEF WorkerLinked, FreedAfterLoop, threadVars
  <2>4. QueueTypeOK'
    BY <2>1 DEF QueueTypeOK, NodeTypeOK, threadVars
  <2>5. QED
    BY <2>1, <2>2, <2>3, <2>4
<1>4. CASE WorkerOutput
  <2>1. /\ wpc = "output" /\ UNCHANGED <<stray, extra, open, sem, posting, rel, dw, tcb, ops, threadVars>>
        /\ wpc' \in {"call", "test"}
    BY <1>4 DEF WorkerOutput
  <2>2. /\ queue' \in Seq(Items) /\ work_item' \in Items
        /\ \/ queue = <<>> /\ queue' = queue
           \/ Len(queue') = Len(queue) - 1
    BY <1>4 DEF WorkerOutput, QueueTypeOK
  <2>3. TokensMatchItems'
    BY <2>1, <2>2 DEF TokensMatchItems, QueueTypeOK, Holding, ReleaseToken
  <2>4. WorkerLinked' /\ FreedAfterLoop'
    BY <2>1 DEF WorkerLinked, FreedAfterLoop, threadVars
  <2>5. QueueTypeOK'
    BY <2>1, <2>2 DEF QueueTypeOK, NodeTypeOK, threadVars
  <2>6. QED
    BY <2>1, <2>3, <2>4, <2>5
<1>5. CASE WorkerCallReturns
  <2>1. /\ wpc = "call" /\ wpc' = "test" /\ work_item' = NoItem
        /\ UNCHANGED <<stray, extra, open, queue, sem, posting, rel, dw, tcb, ops, threadVars>>
    BY <1>5 DEF WorkerCallReturns
  <2>2. TokensMatchItems'
    BY <2>1 DEF TokensMatchItems, Holding, ReleaseToken
  <2>3. WorkerLinked' /\ FreedAfterLoop'
    BY <2>1 DEF WorkerLinked, FreedAfterLoop, threadVars
  <2>4. work_item' \in Items
    BY <2>1 DEF NoItem, Items
  <2>5. QueueTypeOK'
    BY <2>1, <2>4 DEF QueueTypeOK, NodeTypeOK, threadVars
  <2>6. QED
    BY <2>1, <2>2, <2>3, <2>5
<1>6. QED
  BY <1>1, <1>2, <1>3, <1>4, <1>5 DEF WorkerStep

------------------------------------------------------------------------------
\* The thread manager's part of the worker's life preserves the invariant.
LEMMA WorkerThreadIInv == IInv /\ WorkerThread => IInv'
<1> SUFFICES ASSUME IInv, WorkerThread PROVE IInv'
  OBVIOUS
<1> USE WorkQueueAssumption DEF IInv, ClosedIsQuiet
<1>1. UNCHANGED <<stray, extra, open, queue, sem, posting, wpc, work_item, rel, dw, tcb, ops>>
  BY DEF WorkerThread, wqVars
<1>2. TokensMatchItems'
  BY <1>1 DEF TokensMatchItems, Holding, ReleaseToken
<1>3. NodeTypeOK
  BY DEF QueueTypeOK
<1>4. SUFFICES NodeTypeOK' /\ WorkerLinked' /\ FreedAfterLoop'
  <2>1. ASSUME NodeTypeOK' PROVE QueueTypeOK'
    BY <1>1, <2>1 DEF QueueTypeOK
  <2>2. QED
    BY <1>1, <1>2, <2>1
<1>5. CASE WrapStart(Worker)
  <2>1. tpc[Worker] = "born" /\ FreeAllDelThrdNode(Worker, "enter")
    BY <1>5 DEF WrapStart
  <2>2. thrdRunSta[Worker] \notin {"DELETE", "FREE"} /\ wpc = "off" /\ open
    BY <2>1 DEF WorkerLinked, FreedAfterLoop
  <2>3. Worker \notin FreedBy(Worker)
    BY <2>2, FreedIsDeletable
  <2>4. /\ NodeTypeOK' /\ tpc'[Worker] = "enter"
        /\ thrdRunSta'[Worker] = thrdRunSta[Worker]
    BY <1>3, <2>1, <2>3 DEF FreeAllDelThrdNode, NodeTypeOK
  <2>5. QED
    BY <1>1, <2>2, <2>4 DEF WorkerLinked, FreedAfterLoop
<1>6. CASE WrapCleanup(Worker)
  <2>1. tpc[Worker] = "cleanup" /\ FreeAllDelThrdNode(Worker, "none")
    BY <1>6 DEF WrapCleanup
  <2>2. wpc = "off"
    BY <2>1 DEF WorkerLinked
  <2>3. NodeTypeOK' /\ tpc'[Worker] = "none"
    BY <1>3, <2>1 DEF FreeAllDelThrdNode, NodeTypeOK
  <2>4. QED
    BY <1>1, <2>2, <2>3 DEF WorkerLinked, FreedAfterLoop
<1>7. CASE WrapSeesStop(Worker)
  <2>1. /\ tpc[Worker] = "await" /\ thrdRunSta[Worker] = "STOP"
        /\ tpc' = [tpc EXCEPT ![Worker] = "exit"] /\ thrdRunSta' = thrdRunSta
    BY <1>7 DEF WrapSeesStop
  <2>2. wpc = "off" /\ open
    BY <2>1 DEF WorkerLinked, FreedAfterLoop
  <2>3. NodeTypeOK' /\ tpc'[Worker] = "exit" /\ thrdRunSta'[Worker] = "STOP"
    BY <1>3, <2>1 DEF NodeTypeOK
  <2>4. QED
    BY <1>1, <2>2, <2>3 DEF WorkerLinked, FreedAfterLoop
<1>8. CASE WrapSetDelete(Worker)
  <2>1. /\ tpc[Worker] = "exit"
        /\ thrdRunSta' = [thrdRunSta EXCEPT ![Worker] = "DELETE"]
        /\ tpc' = [tpc EXCEPT ![Worker] = "cleanup"]
    BY <1>8 DEF WrapSetDelete
  <2>2. wpc = "off"
    BY <2>1 DEF WorkerLinked
  <2>3. NodeTypeOK' /\ tpc'[Worker] = "cleanup"
    BY <1>3, <2>1 DEF NodeTypeOK
  <2>4. QED
    BY <1>1, <2>2, <2>3 DEF WorkerLinked, FreedAfterLoop
<1>9. QED
  BY <1>5, <1>6, <1>7, <1>8 DEF WorkerThread

\* tal_workqueue_create preserves the invariant.
LEMMA CreateIInv == IInv /\ tal_workqueue_create => IInv'
<1> SUFFICES ASSUME IInv, tal_workqueue_create PROVE IInv'
  OBVIOUS
<1> USE WorkQueueAssumption DEF IInv, ClosedIsQuiet
<1>1. /\ tpc[Worker] = "none" /\ ~open /\ open' = TRUE /\ queue' = <<>> /\ sem' = 0
      /\ thrdRunSta' = [thrdRunSta EXCEPT ![Worker] = "EMPTY"]
      /\ tpc' = [tpc EXCEPT ![Worker] = "born"]
      /\ UNCHANGED <<stray, extra, posting, wpc, work_item, rel, dw, tcb, ops>>
  BY DEF tal_workqueue_create, tal_thread_create_and_start
<1>2. wpc = "off"
  BY <1>1 DEF WorkerLinked
<1>3. NodeTypeOK' /\ tpc'[Worker] = "born" /\ thrdRunSta'[Worker] = "EMPTY"
  BY <1>1 DEF QueueTypeOK, NodeTypeOK
<1>4. WorkerLinked' /\ FreedAfterLoop'
  BY <1>1, <1>2, <1>3 DEF WorkerLinked, FreedAfterLoop
<1>5. open' \in BOOLEAN /\ queue' \in Seq(Items) /\ sem' \in 0..queue_len
  BY <1>1
<1>6. QueueTypeOK'
  BY <1>1, <1>3, <1>5 DEF QueueTypeOK
<1>7. TokensMatchItems'
  BY <1>1, <1>2 DEF TokensMatchItems, QueueTypeOK, Holding, ReleaseToken
<1>8. QED
  BY <1>1, <1>4, <1>6, <1>7

\* tal_workqueue_release preserves the invariant: when the poll finds the thread
\* deleted or freed, the worker has left its loop and holds no count.
LEMMA ReleaseIInv == IInv /\ Release => IInv'
<1> SUFFICES ASSUME IInv, Release PROVE IInv'
  OBVIOUS
<1> USE WorkQueueAssumption DEF IInv
<1>1. CASE ReleaseDelete
  <2>1. /\ rel = "none" /\ rel' = "stop" /\ UNCHANGED <<thrdRunSta, tpc>>
        /\ UNCHANGED <<stray, extra, open, queue, sem, posting, wpc, work_item, dw, tcb, ops>>
    BY <1>1 DEF ReleaseDelete, tal_thread_delete
  <2>2. TokensMatchItems'
    BY <2>1 DEF TokensMatchItems, Holding, ReleaseToken
  <2>3. QueueTypeOK'
    BY <2>1 DEF QueueTypeOK, NodeTypeOK
  <2>4. QED
    BY <2>1, <2>2, <2>3 DEF WorkerLinked, FreedAfterLoop, ClosedIsQuiet
<1>2. CASE ReleaseAddDelNode
  <2>1. /\ rel = "stop" /\ rel' = "post" /\ tpc' = tpc
        /\ thrdRunSta' = [thrdRunSta EXCEPT ![Worker] = "STOP"]
        /\ UNCHANGED <<stray, extra, open, queue, sem, posting, wpc, work_item, dw, tcb, ops>>
    BY <1>2 DEF ReleaseAddDelNode, AddDelThrdNode
  <2>2. NodeTypeOK' /\ thrdRunSta'[Worker] = "STOP"
    BY <2>1 DEF QueueTypeOK, NodeTypeOK
  <2>3. TokensMatchItems'
    BY <2>1 DEF TokensMatchItems, Holding, ReleaseToken
  <2>4. QueueTypeOK'
    BY <2>1, <2>2 DEF QueueTypeOK
  <2>5. QED
    BY <2>1, <2>2, <2>3, <2>4 DEF WorkerLinked, FreedAfterLoop, ClosedIsQuiet
<1>3. CASE ReleasePost
  <2>1. /\ rel = "post" /\ rel' = "poll" /\ sem' = SemPost
        /\ UNCHANGED <<stray, extra, open, queue, posting, wpc, work_item, dw, tcb, ops, threadVars>>
    BY <1>3 DEF ReleasePost
  <2>2. sem' \in 0..queue_len /\ sem <= sem' /\ sem' <= sem + 1
    BY <2>1, SemPostBounds DEF QueueTypeOK
  <2>3. TokensMatchItems'
    BY <2>1, <2>2 DEF TokensMatchItems, QueueTypeOK, Holding, ReleaseToken
  <2>4. QueueTypeOK'
    BY <2>1, <2>2 DEF QueueTypeOK, NodeTypeOK, threadVars
  <2>5. QED
    BY <2>1, <2>3, <2>4 DEF WorkerLinked, FreedAfterLoop, ClosedIsQuiet, threadVars
<1>4. CASE tal_workqueue_release
  <2>1. /\ thrdRunSta[Worker] \in {"DELETE", "FREE"} /\ posting' = 0 /\ extra' = 0
        /\ open' = FALSE /\ queue' = <<>> /\ sem' = 0 /\ rel' = "none"
        /\ stray' = stray + posting
        /\ UNCHANGED <<wpc, work_item, dw, tcb, ops, threadVars>>
    BY <1>4 DEF tal_workqueue_release, ReleasePoll
  <2>2. wpc = "off" /\ tpc[Worker] \in {"none", "cleanup"}
    BY <2>1 DEF WorkerLinked
  <2>3. TokensMatchItems'
    BY <2>1, <2>2 DEF TokensMatchItems, Holding, ReleaseToken
  <2>4. WorkerLinked' /\ FreedAfterLoop' /\ ClosedIsQuiet'
    BY <2>1, <2>2 DEF WorkerLinked, FreedAfterLoop, ClosedIsQuiet, threadVars
  <2>5. open' \in BOOLEAN
    BY <2>1
  <2>6. queue' \in Seq(Items) /\ sem' \in 0..queue_len /\ stray' \in Nat
    BY <2>1 DEF QueueTypeOK
  <2>7. QueueTypeOK'
    BY <2>1, <2>5, <2>6 DEF QueueTypeOK, NodeTypeOK, threadVars
  <2>8. QED
    BY <2>3, <2>4, <2>7
<1>5. QED
  BY <1>1, <1>2, <1>3, <1>4 DEF Release

------------------------------------------------------------------------------
\* The inductive step.
LEMMA NextIInv == IInv /\ [Next]_vars => IInv'
<1> SUFFICES ASSUME IInv, [Next]_vars PROVE IInv'
  OBVIOUS
<1>1. CASE Next
  BY <1>1, CreateIInv, ScheduleIInv, SchedulePostIInv, StrayPostIInv, CancelIInv, DelayedIInv,
     WorkerStepIInv, WorkerThreadIInv, ReleaseIInv DEF Next
<1>2. CASE UNCHANGED vars
  <2>1. /\ UNCHANGED <<stray, extra, open, queue, sem, posting, wpc, work_item, rel, dw, tcb, ops>>
        /\ UNCHANGED threadVars
    BY <1>2 DEF vars, wqVars
  <2>2. TokensMatchItems'
    BY <2>1 DEF IInv, TokensMatchItems, Holding, ReleaseToken
  <2>3. QueueTypeOK'
    BY <2>1 DEF IInv, QueueTypeOK, NodeTypeOK, threadVars
  <2>4. QED
    BY <2>1, <2>2, <2>3, ThreadUntouched DEF IInv, ClosedIsQuiet
<1>3. QED
  BY <1>1, <1>2

\* The inductive invariant holds in every reachable state.
THEOREM InductiveInvariant == Spec => []IInv
<1>1. QED
  BY InitIInv, NextIInv, PTL DEF Spec

\* Whatever the capacity of the queue and however schedules, cancellations, delayed
\* works and the release interleave, no item is stranded without a semaphore count.
THEOREM TokensTheorem == Spec => []TokensMatchItems
<1>1. IInv => TokensMatchItems
  BY DEF IInv
<1>2. QED
  BY InductiveInvariant, <1>1, PTL

\* The queue's memory is never freed while the worker is in its loop.
THEOREM FreedAfterLoopTheorem == Spec => []FreedAfterLoop
<1>1. IInv => FreedAfterLoop
  BY DEF IInv
<1>2. QED
  BY InductiveInvariant, <1>1, PTL

------------------------------------------------------------------------------
(* At most one late item of a cancelled delayed work.                         *)

\* A cancellation makes no item live; of its own callback it leaves none.
LEMMA CancelledLive ==
    ASSUME queue \in Seq(Items), NEW cb, NEW data, NEW d \in DelayedWorks,
           queue' = Cancelled(cb, data)
    PROVE  Live(d)' \subseteq Live(d) /\ (cb = d => Live(d)' = {})
<1>1. /\ Len(queue') = Len(queue)
      /\ \A i \in 1..Len(queue) :
            queue'[i] = IF Matches(queue[i], cb, data) THEN [queue[i] EXCEPT !.cb = NULL]
                                                       ELSE queue[i]
  BY CancelledKeepsPlaces DEF Cancelled
<1>2. \A i \in 1..Len(queue) : queue[i] \in Items
  OBVIOUS
<1>3. d # NULL
  BY WorkQueueAssumption
<1>4. \A i \in 1..Len(queue) : queue'[i].cb = d => queue[i].cb = d /\ cb # d
  BY <1>1, <1>2, <1>3 DEF Matches, Items
<1>5. QED
  BY <1>1, <1>4 DEF Live

\* Any step preserves the property, given the types.
LEMMA LateStep == IInv /\ AtMostOneLateDelayed /\ [Next]_vars => AtMostOneLateDelayed'
<1> SUFFICES ASSUME IInv, AtMostOneLateDelayed, [Next]_vars,
                    NEW d \in DelayedWorks, dw'[d] = "none"
             PROVE  (\A i, j \in Live(d)' : i = j) /\ (tcb' = d => Live(d)' = {})
  BY DEF AtMostOneLateDelayed
<1> USE WorkQueueAssumption
<1>1. /\ queue \in Seq(Items) /\ Len(queue) \in Nat
      /\ dw \in [DelayedWorks -> {"none", "idle", "ONCE", "CYCLE", "deleted"}]
      /\ tcb \in DelayedWorks \cup {NULL} /\ d # NULL
  BY DEF IInv, QueueTypeOK
<1>2. dw[d] = "none" => (\A i, j \in Live(d) : i = j) /\ (tcb = d => Live(d) = {})
  BY DEF AtMostOneLateDelayed
<1>3. CASE UNCHANGED <<queue, dw, tcb>>
  BY <1>2, <1>3 DEF Live
<1>4. CASE queue' = <<>> /\ UNCHANGED <<dw, tcb>>
  BY <1>4 DEF Live
<1>5. CASE Schedule
  <2>1. PICK cb \in Cbs \ DelayedWorks, data \in Datas \cup {NULL} :
            tal_workqueue_schedule(cb, data) \/ tal_workqueue_schedule_instant(cb, data)
    BY <1>5 DEF Schedule
  <2> DEFINE item == [cb |-> cb, data |-> data]
  <2>2. item \in Items /\ item.cb # d /\ UNCHANGED <<dw, tcb>>
    BY <2>1 DEF Items, tal_workqueue_schedule, tal_workqueue_schedule_instant
  <2>3. CASE queue' = Append(queue, item)
    <3>1. Live(d)' = Live(d)
      BY <1>1, <2>2, <2>3 DEF Live
    <3>2. QED
      BY <1>2, <2>2, <3>1
  <2>4. CASE queue' = <<item>> \o queue
    <3>1. \A i \in Live(d)' : i \in Int /\ i - 1 \in Live(d)
      BY <1>1, <2>2, <2>4 DEF Live
    <3>2. \A i, j \in Live(d)' : i - 1 = j - 1 => i = j
      BY <3>1
    <3>3. QED
      BY <1>2, <2>2, <3>1, <3>2
  <2>5. QED
    BY <2>1, <2>3, <2>4 DEF tal_workqueue_schedule, tal_workqueue_schedule_instant, Input, Enqueue
<1>6. CASE Cancel
  <2>1. PICK cb, data : queue' = Cancelled(cb, data) /\ UNCHANGED <<dw, tcb>>
    BY <1>6 DEF Cancel, tal_workqueue_cancel
  <2>2. Live(d)' \subseteq Live(d)
    BY <1>1, <2>1, CancelledLive
  <2>3. QED
    BY <1>2, <2>1, <2>2
<1>7. CASE WorkerOutput
  <2>1. UNCHANGED <<dw, tcb>> /\ (queue' = queue \/ (queue # <<>> /\ queue' = Tail(queue)))
    BY <1>7 DEF WorkerOutput
  <2>2. CASE queue # <<>> /\ queue' = Tail(queue)
    <3>1. \A i \in Live(d)' : i \in Int /\ i + 1 \in Live(d)
      BY <1>1, <2>2 DEF Live
    <3>2. \A i, j \in Live(d)' : i + 1 = j + 1 => i = j
      BY <3>1
    <3>3. QED
      BY <1>2, <2>1, <3>1, <3>2
  <2>3. QED
    BY <1>3, <2>1, <2>2
<1>8. CASE DelayedWorkCb
  <2>1. tcb' = NULL /\ dw' = dw /\ tcb \in DelayedWorks
    BY <1>1, <1>8 DEF DelayedWorkCb
  <2>2. CASE queue' = queue
    BY <1>1, <1>2, <2>1, <2>2 DEF Live
  <2>3. CASE queue' = Append(queue, [cb |-> tcb, data |-> NULL])
    <3>1. \A i \in Live(d)' : i \in Live(d) \/ (i = Len(queue) + 1 /\ tcb = d)
      BY <1>1, <2>1, <2>3 DEF Live
    <3>2. QED
      BY <1>1, <1>2, <2>1, <3>1
  <2>4. QED
    BY <1>8, <2>2, <2>3 DEF DelayedWorkCb, Input, Enqueue
<1>9. ASSUME NEW e \in DelayedWorks,
             \/ tal_workqueue_init_delayed(e)
             \/ \E type \in {"ONCE", "CYCLE"} : tal_workqueue_start_delayed(e, type)
             \/ tal_workqueue_stop_delayed(e)
             \/ tal_workqueue_cancel_delayed(e)
             \/ DispatchDelayed(e)
      PROVE  (\A i, j \in Live(d)' : i = j) /\ (tcb' = d => Live(d)' = {})
  <2>1. queue' = queue
    BY <1>9 DEF tal_workqueue_init_delayed, tal_workqueue_start_delayed,
                tal_workqueue_stop_delayed, tal_workqueue_cancel_delayed,
                DispatchDelayed
  <2>2. dw[d] = "none" /\ (tcb' = d => tcb = d)
    BY <1>1, <1>9 DEF tal_workqueue_init_delayed, tal_workqueue_start_delayed,
                      tal_workqueue_stop_delayed, tal_workqueue_cancel_delayed,
                DispatchDelayed
  <2>3. QED
    BY <1>2, <2>1, <2>2 DEF Live
<1>10. ASSUME NEW e \in DelayedWorks, CancelDelayedQueued(e)
       PROVE  (\A i, j \in Live(d)' : i = j) /\ (tcb' = d => Live(d)' = {})
  <2>1. queue' = Cancelled(e, NULL) /\ dw' = [dw EXCEPT ![e] = "none"] /\ tcb' = tcb
    BY <1>10 DEF CancelDelayedQueued, CancelDelayedItems
  <2>2. Live(d)' \subseteq Live(d) /\ (e = d => Live(d)' = {})
    BY <1>1, <2>1, CancelledLive
  <2>3. e # d => dw[d] = "none"
    BY <1>1, <2>1
  <2>4. QED
    BY <1>2, <2>1, <2>2, <2>3
<1>11. CASE Delayed
  BY <1>8, <1>9, <1>10, <1>11 DEF Delayed
<1>12. CASE WorkerStep
  BY <1>3, <1>7, <1>12
     DEF WorkerStep, WorkerEnters, WorkerTest, WorkerWait, WorkerCallReturns
<1>13. CASE Release
  BY <1>3, <1>4, <1>13
     DEF Release, ReleaseDelete, ReleaseAddDelNode, ReleasePost, tal_workqueue_release
<1>14. QED
  BY <1>3, <1>4, <1>5, <1>6, <1>11, <1>12, <1>13
     DEF Next, tal_workqueue_create, SchedulePost, StrayPost, WorkerThread, wqVars, vars

\* However a cancellation of a delayed work races with its timer and with the
\* worker, once it has returned the worker has at most one item of it to take.
THEOREM AtMostOneLateTheorem == Spec => []AtMostOneLateDelayed
<1>1. Init => AtMostOneLateDelayed
  BY WorkQueueAssumption DEF Init, AtMostOneLateDelayed, Live
<1>2. QED
  BY <1>1, InductiveInvariant, LateStep, PTL DEF Spec

\* A step while the work stays cancelled: only the taking of the late item, which is
\* its last, puts the work in the worker's hands.
LEMMA LastStep ==
    ASSUME IInv, AtMostOneLateDelayed, [Next]_vars, NEW d \in DelayedWorks,
           dw[d] = "none", dw'[d] = "none"
    PROVE  /\ Late(d)' => Late(d)
           /\ InHand(d)' => InHand(d) \/ (Late(d) /\ ~Late(d)')
<1> USE WorkQueueAssumption
<1>1. /\ queue \in Seq(Items) /\ Len(queue) \in Nat
      /\ dw \in [DelayedWorks -> {"none", "idle", "ONCE", "CYCLE", "deleted"}]
      /\ tcb \in DelayedWorks \cup {NULL} /\ d # NULL
  BY DEF IInv, QueueTypeOK
<1>2. (\A i, j \in Live(d) : i = j) /\ (tcb = d => Live(d) = {})
  BY DEF AtMostOneLateDelayed
<1> DEFINE NothingTaken == UNCHANGED <<wpc, work_item>> \/ wpc' # "call"
<1>3. CASE (Late(d)' => Late(d)) /\ NothingTaken
  BY <1>3 DEF InHand
<1>4. CASE UNCHANGED <<queue, tcb>> /\ NothingTaken
  BY <1>3, <1>4 DEF Late, Live
<1>5. CASE queue' = <<>> /\ UNCHANGED tcb /\ NothingTaken
  BY <1>3, <1>5 DEF Late, Live
<1>6. CASE Schedule
  <2>1. PICK cb \in Cbs \ DelayedWorks, data \in Datas \cup {NULL} :
            tal_workqueue_schedule(cb, data) \/ tal_workqueue_schedule_instant(cb, data)
    BY <1>6 DEF Schedule
  <2> DEFINE item == [cb |-> cb, data |-> data]
  <2>2. item \in Items /\ item.cb # d /\ UNCHANGED <<tcb, wpc, work_item>>
    BY <2>1 DEF Items, tal_workqueue_schedule, tal_workqueue_schedule_instant
  <2>3. queue' = Append(queue, item) \/ queue' = <<item>> \o queue
    BY <2>1 DEF tal_workqueue_schedule, tal_workqueue_schedule_instant, Input, Enqueue
  <2>4. \A i \in Live(d)' : i \in Live(d) \/ i - 1 \in Live(d)
    BY <1>1, <2>2, <2>3 DEF Live
  <2>5. QED
    BY <1>3, <2>2, <2>4 DEF Late
<1>7. CASE Cancel
  <2>1. PICK cb, data : queue' = Cancelled(cb, data) /\ UNCHANGED <<tcb, wpc, work_item>>
    BY <1>7 DEF Cancel, tal_workqueue_cancel
  <2>2. Live(d)' \subseteq Live(d)
    BY <1>1, <2>1, CancelledLive
  <2>3. QED
    BY <1>3, <2>1, <2>2 DEF Late
<1>8. CASE WorkerOutput
  <2>1. tcb' = tcb
    BY <1>8 DEF WorkerOutput
  <2>2. CASE queue = <<>>
    BY <1>4, <1>8, <2>1, <2>2 DEF WorkerOutput
  <2>3. CASE queue # <<>>
    <3>1. /\ queue' = Tail(queue) /\ work_item' = Head(queue)
      BY <1>8, <2>3 DEF WorkerOutput
    <3>2. \A i \in Live(d)' : i \in Int /\ i >= 1 /\ i + 1 \in Live(d)
      BY <1>1, <2>3, <3>1 DEF Live
    <3>3. Late(d)' => Late(d)
      BY <2>1, <3>2 DEF Late
    <3>4. ASSUME work_item'.cb = d PROVE Late(d) /\ ~Late(d)'
      <4>1. 1 \in Live(d)
        BY <1>1, <2>3, <3>1, <3>4 DEF Live
      <4>2. tcb # d /\ \A i \in Live(d) : i = 1
        BY <1>2, <4>1
      <4>3. Live(d)' = {}
        BY <3>2, <4>2
      <4>4. QED
        BY <2>1, <4>1, <4>2, <4>3 DEF Late
    <3>5. QED
      BY <3>3, <3>4 DEF InHand
  <2>4. QED
    BY <2>2, <2>3
<1>9. CASE DelayedWorkCb
  <2>1. tcb' = NULL /\ tcb \in DelayedWorks /\ UNCHANGED <<wpc, work_item>>
    BY <1>1, <1>9 DEF DelayedWorkCb
  <2>2. \/ queue' = queue \/ queue' = Append(queue, [cb |-> tcb, data |-> NULL])
    BY <1>9 DEF DelayedWorkCb, Input, Enqueue
  <2>3. \A i \in Live(d)' : i \in Live(d) \/ tcb = d
    <3>1. CASE queue' = queue
      BY <3>1 DEF Live
    <3>2. CASE queue' = Append(queue, [cb |-> tcb, data |-> NULL])
      BY <1>1, <2>1, <3>2 DEF Live
    <3>3. QED
      BY <2>2, <3>1, <3>2
  <2>4. QED
    BY <1>1, <1>3, <2>1, <2>3 DEF Late
<1>10. ASSUME NEW e \in DelayedWorks,
              \/ tal_workqueue_init_delayed(e)
              \/ \E type \in {"ONCE", "CYCLE"} : tal_workqueue_start_delayed(e, type)
              \/ tal_workqueue_stop_delayed(e)
              \/ tal_workqueue_cancel_delayed(e)
              \/ DispatchDelayed(e)
              \/ CancelDelayedQueued(e)
       PROVE  (Late(d)' => Late(d)) /\ NothingTaken
  <2>1. /\ UNCHANGED <<wpc, work_item>> /\ (tcb' = d => tcb = d)
        /\ \/ queue' = queue \/ queue' = Cancelled(e, NULL)
    BY <1>1, <1>10 DEF tal_workqueue_init_delayed, tal_workqueue_start_delayed,
                       tal_workqueue_stop_delayed, tal_workqueue_cancel_delayed,
                       DispatchDelayed, CancelDelayedQueued, CancelDelayedItems
  <2>2. Live(d)' \subseteq Live(d)
    <3>1. CASE queue' = queue
      BY <3>1 DEF Live
    <3>2. CASE queue' = Cancelled(e, NULL)
      BY <1>1, <3>2, CancelledLive
    <3>3. QED
      BY <2>1, <3>1, <3>2
  <2>3. QED
    BY <2>1, <2>2 DEF Late
<1>11. CASE Delayed
  BY <1>3, <1>9, <1>10, <1>11 DEF Delayed
<1>12. CASE WorkerStep
  BY <1>4, <1>8, <1>12
     DEF WorkerStep, WorkerEnters, WorkerTest, WorkerWait, WorkerCallReturns
<1>13. CASE Release
  BY <1>4, <1>5, <1>13
     DEF Release, ReleaseDelete, ReleaseAddDelNode, ReleasePost, tal_workqueue_release
<1>14. QED
  BY <1>4, <1>5, <1>6, <1>7, <1>11, <1>12, <1>13
     DEF Next, tal_workqueue_create, SchedulePost, StrayPost, WorkerThread, wqVars, vars

\* The late run is the last: a cancelled work never gets anything more to run, the
\* late item is used up by being taken, and what the worker runs of the work besides
\* was in its hands before the cancellation returned.
THEOREM LateRunTheorem == Spec => LateRunIsLast
<1>1. IInv /\ AtMostOneLateDelayed /\ [Next]_vars
      => [\A d \in DelayedWorks :
             dw[d] = "none" /\ dw'[d] = "none" =>
                 /\ Late(d)' => Late(d)
                 /\ InHand(d)' => InHand(d) \/ (Late(d) /\ ~Late(d)')]_vars
  BY LastStep
<1>2. QED
  BY <1>1, InductiveInvariant, AtMostOneLateTheorem, PTL DEF Spec, LateRunIsLast

------------------------------------------------------------------------------
(* The thread manager's lists.                                                *)

LEMMA LeastExists ==
    ASSUME NEW I \in SUBSET Nat, I # {}
    PROVE  \E m \in I : \A j \in I : m <= j
<1> DEFINE R == {p \in Nat \X Nat : p[1] < p[2]}
<1>1. OpToRel(<, Nat) = R
  BY Zenon DEF OpToRel
<1>2. \E x \in I : \A y \in I : ~(<<y, x>> \in R)
  <2>1. IsWellFoundedOn(R, Nat)
    BY <1>1, NatLessThanWellFounded
  <2> HIDE DEF R
  <2>2. QED
    BY <2>1, WFMin
<1>3. PICK x \in I : \A y \in I : ~(<<y, x>> \in R)
  BY <1>2
<1>4. ASSUME NEW y \in I PROVE x <= y
  <2>1. x \in Nat /\ y \in Nat /\ ~(<<y, x>> \in R)
    BY <1>3
  <2>2. <<y, x>> \in R <=> y < x
    BY <2>1
  <2>3. QED
    BY <2>1, <2>2
<1>5. QED
  BY <1>4

\* The first m turns of the loop of __free_all_del_thrd_node, on the list l.
IsWalk(F, l, m) ==
    F = [i \in 0..m |->
            IF i = 0 THEN <<>>
            ELSE IF Deletable(l[i]) THEN F[i - 1] ELSE Append(F[i - 1], l[i])]

LEMMA WalkExists ==
    ASSUME NEW l, Len(l) \in Nat
    PROVE  \E F : IsWalk(F, l, Len(l))
<1> DEFINE Bad == {m \in 0..Len(l) : ~ \E F : IsWalk(F, l, m)}
<1>1. ASSUME Bad # {} PROVE FALSE
  <2>1. PICK m \in Bad : \A j \in Bad : m <= j
    <3>1. Bad \in SUBSET Nat /\ Bad # {}
      BY <1>1
    <3> HIDE DEF Bad
    <3>2. QED
      BY <3>1, LeastExists
  <2>2. CASE m = 0
    <3>1. PICK F : F = [i \in 0..0 |-> <<>>]
      OBVIOUS
    <3>2. \A i \in 0..0 : i = 0
      OBVIOUS
    <3>3. IsWalk(F, l, 0)
      BY <3>1, <3>2 DEF IsWalk
    <3>4. QED
      BY <2>1, <2>2, <3>3
  <2>3. CASE m # 0
    <3>1. PICK k \in 0..Len(l) : m = k + 1 /\ k \notin Bad
      BY <2>1, <2>3
    <3>2. PICK F : IsWalk(F, l, k)
      BY <3>1
    <3> DEFINE Turn(w, i) == IF Deletable(l[i]) THEN w ELSE Append(w, l[i])
    <3>3. PICK H : H = [i \in 0..m |-> IF i = m THEN Turn(F[k], m) ELSE F[i]]
      OBVIOUS
    <3>4. F = [i \in 0..k |-> IF i = 0 THEN <<>> ELSE Turn(F[i - 1], i)]
      BY <3>2, Zenon DEF IsWalk
    <3> HIDE DEF Turn
    <3>5. ASSUME NEW i \in 0..m PROVE H[i] = IF i = 0 THEN <<>> ELSE Turn(H[i - 1], i)
      <4>1. CASE i = m
        <5>1. H[i] = Turn(F[k], m) /\ H[k] = F[k] /\ i - 1 = k
          BY <2>3, <3>1, <3>3, <4>1
        <5>2. QED
          BY <2>3, <4>1, <5>1
      <4>2. CASE i # m
        <5>1. i \in 0..k /\ H[i] = F[i]
          BY <3>1, <3>3, <4>2
        <5>2. F[i] = IF i = 0 THEN <<>> ELSE Turn(F[i - 1], i)
          BY <3>4, <5>1
        <5>3. i # 0 => H[i - 1] = F[i - 1]
          BY <3>1, <3>3, <5>1
        <5>4. QED
          BY <5>1, <5>2, <5>3
      <4>3. QED
        BY <4>1, <4>2
    <3>6. H = [i \in 0..m |-> IF i = 0 THEN <<>> ELSE Turn(H[i - 1], i)]
      BY <3>3, <3>5
    <3>7. IsWalk(H, l, m)
      BY <3>6, Zenon DEF IsWalk, Turn
    <3>8. QED
      BY <2>1, <3>7
  <2>4. QED
    BY <2>2, <2>3
<1>2. QED
  BY <1>1

\* What __free_all_del_thrd_node leaves on the list were nodes of it.
LEMMA KeptType ==
    ASSUME del_list \in Seq(Threads)
    PROVE  Kept \in Seq(Threads)
<1>1. Len(del_list) \in Nat
  OBVIOUS
<1>2. PICK F : IsWalk(F, del_list, Len(del_list)) /\ Kept = F[Len(del_list)]
  <2>1. \E F : IsWalk(F, del_list, Len(del_list))
    BY <1>1, WalkExists
  <2>2. \E F : F = [i \in 0..Len(del_list) |->
                       IF i = 0 THEN <<>>
                       ELSE IF Deletable(del_list[i]) THEN F[i - 1]
                            ELSE Append(F[i - 1], del_list[i])]
    BY <2>1, Zenon DEF IsWalk
  <2>3. \E F : /\ F = [i \in 0..Len(del_list) |->
                          IF i = 0 THEN <<>>
                          ELSE IF Deletable(del_list[i]) THEN F[i - 1]
                               ELSE Append(F[i - 1], del_list[i])]
               /\ Kept = F[Len(del_list)]
    BY <2>2, Zenon DEF Kept
  <2>4. QED
    BY <2>3, Zenon DEF IsWalk
<1> DEFINE Bad == {m \in 0..Len(del_list) : F[m] \notin Seq(Threads)}
<1>3. ASSUME Bad # {} PROVE FALSE
  <2>1. PICK m \in Bad : \A j \in Bad : m <= j
    <3>1. Bad \in SUBSET Nat /\ Bad # {}
      BY <1>3
    <3> HIDE DEF Bad
    <3>2. QED
      BY <3>1, LeastExists
  <2>2. CASE m = 0
    <3>1. F[0] = <<>>
      BY <1>1, <1>2 DEF IsWalk
    <3>2. <<>> \in Seq(Threads)
      OBVIOUS
    <3>3. F[m] \in Seq(Threads)
      BY <2>2, <3>1, <3>2
    <3>4. QED
      BY <2>1, <3>3
  <2>3. CASE m # 0
    <3>1. PICK k \in 0..Len(del_list) : m = k + 1 /\ m - 1 = k /\ k \notin Bad
      BY <2>1, <2>3
    <3>2. PICK w \in Seq(Threads) : w = F[k]
      BY <3>1
    <3>3. m \in 1..Len(del_list)
      BY <2>1, <2>3
    <3>4. PICK n \in Threads : n = del_list[m]
      BY <3>3
    <3>5. F[m] = IF Deletable(n) THEN w ELSE Append(w, n)
      BY <1>2, <2>3, <3>1, <3>2, <3>3, <3>4 DEF IsWalk
    <3>6. Append(w, n) \in Seq(Threads)
      OBVIOUS
    <3>7. F[m] \in Seq(Threads)
      BY <3>5, <3>6
    <3>8. QED
      BY <2>1, <3>7
  <2>4. QED
    BY <2>2, <2>3
<1>4. QED
  BY <1>1, <1>2, <1>3

NodeListsOK ==
    s_all_thrd_mag \subseteq Threads /\ deleting \subseteq Threads /\ del_list \in Seq(Threads)

\* Every step keeps the thread manager's lists lists of nodes.
LEMMA NextNodeLists == NodeListsOK /\ [Next]_vars => NodeListsOK'
<1> SUFFICES ASSUME NodeListsOK, [Next]_vars PROVE NodeListsOK'
  OBVIOUS
<1>1. CASE UNCHANGED threadVars
  BY <1>1 DEF NodeListsOK, threadVars
<1>2. CASE tal_thread_create_and_start(Worker)
  BY <1>2, WorkQueueAssumption DEF NodeListsOK, tal_thread_create_and_start
<1>3. CASE WrapRun(Worker) \/ FuncReturns(Worker) \/ WrapSeesStop(Worker) \/ WrapSetDelete(Worker)
  BY <1>3 DEF NodeListsOK, WrapRun, FuncReturns, WrapSeesStop, WrapSetDelete
<1>4. CASE WrapStart(Worker) \/ WrapCleanup(Worker)
  <2>1. del_list' = Kept /\ UNCHANGED <<s_all_thrd_mag, deleting>>
    BY <1>4 DEF WrapStart, WrapCleanup, FreeAllDelThrdNode
  <2>2. QED
    BY <2>1, KeptType DEF NodeListsOK
<1>5. CASE tal_thread_delete(Worker)
  BY <1>5, WorkQueueAssumption DEF NodeListsOK, tal_thread_delete
<1>6. CASE AddDelThrdNode(Worker)
  BY <1>6, WorkQueueAssumption DEF NodeListsOK, AddDelThrdNode
<1>7. CASE UNCHANGED vars
  BY <1>1, <1>7 DEF vars
<1>8. CASE tal_workqueue_create
  BY <1>2, <1>8 DEF tal_workqueue_create
<1>9. CASE Schedule \/ SchedulePost \/ StrayPost \/ Cancel \/ Delayed
  <2>1. CASE Schedule
    BY <1>1, <2>1 DEF Schedule, tal_workqueue_schedule, tal_workqueue_schedule_instant, Input
  <2>2. CASE SchedulePost
    BY <1>1, <2>2 DEF SchedulePost
  <2>3. CASE Cancel
    BY <1>1, <2>3 DEF Cancel, tal_workqueue_cancel
  <2>4. CASE Delayed
    BY <1>1, <2>4 DEF Delayed, tal_workqueue_init_delayed, tal_workqueue_start_delayed,
                      tal_workqueue_stop_delayed, tal_workqueue_cancel_delayed,
                      CancelDelayedQueued, DispatchDelayed, DelayedWorkCb
  <2>5. CASE StrayPost
    BY <1>1, <2>5 DEF StrayPost
  <2>6. QED
    BY <1>9, <2>1, <2>2, <2>3, <2>4, <2>5
<1>10. CASE WorkerStep
  BY <1>1, <1>3, <1>10 DEF WorkerStep, WorkerEnters, WorkerTest, WorkerWait, WorkerOutput,
                           WorkerCallReturns
<1>11. CASE WorkerThread
  BY <1>3, <1>4, <1>11 DEF WorkerThread
<1>12. CASE Release
  BY <1>1, <1>5, <1>6, <1>12 DEF Release, ReleaseDelete, ReleaseAddDelNode, ReleasePost,
                                 tal_workqueue_release
<1>13. QED
  BY <1>7, <1>8, <1>9, <1>10, <1>11, <1>12 DEF Next

\* The queue, its worker and the thread manager's lists stay within their types: what
\* __free_all_del_thrd_node leaves on the deletion list are nodes.
THEOREM WorkQueueTypes == Spec => []TypeOK
<1>1. Init => NodeListsOK
  BY DEF Init, ThreadInit, NodeListsOK
<1>2. IInv /\ NodeListsOK => TypeOK
  BY DEF IInv, NodeListsOK, TypeOK
<1>3. QED
  BY <1>1, <1>2, InductiveInvariant, NextNodeLists, PTL DEF Spec
=============================================================================
