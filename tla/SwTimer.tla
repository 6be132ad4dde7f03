------------------------------- MODULE SwTimer -------------------------------
(***************************************************************************)
(* The software timers of src/src/tal_system/src/tal_sw_timer.c.           *)
(*                                                                         *)
(* One thread ("sys_timer") dispatches; every other thread, and the        *)
(* callbacks that sys_timer itself runs, call the API.  A section under    *)
(* s_timer_mgr.mutex is one step; the clock reading before the lock, the   *)
(* semaphore post after it and the callback, which all happen without the  *)
(* mutex, are steps of their own.                                          *)
(***************************************************************************)
EXTENDS Integers, SequencesExt

CONSTANTS
    Timers,            \* the TIMER_T addresses tal_calloc can return
    Apps,              \* the threads that use the API
    OwnedByCallback,   \* timers that only callbacks delete, never another thread
    Intervals,         \* the non-zero values of time_ms
    MaxTime,           \* bound: the clock stops here, "MaxTime or later"
    MaxOps,            \* bound: number of API calls on existing timers
    Forever,           \* SEM_WAIT_FOREVER
    NoTimer

TimerThread == "sys_timer"
Callers == Apps \cup {TimerThread}
Types == {"ONCE", "CYCLE"}

\* The semaphore of tal_sw_timer_init: count 0, maximum 2.
SemMax == 2

ASSUME SwTimerAssumption ==
    /\ OwnedByCallback \subseteq Timers
    /\ Intervals \subseteq Nat \ {0}
    /\ MaxTime \in Nat /\ MaxOps \in Nat
    /\ NoTimer \notin Timers /\ Forever \notin Nat
    /\ TimerThread \notin Apps

VARIABLES
    now,           \* tal_time_get_system_time, in ms
    timer,         \* the TIMER_T records, and whether each one is allocated
    list_active,   \* running timers, next to expire first
    list_standby,  \* the other allocated timers (their order is never read)
    total_cnt, running_cnt,
    sem,
    thr,           \* sys_timer: pc, its clock reading, its sleep, its current timer
    call,          \* what each caller still has to do of the API call it is in
    ops

vars == <<now, timer, list_active, list_standby, total_cnt, running_cnt, sem,
          thr, call, ops>>

Idle == [op |-> "idle", t |-> NoTimer]
Calloc == [alive |-> FALSE, expire_time |-> 0, interval |-> 0,
           is_running |-> FALSE, type |-> "ONCE"]

\* tal_sw_timer_init; the thread starts its first wait with SEM_WAIT_FOREVER.
Init ==
    /\ now = 0
    /\ timer = [t \in Timers |-> Calloc]
    /\ list_active = <<>> /\ list_standby = {}
    /\ total_cnt = 0 /\ running_cnt = 0
    /\ sem = 0
    /\ thr = [pc |-> "wait", nowMS |-> 0, next_expired |-> Forever,
              wakeAt |-> MaxTime, cur |-> NoTimer]
    /\ call = [c \in Callers |-> Idle]
    /\ ops = 0

------------------------------------------------------------------------------
(* tuya_list_del of a timer's node, and the bug of forgetting it.            *)
UnlinkedForgotten(active, t) == active
Unlinked(active, t) == RemoveFirst(active, t)

(* __timer_attach: t leaves the list it is on and is linked in front of the  *)
(* first timer that does not expire before it.                               *)
AttachAtTail(active, tm, t) == Append(Unlinked(active, t), t)
AttachTwice(active, tm, t) == <<t>> \o active
Attach(active, tm, t) ==
    LET rest == Unlinked(active, t)
        pos == SelectInSeq(rest, LAMBDA u : tm[u].expire_time >= tm[t].expire_time)
    IN  IF pos = 0 THEN Append(rest, t) ELSE InsertAt(rest, pos, t)

tal_sw_timer_is_running(t) == timer[t].is_running

tal_sw_timer_get_num == running_cnt

\* Of a timer that is not running the interval is returned in place of an error
\* code, and *remain_time keeps its value.
tal_sw_timer_remain_time_get(t, remain_time) ==
    [ret |-> IF tal_sw_timer_is_running(t) THEN 0 ELSE timer[t].interval,
     remain_time |-> IF ~tal_sw_timer_is_running(t) THEN remain_time
                     ELSE IF timer[t].expire_time > now THEN timer[t].expire_time - now ELSE 0]

------------------------------------------------------------------------------
(* The API.  A caller begins a call when it is in none, and sys_timer calls  *)
(* only from a callback.  A handle is not used once its deletion has begun,  *)
(* and is not deleted while another call on it is under way.                 *)
Ready(c) ==
    /\ call[c] = Idle
    /\ c = TimerThread => thr.pc = "callback"
    /\ ops < MaxOps

Usable(t) ==
    /\ timer[t].alive
    /\ \A c \in Callers : call[c].t = t => call[c].op # "free"

Begin(c, pending) ==
    /\ call' = [call EXCEPT ![c] = pending]
    /\ ops' = ops + 1

tal_sw_timer_create(c, t) ==
    /\ Ready(c) /\ ~timer[t].alive
    /\ timer' = [timer EXCEPT ![t] = [Calloc EXCEPT !.alive = TRUE]]
    /\ total_cnt' = total_cnt + 1
    /\ list_standby' = list_standby \cup {t}
    /\ UNCHANGED <<now, list_active, running_cnt, sem, thr, call, ops>>

\* tal_sw_timer_start, before the lock: the clock is read.
StartReadTime(c, t, time_ms, type) ==
    /\ Ready(c) /\ Usable(t)
    /\ Begin(c, [op |-> "start", t |-> t, at |-> now, ms |-> time_ms, type |-> type])
    /\ UNCHANGED <<now, timer, list_active, list_standby, total_cnt, running_cnt,
                   sem, thr>>

\* tal_sw_timer_start, under the lock.
tal_sw_timer_start(c) ==
    /\ call[c].op = "start"
    /\ LET t == call[c].t
           interval == IF call[c].ms # 0 THEN call[c].ms ELSE timer[t].interval
           tm == [timer EXCEPT ![t] = [@ EXCEPT
                    !.is_running = TRUE, !.interval = interval,
                    !.type = call[c].type, !.expire_time = call[c].at + interval]]
       IN  /\ timer' = tm
           /\ running_cnt' = running_cnt + IF timer[t].is_running THEN 0 ELSE 1
           /\ list_active' = Attach(list_active, tm, t)
           /\ list_standby' = list_standby \ {t}
           /\ call' = [call EXCEPT ![c] = [op |-> "post", t |-> t]]
    /\ UNCHANGED <<now, total_cnt, sem, thr, ops>>

tal_sw_timer_stop(c, t) ==
    /\ Ready(c) /\ Usable(t)
    /\ IF timer[t].is_running
       THEN /\ timer' = [timer EXCEPT ![t].is_running = FALSE]
            /\ running_cnt' = running_cnt - 1
            /\ list_active' = Unlinked(list_active, t)
            /\ list_standby' = list_standby \cup {t}
       ELSE UNCHANGED <<timer, running_cnt, list_active, list_standby>>
    /\ Begin(c, [op |-> "post", t |-> t])
    /\ UNCHANGED <<now, total_cnt, sem, thr>>

tal_sw_timer_trigger(c, t) ==
    /\ Ready(c) /\ Usable(t)
    /\ timer' = [timer EXCEPT ![t].expire_time = 0]
    /\ list_active' = IF timer[t].is_running
                      THEN <<t>> \o Unlinked(list_active, t)
                      ELSE list_active
    /\ Begin(c, [op |-> "post", t |-> t])
    /\ UNCHANGED <<now, list_standby, total_cnt, running_cnt, sem, thr>>

\* tal_sw_timer_delete, under the lock; the memory is freed after the post.
tal_sw_timer_delete(c, t) ==
    /\ Ready(c) /\ Usable(t)
    /\ t \in OwnedByCallback => c = TimerThread
    /\ \A d \in Callers : call[d].t # t
    /\ list_active' = Unlinked(list_active, t)
    /\ list_standby' = list_standby \ {t}
    /\ total_cnt' = total_cnt - 1
    /\ running_cnt' = running_cnt - IF timer[t].is_running THEN 1 ELSE 0
    /\ Begin(c, [op |-> "free", t |-> t])
    /\ UNCHANGED <<now, timer, sem, thr>>

\* tal_semaphore_post: a post at the maximum is lost.
SemPostForgotten == sem
SemPostUnbounded == sem + 1
SemPost == IF sem < SemMax THEN sem + 1 ELSE sem

\* The end of every call: the post, then, for a deletion, tal_free.
PostAndReturn(c) ==
    /\ call[c].op \in {"post", "free"}
    /\ sem' = SemPost
    /\ timer' = IF call[c].op = "free"
                THEN [timer EXCEPT ![call[c].t] = Calloc]
                ELSE timer
    /\ call' = [call EXCEPT ![c] = Idle]
    /\ UNCHANGED <<now, list_active, list_standby, total_cnt, running_cnt, thr, ops>>

------------------------------------------------------------------------------
(* sys_timer: __timer_thread_cb waits, __timer_dispatch runs due timers one   *)
(* at a time until the head of the active list is not due.                    *)
WaitReturns ==
    /\ thr.pc = "wait"
    /\ \/ sem > 0 /\ sem' = sem - 1
       \/ thr.next_expired # Forever /\ now >= thr.wakeAt /\ sem' = sem
    /\ thr' = [thr EXCEPT !.pc = "dispatch", !.next_expired = Forever,
                       !.nowMS = 0, !.wakeAt = MaxTime]
    /\ UNCHANGED <<now, timer, list_active, list_standby, total_cnt, running_cnt,
                   call, ops>>

DispatchReadTime ==
    /\ thr.pc = "dispatch"
    /\ thr' = [thr EXCEPT !.pc = "lock", !.nowMS = now]
    /\ UNCHANGED <<now, timer, list_active, list_standby, total_cnt, running_cnt,
                   sem, call, ops>>

\* The loop ends: the next tal_semaphore_wait takes the time left to the head.
SleepForever(next) == thr' = [thr EXCEPT !.pc = "wait", !.next_expired = Forever]
Sleep(next) ==
    thr' = [thr EXCEPT !.pc = "wait", !.next_expired = next,
                       !.wakeAt = IF next # Forever /\ now + next < MaxTime
                                  THEN now + next ELSE MaxTime]

\* Nothing is due.
DispatchNothingDue ==
    /\ thr.pc = "lock"
    /\ \/ list_active = <<>> /\ Sleep(thr.next_expired)
       \/ /\ list_active # <<>>
          /\ timer[Head(list_active)].expire_time > thr.nowMS
          /\ Sleep(timer[Head(list_active)].expire_time - thr.nowMS)
    /\ UNCHANGED <<now, timer, list_active, list_standby, total_cnt, running_cnt,
                   sem, call, ops>>

\* The head is due: a one-shot timer goes to standby, a cyclic one is re-armed.
DispatchDue ==
    /\ thr.pc = "lock" /\ list_active # <<>>
    /\ LET t == Head(list_active)
           tm == [timer EXCEPT ![t].expire_time = thr.nowMS + timer[t].interval]
       IN  /\ timer[t].expire_time <= thr.nowMS
           /\ IF timer[t].type = "ONCE"
              THEN /\ timer' = [timer EXCEPT ![t].is_running = FALSE]
                   /\ running_cnt' = running_cnt - 1
                   /\ list_active' = Tail(list_active)
                   /\ list_standby' = list_standby \cup {t}
              ELSE /\ timer' = tm
                   /\ list_active' = Attach(list_active, tm, t)
                   /\ UNCHANGED <<running_cnt, list_standby>>
           /\ thr' = [thr EXCEPT !.pc = "unlocked", !.cur = t]
    /\ UNCHANGED <<now, total_cnt, sem, call, ops>>

\* timer_cb(timer->timer_id, timer->data): the arguments are read from the timer
\* after the unlock (undefined if it has been freed); control does not depend on
\* them.
CallbackEnter ==
    /\ thr.pc = "unlocked"
    /\ thr' = [thr EXCEPT !.pc = "callback"]
    /\ UNCHANGED <<now, timer, list_active, list_standby, total_cnt, running_cnt,
                   sem, call, ops>>

CallbackReturn ==
    /\ thr.pc = "callback" /\ call[TimerThread] = Idle
    /\ thr' = [thr EXCEPT !.pc = "dispatch", !.cur = NoTimer, !.nowMS = 0]
    /\ UNCHANGED <<now, timer, list_active, list_standby, total_cnt, running_cnt,
                   sem, call, ops>>

Tick ==
    /\ now < MaxTime
    /\ now' = now + 1
    /\ UNCHANGED <<timer, list_active, list_standby, total_cnt, running_cnt, sem,
                   thr, call, ops>>

------------------------------------------------------------------------------
ApiCall(c) ==
    \/ \E t \in Timers :
          \/ tal_sw_timer_create(c, t)
          \/ tal_sw_timer_stop(c, t)
          \/ tal_sw_timer_trigger(c, t)
          \/ tal_sw_timer_delete(c, t)
          \/ \E ms \in Intervals \cup {0}, type \in Types : StartReadTime(c, t, ms, type)

FinishCall(c) == tal_sw_timer_start(c) \/ PostAndReturn(c)

SysTimer ==
    \/ WaitReturns \/ DispatchReadTime \/ DispatchNothingDue \/ DispatchDue
    \/ CallbackEnter \/ CallbackReturn

Next == Tick \/ SysTimer \/ \E c \in Callers : ApiCall(c) \/ FinishCall(c)

(* Time passes; sys_timer runs at THREAD_PRIO_0, the highest, and its         *)
(* callbacks return; a thread inside an API call finishes it.                 *)
Fairness ==
    /\ WF_vars(Tick)
    /\ WF_vars(SysTimer)
    /\ \A c \in Callers : WF_vars(FinishCall(c))

Spec == Init /\ [][Next]_vars /\ Fairness

------------------------------------------------------------------------------
Due(t) ==
    /\ timer[t].alive /\ tal_sw_timer_is_running(t)
    /\ tal_sw_timer_remain_time_get(t, 0).remain_time = 0
Overdue(t) == Due(t) /\ timer[t].expire_time < now

\* Types of all variables.
TypeOK ==
    /\ now \in 0..MaxTime /\ ops \in 0..MaxOps
    /\ timer \in [Timers -> [alive : BOOLEAN, expire_time : Nat, interval : Nat,
                             is_running : BOOLEAN, type : Types]]
    /\ list_active \in Seq(Timers) /\ list_standby \subseteq Timers
    /\ total_cnt \in Nat /\ running_cnt \in Nat
    /\ sem \in 0..SemMax
    /\ thr \in [pc : {"wait", "dispatch", "lock", "unlocked", "callback"},
                nowMS : 0..MaxTime, next_expired : Nat \cup {Forever},
                wakeAt : 0..MaxTime, cur : Timers \cup {NoTimer}]
    /\ \A c \in Callers : /\ call[c].op \in {"idle", "start", "post", "free"}
                          /\ call[c].t \in Timers \cup {NoTimer}

\* list_active is ordered by expire_time, whatever starts with stale clock
\* readings, triggers and re-arms came in between: the head is always a timer
\* that expires first, the only one __timer_dispatch looks at.
ActiveSorted ==
    \A i, j \in 1..Len(list_active) :
        i < j => timer[list_active[i]].expire_time <= timer[list_active[j]].expire_time

\* The two lists partition the timers not yet unlinked, is_running says which
\* list a timer is on, and total_cnt and the number tal_sw_timer_get_num reports
\* agree with the lists: a stop, a start or a trigger that races the dispatch of
\* the same timer loses or counts none twice.
ListsAgree ==
    LET linked == {t \in Timers : timer[t].alive /\ \A c \in Callers : call[c] # [op |-> "free", t |-> t]}
    IN  /\ ToSet(list_active) \cap list_standby = {}
        /\ ToSet(list_active) \cup list_standby = linked
        /\ \A t \in linked : tal_sw_timer_is_running(t) <=> t \in ToSet(list_active)
        /\ tal_sw_timer_get_num = Cardinality(ToSet(list_active))
        /\ running_cnt = Len(list_active)
        /\ total_cnt = Cardinality(linked)

\* No lost wake-up: while sys_timer sleeps on an empty semaphore and no call is
\* about to post, the sleep it computed is no longer than the time the head of
\* the active list still had at that computation.
NoOversleep ==
    (/\ thr.pc = "wait" /\ sem = 0
     /\ \A c \in Callers : call[c].op \notin {"post", "free"})
    => \/ list_active = <<>>
       \/ /\ thr.next_expired # Forever
          /\ thr.nowMS + thr.next_expired <= timer[Head(list_active)].expire_time

\* The callback's arguments are read from a timer that still exists, for every
\* timer that is deleted only from callbacks: the read after the unlock is safe
\* under that discipline (and only under it).
CallbackOnLiveTimer ==
    thr.pc = "unlocked" /\ thr.cur \in OwnedByCallback => timer[thr.cur].alive

\* A timer whose time has passed is dispatched, restarted, stopped or deleted: none
\* is held up for ever by a sleeping thread, nor by a cyclic timer of interval 0,
\* which is due again as soon as it is re-armed and keeps sys_timer in its loop.
DueIsDispatched == \A t \in Timers : Overdue(t) ~> thr.cur = t \/ ~Overdue(t)
==============================================================================
