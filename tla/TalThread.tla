------------------------------ MODULE TalThread ------------------------------
(***************************************************************************)
(* The thread manager of src/src/tal_system/src/tal_thread.c: the life of  *)
(* a THRD_MANAGE node from tal_thread_create_and_start to its release by   *)
(* whichever thread next runs __free_all_del_thrd_node.  Sections under    *)
(* s_del_thrd_mag->mutex are single steps.                                 *)
(***************************************************************************)
EXTENDS Integers, Sequences

CONSTANT Threads   \* the nodes tal_malloc can return, one per thread

VARIABLES
    thrdRunSta,      \* THREAD_STATE_* of an allocated node, or "FREE"
    tpc,             \* where the thread is in __WrapRunFunc; "none": not running
    s_all_thrd_mag,  \* nodes on the list of all threads
    del_list,        \* s_del_thrd_mag->list
    deleting         \* threads inside tal_thread_delete, between its two locks

threadVars == <<thrdRunSta, tpc, s_all_thrd_mag, del_list, deleting>>

ThreadInit ==
    /\ thrdRunSta = [t \in Threads |-> "FREE"]
    /\ tpc = [t \in Threads |-> "none"]
    /\ s_all_thrd_mag = {}
    /\ del_list = <<>>
    /\ deleting = {}

\* A failure of tkl_thread_create unlinks and frees the node: no change.
tal_thread_create_and_start(t) ==
    /\ thrdRunSta[t] = "FREE" /\ tpc[t] = "none"
    /\ thrdRunSta' = [thrdRunSta EXCEPT ![t] = "EMPTY"]
    /\ tpc' = [tpc EXCEPT ![t] = "born"]
    /\ s_all_thrd_mag' = s_all_thrd_mag \cup {t}
    /\ UNCHANGED <<del_list, deleting>>

(* __free_all_del_thrd_node, run by thread self: the nodes in state DELETE    *)
(* leave the list, every one but self's own is freed and its thread released  *)
(* (tkl_thread_release).  self's own node is freed after the loop, but only   *)
(* if the last node the loop visited was self: is_self keeps the answer for   *)
(* the last one.                                                              *)
Deletable(n) == thrdRunSta[n] = "DELETE"

FreedBy(self) ==
    LET gone == {i \in 1..Len(del_list) : Deletable(del_list[i])}
        selfIsLast == \E i \in gone : del_list[i] = self /\ \A j \in gone : j <= i
    IN  {n \in Threads : /\ \E i \in gone : del_list[i] = n
                         /\ n = self => selfIsLast}

Kept ==
    LET walk[i \in 0..Len(del_list)] ==
            IF i = 0 THEN <<>>
            ELSE IF Deletable(del_list[i]) THEN walk[i - 1] ELSE Append(walk[i - 1], del_list[i])
    IN  walk[Len(del_list)]

FreeAllDelThrdNode(self, next) ==
    /\ del_list' = Kept
    /\ thrdRunSta' = [t \in Threads |-> IF t \in FreedBy(self) THEN "FREE" ELSE thrdRunSta[t]]
    /\ tpc' = [t \in Threads |-> IF t = self THEN next
                                 ELSE IF t \in FreedBy(self) THEN "none" ELSE tpc[t]]
    /\ UNCHANGED <<s_all_thrd_mag, deleting>>

(* __WrapRunFunc, from its first line to its last.                            *)
WrapStart(t) == tpc[t] = "born" /\ FreeAllDelThrdNode(t, "enter")

WrapRun(t) ==
    /\ tpc[t] = "enter"
    /\ thrdRunSta' = [thrdRunSta EXCEPT ![t] = "RUNNING"]
    /\ tpc' = [tpc EXCEPT ![t] = "func"]
    /\ UNCHANGED <<s_all_thrd_mag, del_list, deleting>>

FuncReturns(t) ==
    /\ tpc[t] = "func"
    /\ tpc' = [tpc EXCEPT ![t] = "await"]
    /\ UNCHANGED <<thrdRunSta, s_all_thrd_mag, del_list, deleting>>

\* The polling loop ends when it reads THREAD_STATE_STOP; then exit() runs.
WrapSeesStop(t) ==
    /\ tpc[t] = "await" /\ thrdRunSta[t] = "STOP"
    /\ tpc' = [tpc EXCEPT ![t] = "exit"]
    /\ UNCHANGED <<thrdRunSta, s_all_thrd_mag, del_list, deleting>>

WrapSetDelete(t) ==
    /\ tpc[t] = "exit"
    /\ thrdRunSta' = [thrdRunSta EXCEPT ![t] = "DELETE"]
    /\ tpc' = [tpc EXCEPT ![t] = "cleanup"]
    /\ UNCHANGED <<s_all_thrd_mag, del_list, deleting>>

WrapCleanup(t) == tpc[t] = "cleanup" /\ FreeAllDelThrdNode(t, "none")

Wrap(t) ==
    WrapStart(t) \/ WrapRun(t) \/ WrapSeesStop(t) \/ WrapSetDelete(t) \/ WrapCleanup(t)

\* tal_thread_delete up to its unlock; a node in state EMPTY is refused.  A
\* handle is deleted once.
tal_thread_delete(t) ==
    /\ thrdRunSta[t] \notin {"FREE", "EMPTY"}
    /\ t \in s_all_thrd_mag
    /\ s_all_thrd_mag' = s_all_thrd_mag \ {t}
    /\ deleting' = deleting \cup {t}
    /\ UNCHANGED <<thrdRunSta, tpc, del_list>>

\* __add_del_thrd_node, under its own lock.
AddDelThrdNode(t) ==
    /\ t \in deleting
    /\ deleting' = deleting \ {t}
    /\ thrdRunSta' = [thrdRunSta EXCEPT ![t] = "STOP"]
    /\ del_list' = Append(del_list, t)
    /\ UNCHANGED <<tpc, s_all_thrd_mag>>

\* The manager alone: thread functions that return whenever they like.
ThreadNext ==
    \E t \in Threads :
        \/ tal_thread_create_and_start(t) \/ tal_thread_delete(t) \/ AddDelThrdNode(t)
        \/ Wrap(t) \/ FuncReturns(t)

ThreadSpec == ThreadInit /\ [][ThreadNext]_threadVars

------------------------------------------------------------------------------
\* Types of the nodes' fields.
NodeTypeOK ==
    /\ thrdRunSta \in [Threads -> {"FREE", "EMPTY", "RUNNING", "STOP", "DELETE"}]
    /\ tpc \in [Threads -> {"none", "born", "enter", "func", "await", "exit", "cleanup"}]

\* tal_thread_delete is to "stop and free" the thread: once a thread has run to
\* its end, which needs the deletion, its node has been freed.
DeletedThreadIsFreed ==
    \A t \in Threads : tpc[t] = "none" => thrdRunSta[t] = "FREE"
==============================================================================
