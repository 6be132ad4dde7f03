------------------------------ MODULE TalEvent ------------------------------
(***************************************************************************)
(* The publish/subscribe bus of src/src/tal_system/src/tal_event.c.        *)
(*                                                                         *)
(* _event_node_get walks the list of events without a lock, so every call  *)
(* is a look-up step and, later, a step under the manager's mutex (no such *)
(* event) or under the event's mutex (event found).  A publisher holds the *)
(* event's mutex over all the callbacks, which are steps of their own.     *)
(***************************************************************************)
EXTENDS Integers, SequencesExt

CONSTANTS
    Threads,    \* the callers
    Names,      \* event names
    Subs,       \* subscribers: a (desc, cb) pair each
    SubName,    \* the event each subscribes to
    SubType,    \* "NORMAL", "EMERGENCY" or "ONETIME"
    None,
    MaxOps      \* bound: number of API calls

ASSUME TalEventAssumption ==
    /\ SubName \in [Subs -> Names]
    /\ SubType \in [Subs -> {"NORMAL", "EMERGENCY", "ONETIME"}]
    /\ None \notin Subs \cup Threads
    /\ MaxOps \in Nat

VARIABLES
    event_root,           \* EVENT_NODE_T: name, subscribe_root, holder of the mutex
    free_subscribe_root,  \* subscribers that found no event
    th,                   \* the call each thread is in
    adds, calls,          \* history: subscriptions entered, and callbacks made
    ops

vars == <<event_root, free_subscribe_root, th, adds, calls, ops>>

Idle == [pc |-> "idle"]

\* tal_event_init
Init ==
    /\ event_root = <<>> /\ free_subscribe_root = <<>>
    /\ th = [t \in Threads |-> Idle]
    /\ adds = [s \in Subs |-> 0] /\ calls = [s \in Subs |-> 0]
    /\ ops = 0

Goto(t, rec) == th' = [th EXCEPT ![t] = rec]
Begin(t) == th[t] = Idle /\ ops < MaxOps /\ ops' = ops + 1

------------------------------------------------------------------------------
(* _event_node_get: the first node of that name, or 0.                        *)
EventNodeGet(name) == SelectInSeq(event_root, LAMBDA e : e.name = name)

\* Where a new entry goes: an emergency one to the head, another to the tail.
AddEntryAtTail(root, s) == Append(root, s)
AddEntry(root, s) == IF SubType[s] = "EMERGENCY" THEN <<s>> \o root ELSE Append(root, s)

(* _event_node_create_init walks the free subscribers once: w.subs is the new *)
(* node's list so far, w.free what stays free.                                *)
Adopt(w, s, name) ==
    IF SubName[s] = name THEN [w EXCEPT !.subs = AddEntry(@, s)]
    ELSE [w EXCEPT !.free = Append(@, s)]

Adopted(free, name) ==
    LET walk[i \in 0..Len(free)] ==
            IF i = 0 THEN [subs |-> <<>>, free |-> <<>>]
            ELSE Adopt(walk[i - 1], free[i], name)
    IN  walk[Len(free)]

EventNodeCreateInit(t) ==
    /\ th[t].pc = "create"
    /\ LET w == Adopted(free_subscribe_root, th[t].name)
       IN  /\ event_root' = Append(event_root, [name |-> th[t].name, owner |-> None,
                                                subs |-> w.subs])
           /\ free_subscribe_root' = w.free
    /\ Goto(t, [pc |-> "publish", node |-> Len(event_root) + 1])
    /\ UNCHANGED <<adds, calls, ops>>

------------------------------------------------------------------------------
(* tal_event_publish.                                                         *)
tal_event_publish(t, name) ==
    /\ Begin(t)
    /\ Goto(t, IF EventNodeGet(name) = 0
               THEN [pc |-> "create", name |-> name]
               ELSE [pc |-> "publish", node |-> EventNodeGet(name)])
    /\ UNCHANGED <<event_root, free_subscribe_root, adds, calls>>

\* The entry after s in the list, or None at its end.
After(root, s) ==
    LET i == SelectInSeq(root, LAMBDA u : u = s)
    IN  IF i \in 1..(Len(root) - 1) THEN root[i + 1] ELSE None
First(root) == IF root = <<>> THEN None ELSE Head(root)

\* tal_mutex_lock of the event, which its callbacks do not ask for.
CanLockAlways(i) == TRUE
CanLock(i) == event_root[i].owner = None

\* Lock the event; the walk starts with p and its successor n already read.
PublishLock(t) ==
    /\ th[t].pc = "publish" /\ CanLock(th[t].node)
    /\ LET i == th[t].node
           root == event_root[i].subs
       IN  /\ event_root' = [event_root EXCEPT ![i].owner = t]
           /\ Goto(t, [pc |-> "dispatch", node |-> i, p |-> First(root),
                       n |-> After(root, First(root)), due |-> root, got |-> <<>>])
    /\ UNCHANGED <<free_subscribe_root, adds, calls, ops>>

(* One turn of the loop of _event_node_dispatch: the callback of p runs, the  *)
(* loop removes a one-time entry after it, and p moves to n.  Callbacks do    *)
(* not unsubscribe themselves (entry->type is read after the callback).       *)
DispatchedKept(s, root) == root
Dispatched(s, root) == IF SubType[s] = "ONETIME" THEN RemoveFirst(root, s) ELSE root

DispatchOne(t) ==
    /\ th[t].pc = "dispatch" /\ th[t].p # None
    /\ LET s == th[t].p
           i == th[t].node
       IN  /\ event_root' = [event_root EXCEPT ![i].subs = Dispatched(s, @)]
           /\ calls' = [calls EXCEPT ![s] = @ + 1]
           /\ Goto(t, [th[t] EXCEPT !.p = th[t].n, !.got = Append(@, s),
                          !.n = After(event_root[i].subs, th[t].n)])
    /\ UNCHANGED <<free_subscribe_root, adds, ops>>

PublishUnlockForgotten(t) ==
    /\ th[t].pc = "dispatch" /\ th[t].p = None
    /\ Goto(t, Idle)
    /\ UNCHANGED <<event_root, free_subscribe_root, adds, calls, ops>>
PublishUnlock(t) ==
    /\ th[t].pc = "dispatch" /\ th[t].p = None
    /\ event_root' = [event_root EXCEPT ![th[t].node].owner = None]
    /\ Goto(t, Idle)
    /\ UNCHANGED <<free_subscribe_root, adds, calls, ops>>

------------------------------------------------------------------------------
(* tal_event_subscribe and tal_event_unsubscribe: look up, then work on the   *)
(* list that the look-up chose.                                               *)
Lookup(t, op, s) ==
    /\ Begin(t)
    /\ Goto(t, [pc |-> op, sub |-> s, node |-> EventNodeGet(SubName[s])])
    /\ UNCHANGED <<event_root, free_subscribe_root, adds, calls>>

tal_event_subscribe(t, s) == Lookup(t, "subscribe", s)
tal_event_unsubscribe(t, s) == Lookup(t, "unsubscribe", s)

AddFreeSubscribe(t) ==
    /\ th[t].pc = "subscribe" /\ th[t].node = 0
    /\ LET s == th[t].sub
           known == Contains(free_subscribe_root, s)
       IN  /\ free_subscribe_root' =
                 IF known THEN free_subscribe_root ELSE Append(free_subscribe_root, s)
           /\ adds' = [adds EXCEPT ![s] = @ + IF known THEN 0 ELSE 1]
    /\ Goto(t, Idle)
    /\ UNCHANGED <<event_root, calls, ops>>

AddSubscribe(t) ==
    /\ th[t].pc = "subscribe" /\ th[t].node # 0 /\ CanLock(th[t].node)
    /\ LET s == th[t].sub
           known == Contains(event_root[th[t].node].subs, s)
       IN  /\ event_root' = [event_root EXCEPT ![th[t].node].subs =
                                IF known THEN @ ELSE AddEntry(@, s)]
           /\ adds' = [adds EXCEPT ![s] = @ + IF known THEN 0 ELSE 1]
    /\ Goto(t, Idle)
    /\ UNCHANGED <<free_subscribe_root, calls, ops>>

DelFreeSubscribe(t) ==
    /\ th[t].pc = "unsubscribe" /\ th[t].node = 0
    /\ free_subscribe_root' = RemoveFirst(free_subscribe_root, th[t].sub)
    /\ Goto(t, Idle)
    /\ UNCHANGED <<event_root, adds, calls, ops>>

DelSubscribe(t) ==
    /\ th[t].pc = "unsubscribe" /\ th[t].node # 0 /\ CanLock(th[t].node)
    /\ event_root' = [event_root EXCEPT ![th[t].node].subs = RemoveFirst(@, th[t].sub)]
    /\ Goto(t, Idle)
    /\ UNCHANGED <<free_subscribe_root, adds, calls, ops>>

------------------------------------------------------------------------------
Call(t) ==
    \/ \E name \in Names : tal_event_publish(t, name)
    \/ \E s \in Subs : tal_event_subscribe(t, s) \/ tal_event_unsubscribe(t, s)

Finish(t) ==
    \/ EventNodeCreateInit(t) \/ PublishLock(t) \/ PublishUnlock(t)
    \/ DispatchOne(t)
    \/ AddFreeSubscribe(t) \/ AddSubscribe(t)
    \/ DelFreeSubscribe(t) \/ DelSubscribe(t)

Next == \E t \in Threads : Call(t) \/ Finish(t)

\* Callbacks return and threads inside a call are scheduled.
Fairness == \A t \in Threads : WF_vars(Finish(t))

Spec == Init /\ [][Next]_vars /\ Fairness

------------------------------------------------------------------------------
\* Types of all variables; a mutex is held by the thread that dispatches under it
\* and by no other.
TypeOK ==
    /\ \A i \in 1..Len(event_root) :
          /\ event_root[i] \in [name : Names, subs : Seq(Subs), owner : Threads \cup {None}]
          /\ \A t \in Threads :
                event_root[i].owner = t <=> th[t].pc = "dispatch" /\ th[t].node = i
    /\ free_subscribe_root \in Seq(Subs)
    /\ \A t \in Threads :
          th[t].pc \in {"idle", "create", "publish", "dispatch", "subscribe", "unsubscribe"}
    /\ \A s \in Subs : adds[s] \in Nat /\ calls[s] \in Nat
    /\ ops \in 0..MaxOps

\* "emergency type, dispatch first": in every event's list the emergency
\* subscribers are in front of the others, whether they were there before the
\* event or came later.
EmergencyAhead ==
    \A k \in 1..Len(event_root) :
        LET root == event_root[k].subs
        IN  \A i, j \in 1..Len(root) :
               i < j /\ SubType[root[j]] = "EMERGENCY" => SubType[root[i]] = "EMERGENCY"

\* "remove after first time dispath": a one-time subscriber is called at most once
\* for each time it was entered, even when several threads publish its event, and
\* even when two of them created a node of the same name.
OneTimeOnce ==
    \A s \in Subs : SubType[s] = "ONETIME" => calls[s] <= adds[s]

\* When a publisher leaves the event, its walk has called exactly the subscribers
\* that were on the list when it locked it, each once and in list order: other
\* threads that subscribe, unsubscribe or publish in between do not make it skip,
\* repeat or lose its place.
DispatchComplete ==
    \A t \in Threads :
        th[t].pc = "dispatch" /\ th[t].p = None => th[t].got = th[t].due

\* Every call returns: no mutex stays locked.
CallsReturn == \A t \in Threads : (th[t] # Idle) ~> (th[t] = Idle)

\* The list of subscribers "which not found the event" holds no subscriber whose
\* event exists.
FreeSubscriberHasNoEvent ==
    \A s \in ToSet(free_subscribe_root) : EventNodeGet(SubName[s]) = 0
==============================================================================
