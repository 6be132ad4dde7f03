----------------------------- MODULE RequestBook -----------------------------
(***************************************************************************)
(* What an asynchronous request service promises its callers, whatever the *)
(* threads, lists and timers behind it: every request has at most one      *)
(* outcome, and the outcome is final.  An open request is answered, or     *)
(* reported as timed out, through one call of its callback, or closed      *)
(* without a call (the service went down, or the caller got an error).     *)
(***************************************************************************)
CONSTANT Requests

VARIABLE outcome

None == [r \in Requests |-> "none"]

Init == outcome = None

Open(r) ==
    /\ outcome[r] = "none"
    /\ outcome' = [outcome EXCEPT ![r] = "open"]

\* The one call of the callback.
Tell(r, what) ==
    /\ outcome[r] = "open"
    /\ outcome' = [outcome EXCEPT ![r] = what]

Close(r) ==
    /\ outcome[r] = "open"
    /\ outcome' = [outcome EXCEPT ![r] = "closed"]

Next ==
    \E r \in Requests :
        \/ Open(r) \/ Close(r)
        \/ \E what \in {"answered", "timedOut"} : Tell(r, what)

Spec == Init /\ [][Next]_outcome
==============================================================================
