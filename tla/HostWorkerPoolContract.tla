----------------------- MODULE HostWorkerPoolContract -----------------------
(***************************************************************************)
(* What the callers of a host worker pool may rely on: an accepted job     *)
(* runs to its end exactly once, at most Limit accepted jobs are           *)
(* unfinished at any time, and the pool is closed only after the last of   *)
(* them has ended.                                                         *)
(***************************************************************************)
EXTENDS Naturals, FiniteSets

CONSTANTS Job, Limit

VARIABLES status, open
vars == <<status, open>>

Unfinished == {j \in Job : status[j] = "accepted"}

Init == status = [j \in Job |-> "new"] /\ open = TRUE

Accept(j) ==
    /\ open
    /\ status[j] = "new"
    /\ Cardinality(Unfinished) < Limit
    /\ status' = [status EXCEPT ![j] = "accepted"]
    /\ UNCHANGED open

Reject(j) ==
    /\ open
    /\ status[j] = "new"
    /\ status' = [status EXCEPT ![j] = "rejected"]
    /\ UNCHANGED open

End(j) ==
    /\ status[j] = "accepted"
    /\ \E end \in {"returned", "panicked"} :
           status' = [status EXCEPT ![j] = end]
    /\ UNCHANGED open

Close == open /\ Unfinished = {} /\ open' = FALSE /\ UNCHANGED status

Next == (\E j \in Job : Accept(j) \/ Reject(j) \/ End(j)) \/ Close

Spec == Init /\ [][Next]_vars
=============================================================================
