------------------------------ MODULE JobLedger ------------------------------
(***************************************************************************)
(* What the durable queue promises to the code that enqueues jobs, without *)
(* workers, locks, attempts, time or faults: a job is accepted unless it   *)
(* clashes with a pending one, its handler returns any number of times     *)
(* while it is pending, and it is settled once, as succeeded only if its   *)
(* handler has returned.                                                   *)
(***************************************************************************)
CONSTANTS
    Jobs,      \* ids of accepted jobs
    Requests,  \* what can be asked for
    Clash      \* pairs of requests of which only one may be pending

VARIABLES
    state,     \* "absent", "pending", or how the job was settled
    work,      \* the request each job was accepted for
    ran        \* jobs whose handler returned

vars == <<state, work, ran>>

Outcomes == {"succeeded", "failed"}

Init ==
    /\ state = [j \in Jobs |-> "absent"]
    /\ work \in [Jobs -> Requests]
    /\ ran = {}

Accept(j, r) ==
    /\ state[j] = "absent"
    /\ \A k \in Jobs : state[k] = "pending" => <<work[k], r>> \notin Clash
    /\ state' = [state EXCEPT ![j] = "pending"]
    /\ work' = [work EXCEPT ![j] = r]
    /\ UNCHANGED ran

Execute(j) ==
    /\ state[j] = "pending"
    /\ ran' = ran \union {j}
    /\ UNCHANGED <<state, work>>

Settle(j, s) ==
    /\ state[j] = "pending"
    /\ s = "succeeded" => j \in ran
    /\ state' = [state EXCEPT ![j] = s]
    /\ UNCHANGED <<work, ran>>

Next ==
    \E j \in Jobs : \/ \E r \in Requests : Accept(j, r)
                    \/ Execute(j)
                    \/ \E s \in Outcomes : Settle(j, s)

Spec == Init /\ [][Next]_vars
=============================================================================
