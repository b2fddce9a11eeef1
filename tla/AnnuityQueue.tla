---------------------------- MODULE AnnuityQueue ----------------------------
(***************************************************************************)
(* The annuity workflow sync queue (services/annuity/annuity_sync_queue.py) *)
(* with its two producers (services/workflow/deferred_task_sync.py and     *)
(* services/annuity/annuity_listeners.py) and its two consumers: the       *)
(* durable job annuity.workflow_sync for a set of matters, and the         *)
(* scheduler's sweep.                                                      *)
(*                                                                         *)
(* The annuities of a matter are a version number, flows the version its   *)
(* workflows were rebuilt from.  Matter ids are numbers, for their order.  *)
(* Timestamps are relative to now; a token is used again only when no row  *)
(* carries it.  The durable queue is reduced to what the producers use: at *)
(* most one active job per payload, run again after a crash.               *)
(***************************************************************************)
EXTENDS Integers, FiniteSets, FiniteSetsExt

CONSTANTS
    Matters, Drains, NoToken,
    MaxAttempts, LockTimeout, BackoffBase, BackoffCap,
    Timely,        \* TRUE: heartbeats arrive before a lock times out
    Faults,        \* subset of {"crash", "db"}
    MaxFaults,     \* bound on those
    MaxChanges     \* bound on the changing transactions

VARIABLES
    data, flows,                             \* version of the annuities, and of the workflows
    torn,                                    \* part of a rebuild was committed
    queued, attempts, delay, lockAge, token, \* annuity_workflow_sync_queue
    dead,                                    \* number of dead letters
    jobs,                                    \* annuity.workflow_sync jobs by payload
    pc, loop, rest, cur,  \* per drain: where it is, its loop, ids not begun, row in hand
    job, served,          \* payload of its job, and history: the ids it has locked
    read, dirty, lost,    \* version read; what the session holds uncommitted; lost lock
    changes, faults

rowVars   == <<queued, attempts, delay, lockAge, token>>
drainVars == <<pc, loop, rest, cur, job, served, read, dirty, lost>>
vars      == <<data, flows, torn, rowVars, dead, jobs, drainVars, changes, faults>>

ASSUME ConstantsAssumption ==
    /\ Matters \subseteq Nat /\ NoToken \notin Drains
    /\ MaxAttempts \in Nat \ {0} /\ LockTimeout \in Nat \ {0}
    /\ BackoffBase \in Nat /\ BackoffCap \in Nat
    /\ MaxFaults \in Nat /\ MaxChanges \in Nat /\ Timely \in BOOLEAN

NoLock   == -1
StaleAge == LockTimeout + 1
Payloads == (SUBSET Matters) \ {{}}

Least(x, y) == IF x < y THEN x ELSE y

\* _compute_backoff_seconds.
BackoffOf(n) == Least(BackoffCap, BackoffBase * 2 ^ (IF n > 1 THEN n - 1 ELSE 0))

\* Mutated forms: a lock is taken over at the timeout, not after it; expired
\* locks are not taken over.
ReadyEarly(m) ==
    /\ queued[m] /\ delay[m] = 0 /\ attempts[m] < MaxAttempts
    /\ lockAge[m] = NoLock \/ lockAge[m] >= LockTimeout
ReadyUnlockedOnly(m) ==
    queued[m] /\ delay[m] = 0 /\ attempts[m] < MaxAttempts /\ lockAge[m] = NoLock
\* The condition under which a row is locked.
Ready(m) ==
    /\ queued[m] /\ delay[m] = 0 /\ attempts[m] < MaxAttempts
    /\ lockAge[m] = NoLock \/ lockAge[m] > LockTimeout

Held(d) == {m \in Matters : token[m] = d}

Fault(kind) == kind \in Faults /\ faults < MaxFaults /\ faults' = faults + 1

Goto(d, label) == pc' = [pc EXCEPT ![d] = label]
-----------------------------------------------------------------------------
Init ==
    /\ data = [m \in Matters |-> 0] /\ flows = [m \in Matters |-> 0]
    /\ torn     = [m \in Matters |-> FALSE]
    /\ queued   = [m \in Matters |-> FALSE]
    /\ attempts = [m \in Matters |-> 0]
    /\ delay    = [m \in Matters |-> 0]
    /\ lockAge  = [m \in Matters |-> NoLock]
    /\ token    = [m \in Matters |-> NoToken]
    /\ dead     = [m \in Matters |-> 0]
    /\ jobs     = [J \in Payloads |-> "none"]
    /\ pc    = [d \in Drains |-> "off"] /\ loop = [d \in Drains |-> "sweep"]
    /\ rest  = [d \in Drains |-> {}] /\ cur = [d \in Drains |-> {}]
    /\ job   = [d \in Drains |-> {}] /\ served = [d \in Drains |-> {}]
    /\ read  = [d \in Drains |-> 0]
    /\ dirty = [d \in Drains |-> "none"] /\ lost = [d \in Drains |-> FALSE]
    /\ changes = 0 /\ faults = 0
-----------------------------------------------------------------------------
(* Producers. *)

\* _enqueue_annuity_sync_durable: a queued or running job with the same
\* payload stands for the new one.
EnqueueJob(J) == jobs' = [jobs EXCEPT ![J] = IF @ = "none" THEN "queued" ELSE @]

\* enqueue_annuity_sync_for_matter: the upsert commits with the change (on a
\* row that exists it moves no date but one that is due), the job follows.
Change(m) ==
    /\ changes < MaxChanges /\ changes' = changes + 1
    /\ data'   = [data EXCEPT ![m] = @ + 1]
    /\ queued' = [queued EXCEPT ![m] = TRUE]
    /\ EnqueueJob({m})
    /\ UNCHANGED <<flows, torn, attempts, delay, lockAge, token, dead, drainVars, faults>>

\* A transaction with events of the matters J: _drain_annuity_queue schedules
\* the job after the commit, and no row is written.
Listen(J) ==
    /\ changes < MaxChanges /\ changes' = changes + 1
    /\ data' = [m \in Matters |-> IF m \in J THEN data[m] + 1 ELSE data[m]]
    /\ EnqueueJob(J)
    /\ UNCHANGED <<flows, torn, rowVars, dead, drainVars, faults>>
-----------------------------------------------------------------------------
(* Consumers. *)

\* The row of m under the token of d; a commit also inserts rows for New.
LockRow(d, m, New) ==
    /\ queued'   = [k \in Matters |-> queued[k] \/ k \in New]
    /\ attempts' = [attempts EXCEPT ![m] = @ + 1]
    /\ lockAge'  = [lockAge EXCEPT ![m] = 0]
    /\ token'    = [token EXCEPT ![m] = d]
    /\ Goto(d, "locked")
    /\ cur'    = [cur EXCEPT ![d] = {m}]
    /\ lost'   = [lost EXCEPT ![d] = FALSE]
    /\ UNCHANGED <<delay, read, dirty>>

\* The drain returns; its locals are gone.
Leave(d) ==
    /\ Goto(d, "off")
    /\ loop' = [loop EXCEPT ![d] = "sweep"]
    /\ rest' = [rest EXCEPT ![d] = {}] /\ cur' = [cur EXCEPT ![d] = {}]
    /\ job'  = [job EXCEPT ![d] = {}] /\ served' = [served EXCEPT ![d] = {}]
    /\ read' = [read EXCEPT ![d] = 0]
    /\ dirty' = [dirty EXCEPT ![d] = "none"] /\ lost' = [lost EXCEPT ![d] = FALSE]

\* No row was locked.
NoRow(d) == Goto(d, "loop") /\ UNCHANGED <<rowVars, cur, read, dirty, lost>>

\* run_annuity_workflow_sync_task up to the first _lock_specific_items, which
\* ends the transaction of the upserts: by its commit, or, when the first
\* matter cannot be locked or an exception comes, by its rollback.
TaskBegin(d, J) ==
    LET m == Min(J)
    IN  /\ pc[d] = "off" /\ Held(d) = {} /\ jobs[J] = "queued"
        /\ jobs' = [jobs EXCEPT ![J] = "running"]
        /\ loop' = [loop EXCEPT ![d] = "task"] /\ job' = [job EXCEPT ![d] = J]
        /\ rest' = [rest EXCEPT ![d] = J \ {m}]
        /\ \/ /\ Ready(m) \/ ~queued[m]
              /\ LockRow(d, m, J)
              /\ served' = [served EXCEPT ![d] = {m}] /\ UNCHANGED faults
           \/ /\ queued[m] /\ ~Ready(m)
              /\ NoRow(d)
              /\ served' = [served EXCEPT ![d] = {}] /\ UNCHANGED faults
           \/ Fault("db") /\ NoRow(d) /\ served' = [served EXCEPT ![d] = {}]
        /\ UNCHANGED <<data, flows, torn, dead, changes>>

\* _lock_specific_items for the next id of the job.
TaskNext(d) ==
    LET m == Min(rest[d])
    IN  /\ pc[d] = "loop" /\ loop[d] = "task" /\ rest[d] # {}
        /\ rest' = [rest EXCEPT ![d] = @ \ {m}]
        /\ \/ /\ Ready(m) /\ LockRow(d, m, {})
              /\ served' = [served EXCEPT ![d] = @ \union {m}] /\ UNCHANGED faults
           \/ ~Ready(m) /\ NoRow(d) /\ UNCHANGED <<served, faults>>
           \/ Fault("db") /\ NoRow(d) /\ UNCHANGED served
        /\ UNCHANGED <<data, flows, torn, dead, jobs, loop, job, changes>>

\* The handler returns and its job has succeeded.
TaskEnd(d) ==
    /\ pc[d] = "loop" /\ loop[d] = "task" /\ rest[d] = {}
    /\ Leave(d)
    /\ jobs' = [jobs EXCEPT ![job[d]] = "none"]
    /\ UNCHANGED <<data, flows, torn, rowVars, dead, changes, faults>>

\* _pick_and_lock_ready_items, one row after the other under one token.
Sweep(d, m) ==
    /\ \/ pc[d] = "off" /\ Held(d) = {}
       \/ pc[d] = "loop" /\ loop[d] = "sweep"
    /\ Ready(m) /\ LockRow(d, m, {})
    /\ loop' = [loop EXCEPT ![d] = "sweep"]
    /\ UNCHANGED <<data, flows, torn, dead, jobs, rest, job, served, changes, faults>>

SweepEnd(d) ==
    /\ pc[d] = "loop" /\ loop[d] = "sweep" /\ Leave(d)
    /\ UNCHANGED <<data, flows, torn, rowVars, dead, jobs, changes, faults>>
-----------------------------------------------------------------------------
(* _drain_one.  The session is "broken" after a database error: the failure  *)
(* path, which does not roll back first, fails too.                           *)

\* sync_annuity_workflows_for_matter returns, or raises half way.
Sync(d, m) ==
    /\ pc[d] = "locked" /\ m \in cur[d]
    /\ read' = [read EXCEPT ![d] = data[m]]
    /\ \/ Goto(d, "synced") /\ dirty' = [dirty EXCEPT ![d] = "full"] /\ UNCHANGED faults
       \/ /\ Goto(d, "fail") /\ UNCHANGED faults
          /\ \E w \in {"none", "part"} : dirty' = [dirty EXCEPT ![d] = w]
       \/ Fault("db") /\ Goto(d, "broken") /\ UNCHANGED dirty
    /\ UNCHANGED <<data, flows, torn, rowVars, dead, jobs, loop, rest, cur, job, served, lost, changes>>

\* Back to the loop, with a clean session.
Return(d) ==
    /\ Goto(d, "loop")
    /\ cur'  = [cur EXCEPT ![d] = {}] /\ dirty' = [dirty EXCEPT ![d] = "none"]
    /\ read' = [read EXCEPT ![d] = 0] /\ lost' = [lost EXCEPT ![d] = FALSE]
    /\ UNCHANGED <<loop, rest, job, served>>

\* The row is deleted.
RemoveRow(m) ==
    /\ queued'   = [queued EXCEPT ![m] = FALSE]
    /\ attempts' = [attempts EXCEPT ![m] = 0]
    /\ delay'    = [delay EXCEPT ![m] = 0]
    /\ lockAge'  = [lockAge EXCEPT ![m] = NoLock]
    /\ token'    = [token EXCEPT ![m] = NoToken]

\* What the session of d holds is committed.
CommitWork(d, m) ==
    /\ flows' = [flows EXCEPT ![m] = IF dirty[d] = "full" THEN read[d] ELSE @]
    /\ torn'  = [torn EXCEPT ![m] = dirty[d] = "part" \/ (dirty[d] = "none" /\ @)]

FinalizeUnchecked(d, m) ==  \* mutated form: the row count of the DELETE is not looked at
    /\ pc[d] = "synced" /\ m \in cur[d] /\ ~lost[d]
    /\ IF token[m] = d THEN RemoveRow(m) ELSE UNCHANGED rowVars
    /\ CommitWork(d, m) /\ Return(d)
    /\ UNCHANGED <<data, dead, jobs, changes, faults>>
\* The check of the heartbeat, then the DELETE under our token.
Finalize(d, m) ==
    /\ pc[d] = "synced" /\ m \in cur[d]
    /\ \/ /\ ~lost[d] /\ token[m] = d
          /\ RemoveRow(m) /\ CommitWork(d, m) /\ Return(d) /\ UNCHANGED faults
       \/ /\ lost[d]
          /\ Goto(d, "fail") /\ UNCHANGED <<flows, torn, rowVars, loop, rest, cur, job, served, read, dirty, lost, faults>>
       \/ /\ ~lost[d] /\ token[m] # d
          /\ Goto(d, "fail") /\ dirty' = [dirty EXCEPT ![d] = "none"]
          /\ UNCHANGED <<flows, torn, rowVars, loop, rest, cur, job, served, read, lost, faults>>
       \/ /\ Fault("db")
          /\ Goto(d, "broken") /\ UNCHANGED <<flows, torn, rowVars, loop, rest, cur, job, served, read, dirty, lost>>
    /\ UNCHANGED <<data, dead, jobs, changes>>

\* The failure path: attempts are read from whatever row there is; the writes
\* carry the token, the dead letter does not.
RecordDropsRow(d, m) ==  \* mutated form: the last failure deletes the row only
    /\ pc[d] = "fail" /\ m \in cur[d] /\ token[m] = d
    /\ RemoveRow(m) /\ CommitWork(d, m) /\ Return(d)
    /\ UNCHANGED <<data, dead, jobs, changes, faults>>
RecordUnlocked(d, m) ==  \* mutated form: without the condition on the token
    /\ pc[d] = "fail" /\ m \in cur[d]
    /\ delay'   = [delay EXCEPT ![m] = BackoffOf(attempts[m])]
    /\ lockAge' = [lockAge EXCEPT ![m] = NoLock]
    /\ token'   = [token EXCEPT ![m] = NoToken]
    /\ CommitWork(d, m) /\ Return(d)
    /\ UNCHANGED <<data, queued, attempts, dead, jobs, changes, faults>>
RecordFailure(d, m) ==
    /\ pc[d] = "fail" /\ m \in cur[d] /\ Return(d)
    /\ \/ /\ attempts[m] >= MaxAttempts
          /\ dead' = [dead EXCEPT ![m] = @ + 1]
          /\ IF token[m] = d THEN RemoveRow(m) ELSE UNCHANGED rowVars
          /\ CommitWork(d, m) /\ UNCHANGED faults
       \/ /\ attempts[m] < MaxAttempts /\ token[m] = d
          /\ delay'   = [delay EXCEPT ![m] = BackoffOf(attempts[m])]
          /\ lockAge' = [lockAge EXCEPT ![m] = NoLock]
          /\ token'   = [token EXCEPT ![m] = NoToken]
          /\ CommitWork(d, m) /\ UNCHANGED <<queued, attempts, dead, faults>>
       \/ /\ attempts[m] < MaxAttempts /\ token[m] # d
          /\ UNCHANGED <<flows, torn, rowVars, dead, faults>>
       \/ Fault("db") /\ UNCHANGED <<flows, torn, rowVars, dead>>
    /\ UNCHANGED <<data, jobs, changes>>

\* Every statement of the failure path fails, and it ends with a rollback.
GiveUp(d) ==
    /\ pc[d] = "broken" /\ Return(d)
    /\ UNCHANGED <<data, flows, torn, rowVars, dead, jobs, changes, faults>>

\* QueueLockHeartbeat on one row.
Beat(d, m) ==
    /\ pc[d] \in {"locked", "synced"} /\ m \in cur[d] /\ ~lost[d]
    /\ IF token[m] = d
       THEN lockAge' = [lockAge EXCEPT ![m] = 0] /\ UNCHANGED lost
       ELSE lost' = [lost EXCEPT ![d] = TRUE] /\ UNCHANGED lockAge
    /\ UNCHANGED <<data, flows, torn, queued, attempts, delay, token, dead, jobs>>
    /\ UNCHANGED <<pc, loop, rest, cur, job, served, read, dirty, changes, faults>>

\* The process dies; its job is recovered by the durable queue.
Crash(d) ==
    /\ pc[d] # "off" /\ Fault("crash")
    /\ Leave(d)
    /\ jobs' = [J \in Payloads |-> IF loop[d] = "task" /\ J = job[d] THEN "queued" ELSE jobs[J]]
    /\ UNCHANGED <<data, flows, torn, rowVars, dead, changes>>

Tick ==
    /\ Timely => \A d \in Drains : \A m \in cur[d] \intersect Held(d) : lockAge[m] < LockTimeout
    /\ delay'   = [m \in Matters |-> IF delay[m] > 0 THEN delay[m] - 1 ELSE 0]
    /\ lockAge' = [m \in Matters |-> IF lockAge[m] = NoLock THEN NoLock ELSE Least(lockAge[m] + 1, StaleAge)]
    /\ UNCHANGED <<data, flows, torn, queued, attempts, token, dead, jobs, drainVars, changes, faults>>

Task(d)  == (\E J \in Payloads : TaskBegin(d, J)) \/ TaskNext(d) \/ TaskEnd(d)
One(d)   == \E m \in Matters : Sync(d, m) \/ Finalize(d, m) \/ RecordFailure(d, m)
Drain(d) == Task(d) \/ (\E m \in Matters : Sweep(d, m)) \/ SweepEnd(d) \/ One(d) \/ GiveUp(d)

Next ==
    \/ Tick
    \/ \E m \in Matters : Change(m)
    \/ \E J \in Payloads : Listen(J)
    \/ \E d \in Drains : Drain(d) \/ Crash(d) \/ (\E m \in Matters : Beat(d, m))

Spec == Init /\ [][Next]_vars

\* The scheduler and the annuity worker run again and again; a drain goes on.
FairSpec == Spec /\ WF_vars(Tick) /\ \A d \in Drains : WF_vars(Drain(d))
-----------------------------------------------------------------------------
(* Properties. *)

\* Rows, jobs and drains have their types; a row is locked
\* exactly when it carries a token.
TypeOK ==
    /\ data \in [Matters -> Nat] /\ flows \in [Matters -> Nat] /\ dead \in [Matters -> Nat]
    /\ torn     \in [Matters -> BOOLEAN]
    /\ queued   \in [Matters -> BOOLEAN]
    /\ attempts \in [Matters -> 0..MaxAttempts]
    /\ delay    \in [Matters -> Nat]
    /\ lockAge  \in [Matters -> NoLock..StaleAge]
    /\ token    \in [Matters -> Drains \union {NoToken}]
    /\ jobs     \in [Payloads -> {"none", "queued", "running"}]
    /\ pc     \in [Drains -> {"off", "loop", "locked", "synced", "fail", "broken"}]
    /\ loop   \in [Drains -> {"task", "sweep"}]
    /\ rest   \in [Drains -> SUBSET Matters] /\ cur \in [Drains -> SUBSET Matters]
    /\ job    \in [Drains -> SUBSET Matters] /\ served \in [Drains -> SUBSET Matters]
    /\ read   \in [Drains -> Nat]
    /\ dirty  \in [Drains -> {"none", "part", "full"}] /\ lost \in [Drains -> BOOLEAN]
    /\ changes \in Nat /\ faults \in Nat
    /\ \A m \in Matters : (lockAge[m] = NoLock) <=> (token[m] = NoToken)

\* Workflows of which only a part was rebuilt are never the last word: their
\* row is still there, or a dead letter tells of it.
TornIsKnown == \A m \in Matters : torn[m] => queued[m] \/ dead[m] > 0

\* A drain never unlocks or removes a row that another drain holds and whose
\* lock has not timed out.
ForeignLocksStay ==
    [][\A m \in Matters : token[m] # NoToken /\ token'[m] # token[m] /\ lockAge[m] <= LockTimeout
          => cur[token[m]] = {m} /\ pc[token[m]] \in {"synced", "fail"}]_vars

\* A dead letter takes the place of a row whose attempts are used up.  Only if
\* its lock timed out under a stalled drain does the row stay, with the drain
\* that has taken it over.
DeadLetterReplacesRow ==
    [][\A m \in Matters : dead'[m] # dead[m]
          => /\ queued[m] /\ attempts[m] = MaxAttempts
             /\ \/ ~queued'[m]
                \/ ~Timely /\ \E d \in Drains : cur[d] = {m} /\ pc[d] = "fail" /\ token[m] # d]_vars

\* While heartbeats are in time workflows never go back to older annuities, and
\* however long a drain stalls, only once the failure path has written a dead
\* letter for the matter: it commits with it the rebuild of a drain whose row
\* was taken over.
FlowsForward ==
    [][\A m \in Matters : flows'[m] < flows[m] => ~Timely /\ dead'[m] > 0]_vars

\* A row without attempts left is in the hands of a drain, which writes the
\* dead letter ("dead-letter when max attempts exceeded").
ExhaustedIsHandled ==
    \A m \in Matters : queued[m] /\ attempts[m] >= MaxAttempts
                        => \E d \in Drains : token[m] = d /\ m \in cur[d]

\* Only a dead letter, a database error or the death of the drain takes a row
\* without attempts left out of the hands of its drain.
ExhaustedStaysHeld ==
    [][\A m \in Matters, d \in Drains :
          queued[m] /\ attempts[m] >= MaxAttempts /\ token[m] = d /\ m \in cur[d] /\ pc[d] # "broken"
          => \/ token'[m] = d /\ m \in cur'[d]
             \/ dead'[m] > dead[m] \/ ~queued'[m] \/ faults' > faults]_vars

\* When a job ends, each of its matters was drained by it or has a row
\* ("this adapter ensures matter rows exist").
TaskEnsuresRows ==
    [][\A d \in Drains : TaskEnd(d) => \A m \in job[d] : m \in served[d] \/ queued[m]]_vars

\* Workflows older than the annuities have a row, a job or a dead letter.
ChangeIsPending ==
    \A m \in Matters : flows[m] < data[m]
       => queued[m] \/ dead[m] > 0 \/ \E J \in Payloads : m \in J /\ jobs[J] # "none"

Waits(m) == queued[m] \/ dead[m] > 0 \/ \E J \in Payloads : m \in J /\ jobs[J] = "queued"

\* Row, queued job and dead letter are gone with the workflows still older than the
\* annuities in two cases only, whatever crashes, fails, stalls or is queued
\* meanwhile: a drain that read before the last change deletes the row, or a
\* job begins and, unable to lock its first row, takes its upserts back.
ChangeStaysPending ==
    [][\A m \in Matters : Waits(m) /\ flows'[m] < data'[m]
          => \/ Waits(m)'
             \/ \E d \in Drains : cur[d] = {m} /\ pc[d] = "synced" /\ read[d] < data[m]
             \/ \E d \in Drains : pc[d] = "off" /\ pc'[d] = "loop" /\ m \in job'[d]]_vars

\* Every row is processed, or its attempts are used up.
RowsSettle == \A m \in Matters : queued[m] ~> (~queued[m] \/ attempts[m] >= MaxAttempts)
=============================================================================
