---------------------------- MODULE DurableQueue ----------------------------
(***************************************************************************)
(* The durable job queue of app/ops/durable_queue.py: the durable_jobs     *)
(* table, the producers that enqueue, the worker processes that claim and  *)
(* run jobs, their lock-heartbeat threads, and the administrator's retry   *)
(* and cancel.                                                             *)
(*                                                                         *)
(* One step is one database transaction, or one statement where the code   *)
(* reads a row and writes it back later by id without locking it (READ     *)
(* COMMITTED): mark_succeeded, mark_failed, retry, cancel and the startup  *)
(* recovery are therefore two steps each.                                  *)
(*                                                                         *)
(* Time.  Timestamps are kept relative to now: delay[j] is run_at - now    *)
(* (0 once due) and lockAge[j] is now - locked_at (NoLock for NULL), capped*)
(* at StaleAge.  Tick is one unit of time.                                 *)
(***************************************************************************)
EXTENDS Integers, FiniteSets

CONSTANTS
    Jobs,            \* ids the table can hand out
    Requests,        \* what is enqueued: records [queue, key, handled]
    QueueRank,       \* [queue name -> position in the worker's --queues list]
    NoKey,           \* dedupe_key IS NULL
    Workers,         \* worker_id values, one per worker process
    HostOf,          \* [Workers -> host]: the part of worker_id before ':'
    NoWorker,        \* locked_by IS NULL
    Producers,       \* concurrent callers of enqueue
    Admins,          \* concurrent callers of retry and cancel
    MaxAttempts,     \* max_attempts of every job
    MaxBackoff,      \* max_backoff_seconds
    LockTTL,         \* lock_ttl_seconds
    MinBeat,         \* the 5 seconds below which no heartbeat interval goes
    WorkerInterval,  \* worker_heartbeat_interval_seconds
    Timely,          \* TRUE: database calls and heartbeats take at most Latency
    Latency,         \* how late a heartbeat, a claim or a mark may be
    Faults,          \* subset of {"crash", "db", "beat", "stop", "admin"}: what goes wrong or is ordered
    MaxFaults,       \* bound on the number of those in a behaviour
    ClaimBound,      \* bound on the claims of one job
    MaxStarts        \* bound on the starts of one worker process

VARIABLES
    status, spec, attempts, delay, lockedBy, lockAge,  \* durable_jobs columns
    pc,       \* where each worker process is
    cur,      \* ids it works with: read at startup, due at claim time, the claimed job
    try,      \* which of the two mark calls it is in (0: the unprotected call)
    snap,     \* the attempts column as mark_failed read it
    hb, beat, \* its job-lock heartbeat thread is alive; time since it last slept
    lag,      \* time since it entered the claim or mark it is in
    starts,   \* how often it was started
    prod,     \* the request each producer is about to insert ({} if none)
    adm,      \* the row each administrator has read and will write ({} if none)
    returned, \* history: jobs with an execution whose handler returned
    forced,   \* history: jobs failed by the raw UPDATE
    faults    \* faults so far

jobVars  == <<status, spec, attempts, delay, lockedBy, lockAge>>
procVars == <<pc, cur, try, snap, hb, beat, lag, starts>>
histVars == <<returned, forced>>
vars     == <<jobVars, procVars, prod, adm, histVars, faults>>

Active   == {"queued", "running"}
Terminal == {"succeeded", "failed", "cancelled"}
NoLock   == -1
StaleAge == LockTTL + 1
Marking  == {"failing", "failing_write", "succeeding", "succeeding_write", "forcing"}

AtLeast(x, y) == IF x > y THEN x ELSE y
AtMost(x, y)  == IF x < y THEN x ELSE y

\* _start_job_lock_heartbeat: how often the lock is refreshed.
\* (Mutated form: the interval may be the whole TTL.)
BeatWithoutThird == AtLeast(MinBeat, AtMost(AtLeast(MinBeat, WorkerInterval), LockTTL))
BeatInterval ==
    AtLeast(MinBeat,
            AtMost(AtLeast(MinBeat, WorkerInterval), AtLeast(MinBeat, LockTTL \div 3)))

ASSUME ConstantsAssumption ==
    /\ MaxAttempts \in Nat \ {0}
    /\ MaxBackoff \in Nat
    /\ LockTTL \in Nat \ {0}
    /\ MinBeat \in Nat \ {0}
    /\ WorkerInterval \in Nat
    /\ Latency \in Nat
    /\ MaxFaults \in Nat
    /\ MaxStarts \in Nat
    /\ ClaimBound \in Nat
    /\ Timely \in BOOLEAN
    /\ NoWorker \notin Workers
    /\ Requests # {}

-----------------------------------------------------------------------------
\* What _backoff_seconds returns: 1, 2, 4, ... units, at most MaxBackoff.
BackoffOf(n) == LET sec == 2 ^ AtLeast(0, n - 1)
                IN  IF sec > MaxBackoff THEN MaxBackoff ELSE sec

\* Two requests have the same (queue, task, dedupe_key) and dedupe at all.
SameKey(r, s) == r.key # NoKey /\ r.key = s.key /\ r.queue = s.queue

\* _find_existing_deduped_job.
ExistingDeduped(r) == {j \in Jobs : status[j] \in Active /\ SameKey(spec[j], r)}

\* The partial unique index ux_durable_jobs_dedupe_active rejects j as active with r's key.
\* (Mutated form: the index covers queued rows only.)
IndexQueuedOnly(j, r) == \E k \in Jobs \ {j} : status[k] = "queued" /\ SameKey(spec[k], r)
IndexRejects(j, r) == \E k \in Jobs \ {j} : status[k] \in Active /\ SameKey(spec[k], r)

Due(j)   == status[j] = "queued" /\ delay[j] = 0
Stale(j) == status[j] = "running" /\ lockAge[j] # NoLock /\ lockAge[j] > LockTTL
Owned(w, j) == status[j] = "running" /\ lockedBy[j] = w
-----------------------------------------------------------------------------
Init ==
    /\ status   = [j \in Jobs |-> "absent"]
    /\ spec     = [j \in Jobs |-> CHOOSE r \in Requests : TRUE]
    /\ attempts = [j \in Jobs |-> 0]
    /\ delay    = [j \in Jobs |-> 0]
    /\ lockedBy = [j \in Jobs |-> NoWorker]
    /\ lockAge  = [j \in Jobs |-> NoLock]
    /\ pc     = [w \in Workers |-> "down"]
    /\ cur    = [w \in Workers |-> {}]
    /\ try    = [w \in Workers |-> 0]
    /\ snap   = [w \in Workers |-> 0]
    /\ hb     = [w \in Workers |-> FALSE]
    /\ beat   = [w \in Workers |-> 0]
    /\ lag    = [w \in Workers |-> 0]
    /\ starts = [w \in Workers |-> 0]
    /\ prod = [p \in Producers |-> {}]
    /\ adm  = [a \in Admins |-> {}]
    /\ returned = {} /\ forced = {}
    /\ faults = 0
-----------------------------------------------------------------------------
\* Column writes shared by the statements below; R is the set of rows written.
SetStatus(R, s) == status' = [j \in Jobs |-> IF j \in R THEN s ELSE status[j]]
SetDelay(R, d)  == delay' = [j \in Jobs |-> IF j \in R THEN d ELSE delay[j]]
Unlock(R) == /\ lockedBy' = [j \in Jobs |-> IF j \in R THEN NoWorker ELSE lockedBy[j]]
             /\ lockAge'  = [j \in Jobs |-> IF j \in R THEN NoLock ELSE lockAge[j]]

Become(w, label, rows) == /\ pc'  = [pc EXCEPT ![w] = label]
                          /\ cur' = [cur EXCEPT ![w] = rows]

\* The worker is between jobs, or gone: no job, no heartbeat thread.
Rest(w, label) == /\ Become(w, label, {})
                  /\ try'  = [try EXCEPT ![w] = 0]
                  /\ snap' = [snap EXCEPT ![w] = 0]
                  /\ hb'   = [hb EXCEPT ![w] = FALSE]
                  /\ beat' = [beat EXCEPT ![w] = 0]
                  /\ lag'  = [lag EXCEPT ![w] = 0]

Fault(kind) == kind \in Faults /\ faults < MaxFaults /\ faults' = faults + 1
-----------------------------------------------------------------------------
(* Producers: enqueue with a session of its own. *)

\* An active job with the key is returned; otherwise a row is prepared.
EnqueueFind(p, r) ==
    /\ prod[p] = {} /\ ExistingDeduped(r) = {}
    /\ prod' = [prod EXCEPT ![p] = {r}]
    /\ UNCHANGED <<jobVars, procVars, adm, histVars, faults>>

\* The INSERT.  The index may reject it: the transaction is rolled back and the
\* job found by then (if any) is returned.
EnqueueInsert(p, j) ==
    /\ status[j] = "absent"
    /\ prod' = [prod EXCEPT ![p] = {}]
    /\ \E r \in prod[p] :
         \/ /\ ~IndexRejects(j, r)
            /\ spec'   = [spec EXCEPT ![j] = r]
            /\ status' = [status EXCEPT ![j] = "queued"]
            /\ UNCHANGED <<attempts, delay, lockedBy, lockAge>>
         \/ IndexRejects(j, r) /\ UNCHANGED jobVars
    /\ UNCHANGED <<procVars, adm, histVars, faults>>
-----------------------------------------------------------------------------
(* worker_loop. *)

\* _recover_startup_locks_for_worker, the SELECT: rows locked by this host.
StartRead(w) ==
    /\ pc[w] = "down" /\ starts[w] < MaxStarts
    /\ starts' = [starts EXCEPT ![w] = @ + 1]
    /\ Become(w, "starting", {j \in Jobs : \E v \in Workers : HostOf[v] = HostOf[w] /\ Owned(v, j)})
    /\ UNCHANGED <<jobVars, try, snap, hb, beat, lag, prod, adm, histVars, faults>>

\* ... and the UPDATEs by id, in one transaction; an exception is swallowed.
StartWrite(w) ==
    /\ pc[w] = "starting"
    /\ Rest(w, "idle")
    /\ \/ /\ \A j \in cur[w] : ~IndexRejects(j, spec[j])
          /\ SetStatus(cur[w], "queued") /\ SetDelay(cur[w], 0) /\ Unlock(cur[w])
          /\ UNCHANGED <<spec, attempts, faults>>
       \/ /\ \E j \in cur[w] : IndexRejects(j, spec[j])
          /\ UNCHANGED <<jobVars, faults>>
       \/ Fault("db") /\ UNCHANGED jobVars
    /\ UNCHANGED <<starts, prod, adm, histVars>>

\* stop_event is looked at between jobs.
Stop(w) ==
    /\ pc[w] = "idle" /\ Fault("stop") /\ Rest(w, "down")
    /\ UNCHANGED <<jobVars, starts, prod, adm, histVars>>

\* claim_one, first transaction: now is taken, then _recover_stale_locks.
\* (Mutated form: the recovery is left out.)
RecoverNothing(w) ==
    /\ pc[w] = "idle"
    /\ Become(w, "picking", {j \in Jobs : Due(j)})
    /\ UNCHANGED <<jobVars, faults, try, snap, hb, beat, lag, starts, prod, adm, histVars>>
RecoverStale(w) ==
    /\ pc[w] = "idle"
    /\ Become(w, "picking", {j \in Jobs : Due(j)})
    /\ LET R == {j \in Jobs : Stale(j)}
       IN  \/ SetStatus(R, "queued") /\ SetDelay(R, 0) /\ Unlock(R)
              /\ UNCHANGED <<spec, attempts, faults>>
           \/ Fault("db") /\ UNCHANGED jobVars
    /\ UNCHANGED <<try, snap, hb, beat, lag, starts, prod, adm, histVars>>

\* claim_one, second transaction: a due row of the first queue that has one.
\* SKIP LOCKED passes over rows of other transactions, so any such row may be it.
\* locked_at is the time taken before the recovery.
Claimable(w) == {j \in cur[w] : Due(j) /\ attempts[j] < ClaimBound /\ \A k \in cur[w] :
                    Due(k) => QueueRank[spec[j].queue] <= QueueRank[spec[k].queue]}

\* Mutated form: the row keeps the locked_at it had.
ClaimWithoutTime(w, j) ==
    /\ pc[w] = "picking" /\ j \in Claimable(w)
    /\ status'   = [status EXCEPT ![j] = "running"]
    /\ attempts' = [attempts EXCEPT ![j] = @ + 1]
    /\ lockedBy' = [lockedBy EXCEPT ![j] = w]
    /\ lag'      = [lag EXCEPT ![w] = 0]
    /\ Become(w, "handling", {j})
    /\ hb' = [hb EXCEPT ![w] = TRUE]
    /\ UNCHANGED <<spec, delay, lockAge, try, snap, beat, starts, prod, adm, histVars, faults>>
Claim(w, j) ==
    /\ pc[w] = "picking" /\ j \in Claimable(w)
    /\ status'   = [status EXCEPT ![j] = "running"]
    /\ attempts' = [attempts EXCEPT ![j] = @ + 1]
    /\ lockedBy' = [lockedBy EXCEPT ![j] = w]
    /\ lockAge'  = [lockAge EXCEPT ![j] = AtMost(lag[w], StaleAge)]
    /\ lag'      = [lag EXCEPT ![w] = 0]
    /\ \/ /\ spec[j].handled
          /\ Become(w, "handling", {j})
          /\ hb' = [hb EXCEPT ![w] = TRUE]
       \/ /\ ~spec[j].handled        \* no handler registered: mark_failed at once
          /\ Become(w, "failing", {j})
          /\ UNCHANGED hb
    /\ UNCHANGED <<spec, delay, try, snap, beat, starts, prod, adm, histVars, faults>>

ClaimNone(w) ==
    /\ pc[w] = "picking" /\ Claimable(w) = {}
    /\ Rest(w, "idle")
    /\ UNCHANGED <<jobVars, starts, prod, adm, histVars, faults>>
-----------------------------------------------------------------------------
(* The job-lock heartbeat thread: it ends when a refresh reports no row, and *)
(* _refresh_job_lock reports no row after an exception too.                  *)
Beat(w) ==
    /\ hb[w] /\ beat[w] >= BeatInterval
    /\ beat' = [beat EXCEPT ![w] = 0]
    /\ \/ /\ \E j \in cur[w] : Owned(w, j)
          /\ lockAge' = [j \in Jobs |-> IF j \in cur[w] /\ Owned(w, j) THEN 0 ELSE lockAge[j]]
          /\ UNCHANGED <<hb, faults>>
       \/ /\ ~\E j \in cur[w] : Owned(w, j)
          /\ hb' = [hb EXCEPT ![w] = FALSE]
          /\ UNCHANGED <<lockAge, faults>>
       \/ /\ Fault("beat")
          /\ hb' = [hb EXCEPT ![w] = FALSE]
          /\ UNCHANGED lockAge
    /\ UNCHANGED <<status, spec, attempts, delay, lockedBy, pc, cur, try, snap, lag, starts>>
    /\ UNCHANGED <<prod, adm, histVars>>
-----------------------------------------------------------------------------
(* The handler and the mark that follows it. *)

\* The finally block stops the heartbeat before mark_succeeded ...
HandlerReturns(w) ==
    /\ pc[w] = "handling"
    /\ pc'   = [pc EXCEPT ![w] = "succeeding"]
    /\ try'  = [try EXCEPT ![w] = 1]
    /\ hb'   = [hb EXCEPT ![w] = FALSE]
    /\ beat' = [beat EXCEPT ![w] = 0]
    /\ returned' = returned \union cur[w]
    /\ UNCHANGED <<jobVars, cur, snap, lag, starts, prod, adm, forced, faults>>

\* ... but runs after the except block, so the heartbeat outlives mark_failed.
HandlerRaises(w) ==
    /\ pc[w] = "handling"
    /\ pc'  = [pc EXCEPT ![w] = "failing"]
    /\ try' = [try EXCEPT ![w] = 1]
    /\ UNCHANGED <<jobVars, cur, snap, hb, beat, lag, starts, prod, adm, histVars, faults>>

\* mark_failed and mark_succeeded read the row and give up unless it is theirs.
MarkRead(w, j) ==
    /\ pc[w] \in {"failing", "succeeding"} /\ j \in cur[w]
    /\ \/ /\ Owned(w, j)
          /\ pc' = [pc EXCEPT ![w] = IF pc[w] = "failing" THEN "failing_write" ELSE "succeeding_write"]
          /\ snap' = [snap EXCEPT ![w] = attempts[j]]
          /\ UNCHANGED <<cur, try, hb, beat, lag>>
       \/ ~Owned(w, j) /\ Rest(w, "idle")
    /\ UNCHANGED <<jobVars, starts, prod, adm, histVars, faults>>

MarkSucceeded(w, j) ==
    /\ pc[w] = "succeeding_write" /\ j \in cur[w]
    /\ SetStatus({j}, "succeeded") /\ Unlock({j})
    /\ Rest(w, "idle")
    /\ UNCHANGED <<spec, attempts, delay, starts, prod, adm, histVars, faults>>

\* Two calls are made, then the raw UPDATE for a failure; the call for a task
\* without a handler is not protected and ends the process.
\* (Mutated form: after an exception the other mark is called.)
MarkRaisesWrongCall(w) ==
    /\ try' = [try EXCEPT ![w] = 2]
    /\ pc' = [pc EXCEPT ![w] = "succeeding"]
    /\ UNCHANGED <<cur, snap, hb, beat, lag>>
MarkRaises(w) ==
    \/ try[w] = 0 /\ Rest(w, "down")
    \/ /\ try[w] = 1
       /\ try' = [try EXCEPT ![w] = 2]
       /\ pc' = [pc EXCEPT ![w] = IF @ \in {"failing", "failing_write"} THEN "failing" ELSE "succeeding"]
       /\ UNCHANGED <<cur, snap, hb, beat, lag>>
    \/ /\ try[w] = 2 /\ pc[w] \in {"failing", "failing_write"}
       /\ pc' = [pc EXCEPT ![w] = "forcing"]
       /\ UNCHANGED <<cur, try, snap, hb, beat, lag>>
    \/ /\ try[w] = 2 /\ pc[w] \in {"succeeding", "succeeding_write"}
       /\ Rest(w, "idle")

\* Mutated form: the last attempt is given up.
MarkFailedOneShort(w, j) ==
    /\ pc[w] = "failing_write" /\ j \in cur[w]
    /\ SetStatus({j}, IF snap[w] + 1 < MaxAttempts THEN "queued" ELSE "failed") /\ Unlock({j})
    /\ Rest(w, "idle")
    /\ UNCHANGED <<spec, attempts, delay, starts, prod, adm, histVars, faults>>
MarkFailed(w, j) ==
    /\ pc[w] = "failing_write" /\ j \in cur[w]
    /\ \/ /\ snap[w] < MaxAttempts /\ ~IndexRejects(j, spec[j])
          /\ SetStatus({j}, "queued") /\ SetDelay({j}, BackoffOf(snap[w])) /\ Unlock({j})
          /\ Rest(w, "idle")
          /\ UNCHANGED <<spec, attempts>>
       \/ /\ snap[w] < MaxAttempts /\ IndexRejects(j, spec[j])
          /\ MarkRaises(w) /\ UNCHANGED jobVars
       \/ /\ snap[w] >= MaxAttempts
          /\ SetStatus({j}, "failed") /\ Unlock({j})
          /\ Rest(w, "idle")
          /\ UNCHANGED <<spec, attempts, delay>>
    /\ UNCHANGED <<starts, prod, adm, histVars, faults>>

MarkError(w) ==
    /\ pc[w] \in Marking \ {"forcing"} /\ Fault("db")
    /\ MarkRaises(w)
    /\ UNCHANGED <<jobVars, starts, prod, adm, histVars>>

\* UPDATE ... SET status='failed' WHERE id AND status='running' AND locked_by.
ForceFailed(w) ==
    /\ pc[w] = "forcing"
    /\ Rest(w, "idle")
    /\ \/ LET R == {j \in cur[w] : Owned(w, j)}
          IN  /\ SetStatus(R, "failed") /\ Unlock(R)
              /\ forced' = forced \union R
              /\ UNCHANGED <<spec, attempts, delay, faults>>
       \/ Fault("db") /\ UNCHANGED <<jobVars, forced>>
    /\ UNCHANGED <<starts, prod, adm, returned>>

\* The process dies; its heartbeat thread dies with it, its lock stays.  An exception
\* in the second transaction of claim_one ends the process the same way.
Crash(w) ==
    /\ pc[w] # "down" /\ Fault("crash")
    /\ Rest(w, "down")
    /\ UNCHANGED <<jobVars, starts, prod, adm, histVars>>
-----------------------------------------------------------------------------
(* retry and cancel: the row is loaded, then the changed columns are written. *)
AdminRead(a, op, j) ==
    /\ adm[a] = {} /\ status[j] # "absent" /\ Fault("admin")
    /\ adm' = [adm EXCEPT ![a] = {[op |-> op, job |-> j, status |-> status[j],
                                   lockedBy |-> lockedBy[j], lockAge |-> lockAge[j]]}]
    /\ UNCHANGED <<jobVars, procVars, prod, histVars>>

\* The ORM puts a column in the UPDATE only if its value differs from the one read.
OrmSet(read, new, now) == IF read = new THEN now ELSE new

AdminWrite(a, s) ==
    /\ s \in adm[a]
    /\ adm' = [adm EXCEPT ![a] = {}]
    /\ LET new == IF s.op = "retry" THEN "queued" ELSE "cancelled"
           next == OrmSet(s.status, new, status[s.job])
       IN \/ /\ next \in Active /\ IndexRejects(s.job, spec[s.job]) /\ UNCHANGED jobVars
          \/ /\ ~(next \in Active /\ IndexRejects(s.job, spec[s.job]))
             /\ SetStatus({s.job}, next)
             /\ lockedBy' = [lockedBy EXCEPT ![s.job] = OrmSet(s.lockedBy, NoWorker, @)]
             /\ lockAge'  = [lockAge EXCEPT ![s.job] = IF s.lockAge = NoLock THEN @ ELSE NoLock]
             /\ SetDelay(IF s.op = "retry" THEN {s.job} ELSE {}, 0)
             /\ UNCHANGED <<spec, attempts>>
    /\ UNCHANGED <<procVars, prod, histVars, faults>>
-----------------------------------------------------------------------------
\* One unit of time.  A Timely system does not let a claim, a mark or a due
\* heartbeat wait longer than Latency.
Tick ==
    /\ Timely => \A w \in Workers :
          /\ pc[w] \in Marking \union {"picking"} => lag[w] < Latency
          /\ hb[w] => beat[w] < BeatInterval + Latency
    /\ delay'   = [j \in Jobs |-> AtLeast(0, delay[j] - 1)]
    /\ lockAge' = [j \in Jobs |-> IF lockAge[j] = NoLock THEN NoLock
                                   ELSE AtMost(lockAge[j] + 1, StaleAge)]
    /\ lag'  = [w \in Workers |-> IF pc[w] \in Marking \union {"picking"}
                                  THEN AtMost(lag[w] + 1, StaleAge) ELSE lag[w]]
    /\ beat' = [w \in Workers |-> IF hb[w] THEN AtMost(beat[w] + 1, BeatInterval + Latency) ELSE 0]
    /\ UNCHANGED <<status, spec, attempts, lockedBy, pc, cur, try, snap, hb, starts>>
    /\ UNCHANGED <<prod, adm, histVars, faults>>

Worker(w) ==
    \/ StartRead(w) \/ StartWrite(w) \/ RecoverStale(w) \/ ClaimNone(w)
    \/ \E j \in Jobs : Claim(w, j) \/ MarkRead(w, j) \/ MarkSucceeded(w, j) \/ MarkFailed(w, j)
    \/ ForceFailed(w)

Handler(w) == HandlerReturns(w) \/ HandlerRaises(w)

Next ==
    \/ Tick
    \/ \E p \in Producers : \/ \E r \in Requests : EnqueueFind(p, r)
                             \/ \E j \in Jobs : EnqueueInsert(p, j)
    \/ \E w \in Workers : Worker(w) \/ Handler(w) \/ Beat(w) \/ Stop(w) \/ MarkError(w) \/ Crash(w)
    \/ \E a \in Admins : \/ \E op \in {"retry", "cancel"}, j \in Jobs : AdminRead(a, op, j)
                          \/ \E s \in adm[a] : AdminWrite(a, s)

Spec == Init /\ [][Next]_vars

\* Time passes, processes run, handlers end and heartbeat threads are scheduled.
Fairness ==
    /\ WF_vars(Tick)
    /\ \A w \in Workers : WF_vars(Worker(w)) /\ WF_vars(Handler(w)) /\ WF_vars(Beat(w))

FairSpec == Spec /\ Fairness
-----------------------------------------------------------------------------
(* Properties. *)

RowsOK ==
    /\ status   \in [Jobs -> Active \union Terminal \union {"absent"}]
    /\ spec     \in [Jobs -> Requests]
    /\ attempts \in [Jobs -> Nat]
    /\ delay    \in [Jobs -> Nat]
    /\ lockedBy \in [Jobs -> Workers \union {NoWorker}]
    /\ lockAge  \in [Jobs -> NoLock..StaleAge]

ProcsOK ==
    /\ pc     \in [Workers -> Marking \union {"down", "starting", "idle", "picking", "handling"}]
    /\ cur    \in [Workers -> SUBSET Jobs]
    /\ try    \in [Workers -> 0..2]
    /\ snap   \in [Workers -> Nat]
    /\ hb     \in [Workers -> BOOLEAN]
    /\ beat   \in [Workers -> Nat]
    /\ lag    \in [Workers -> 0..StaleAge]

\* Every column and every piece of process state has its type.
TypeOK ==
    /\ RowsOK
    /\ ProcsOK
    /\ starts \in [Workers -> Nat]
    /\ prod   \in [Producers -> SUBSET Requests]
    /\ adm    \in [Admins -> SUBSET [op : {"retry", "cancel"}, job : Jobs,
                                     status : Active \union Terminal,
                                     lockedBy : Workers \union {NoWorker},
                                     lockAge : NoLock..StaleAge]]
    /\ returned \subseteq Jobs /\ forced \subseteq Jobs
    /\ faults \in Nat

\* A job is recorded as succeeded only if some execution of its handler
\* returned, however late or repeated the marks, recoveries and retries were.
SucceededMeansReturned == \A j \in Jobs : status[j] = "succeeded" => j \in returned

\* A job is recorded as failed only after max_attempts claims, unless the raw
\* UPDATE of worker_loop failed it because mark_failed could not be written.
FailedMeansExhausted ==
    \A j \in Jobs : status[j] = "failed" => attempts[j] >= MaxAttempts \/ j \in forced

\* At most one queued or running job per (queue, task, dedupe_key), although
\* enqueue, mark_failed, retry and the startup recovery all check before they
\* write and write by id.
OneActivePerKey ==
    \A j, k \in Jobs : status[j] \in Active /\ status[k] \in Active /\ SameKey(spec[j], spec[k])
                        => j = k

\* A running job always has a lock owner and a lock time: without them neither
\* recovery would ever see it again.
RunningIsRecoverable ==
    \A j \in Jobs : status[j] = "running" => lockedBy[j] # NoWorker /\ lockAge[j] # NoLock

\* While a handler runs, its job is running and locked by its worker: nobody
\* recovers or re-claims it (_start_job_lock_heartbeat).
HandlerHoldsLock ==
    \A w \in Workers : pc[w] = "handling" => \A j \in cur[w] : Owned(w, j)

\* A settled job becomes active again only through an administrator's retry.
TerminalIsFinal ==
    [][\A j \in Jobs : status[j] \in Terminal /\ status'[j] \in Active
          => \E a \in Admins : \E s \in adm[a] : s.job = j /\ s.op = "retry"]_vars

\* What producers see of the queue: jobs that are pending until they are settled.
Ledger == INSTANCE JobLedger WITH
    Clash <- {rs \in Requests \X Requests : SameKey(rs[1], rs[2])},
    state <- [j \in Jobs |-> IF status[j] \in Active THEN "pending" ELSE status[j]],
    work  <- spec,
    ran   <- returned

\* The queue implements the ledger: claims, heartbeats, retries, recoveries and
\* crashes are invisible, no job is settled twice or comes back, and none is
\* recorded as succeeded without a handler that returned while it was pending.
KeepsLedger == Ledger!Spec

\* Every enqueued job is settled in the end: crashes, lost marks and dead
\* heartbeats delay it but never lose it.
Settles == \A j \in Jobs : status[j] \in Active ~> status[j] \in Terminal
=============================================================================
