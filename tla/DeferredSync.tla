---------------------------- MODULE DeferredSync ----------------------------
(***************************************************************************)
(* The deferred DocketItem/Workflow synchronisation                        *)
(* (services/workflow/deferred_task_sync.py, deferred_task_executor.py and *)
(* services/ops/background.py).                                            *)
(*                                                                         *)
(* A request that changes a docket item or a workflow puts its id in a     *)
(* queue on the session.  The session's after_commit hook empties the      *)
(* queue, submits a run of it to the background pool and enqueues a        *)
(* durable job for the same ids; the after_rollback hook drops it.  A run, *)
(* in a pool thread or in a worker, visits the ids one by one: it loads    *)
(* the row, rewrites what is derived from it and commits.                  *)
(*                                                                         *)
(* An item is a docket item or a workflow.  Its data is a version number:  *)
(* source[i] is the committed version, mirror[i] the version the derived   *)
(* rows (Workflow and WorkLog, or the workflow's generated docket items)   *)
(* were last made from.  The durable queue is modelled by what the hook    *)
(* and the handler see of it (DurableQueue has its leases); the ids decide *)
(* the dedupe key, so all requests here have the same actor.               *)
(***************************************************************************)
EXTENDS Integers, Sequences, FiniteSetsExt

CONSTANTS
    Items,          \* docket items and workflows
    Requests,       \* web requests, each with its own session
    Threads,        \* threads of the BackgroundService pool
    Workers,        \* durable queue workers
    MaxEdits,       \* bound: changes of all items together
    MaxAttempts,    \* DurableJob.max_attempts
    Faults,         \* the kinds of fault that may happen
    MaxFaults       \* bound: how many of them

ASSUME ConstantsAssumption ==
    /\ MaxEdits \in Nat /\ MaxAttempts \in Nat \ {0} /\ MaxFaults \in Nat
    /\ Threads \cap Workers = {}

VARIABLES
    source,     \* the committed version of each item
    mirror,     \* the version its derived rows show
    req,        \* the requests and their sessions
    pool,       \* what was submitted to the pool and not yet taken
    jobs,       \* the durable job of each payload
    run,        \* the executions of _run_deferred_sync
    raced,      \* history: items two runs held at the same time, and none alone since
    weak,       \* history: items whose last change no durable job is sure to see
    faults      \* how many faults happened

vars == <<source, mirror, req, pool, jobs, run, raced, weak, faults>>

Payloads == (SUBSET Items) \ {{}}
Runners == Threads \cup Workers

\* pc: "idle", "open" (in a transaction), "submit", "enqueue" (in the hook).
\* edits, inner: items changed outside and inside the open savepoint.
\* queue: session.info[_QUEUE_KEY] and session.info[_WF_TASK_QUEUE_KEY].
\* dropped (history): items that lost their place in the queue to a savepoint.
NoRequest == [pc |-> "idle", nested |-> FALSE, edits |-> {}, inner |-> {}, queue |-> {},
              dropped |-> {}]

\* todo: ids not yet visited; item: the id between its load and its commit,
\* seen: the version loaded, alone (history): no other run held it meanwhile.
NoRun == [pc |-> "idle", job |-> {}, todo |-> {}, item |-> {}, seen |-> 0,
          alone |-> TRUE, failed |-> FALSE]

NoJob == [status |-> "none", attempts |-> 0]

Init ==
    /\ source = [i \in Items |-> 0]
    /\ mirror = [i \in Items |-> 0]
    /\ req = [r \in Requests |-> NoRequest]
    /\ pool = <<>>
    /\ jobs = [p \in Payloads |-> NoJob]
    /\ run = [x \in Runners |-> NoRun]
    /\ raced = {}
    /\ weak = {}
    /\ faults = 0

Fault(kind) ==
    /\ kind \in Faults
    /\ faults < MaxFaults
    /\ faults' = faults + 1

-----------------------------------------------------------------------------
(* Requests.                                                               *)

Changed(r) == req[r].edits \cup req[r].inner

\* How often the items were changed, open transactions included.
Edits ==
    MapThenSumSet(LAMBDA i : source[i] + (IF \E r \in Requests : i \in Changed(r) THEN 1 ELSE 0),
                  Items)

\* A handler changes the row, which locks it until the transaction ends, and
\* calls enqueue_docket_sync or enqueue_workflow_task_sync.
Edit(r, i) ==
    /\ req[r].pc \in {"idle", "open"}
    /\ Edits < MaxEdits
    /\ \A q \in Requests \ {r} : i \notin Changed(q)
    /\ req' = [req EXCEPT ![r].pc = "open",
                          ![r].edits = IF req[r].nested THEN @ ELSE @ \cup {i},
                          ![r].inner = IF req[r].nested THEN @ \cup {i} ELSE @,
                          ![r].queue = @ \cup {i}]
    /\ UNCHANGED <<source, mirror, pool, jobs, run, raced, weak, faults>>

\* session.begin_nested()
BeginNested(r) ==
    /\ req[r].pc = "open" /\ ~req[r].nested
    /\ req' = [req EXCEPT ![r].nested = TRUE]
    /\ UNCHANGED <<source, mirror, pool, jobs, run, raced, weak, faults>>

\* The savepoint is released.  after_commit fires and returns at once, since
\* the session is in a nested transaction.
ReleaseDrains(r) ==
    /\ req[r].nested
    /\ req' = [req EXCEPT ![r].nested = FALSE,
                          ![r].edits = @ \cup req[r].inner,
                          ![r].inner = {},
                          ![r].queue = {}]
    /\ pool' = Append(pool, req[r].queue)
    /\ UNCHANGED <<source, mirror, jobs, run, raced, weak, faults>>

Release(r) ==
    /\ req[r].nested
    /\ req' = [req EXCEPT ![r].nested = FALSE,
                          ![r].edits = @ \cup req[r].inner,
                          ![r].inner = {}]
    /\ UNCHANGED <<source, mirror, pool, jobs, run, raced, weak, faults>>

\* The savepoint is rolled back (its insert failed and the caller goes on).
\* after_rollback fires for it too and drops the whole queue.
RollbackNested(r) ==
    /\ req[r].nested
    /\ Fault("savepoint")
    /\ req' = [req EXCEPT ![r].nested = FALSE, ![r].inner = {}, ![r].queue = {},
                          ![r].dropped = @ \cup req[r].queue]
    /\ UNCHANGED <<source, mirror, pool, jobs, run, raced, weak>>

\* The transaction commits and the hook takes the queue.
Commit(r) ==
    /\ req[r].pc = "open" /\ ~req[r].nested
    /\ source' = [i \in Items |-> source[i] + (IF i \in req[r].edits THEN 1 ELSE 0)]
    /\ weak' = (weak \cup (req[r].edits \cap req[r].dropped)) \ req[r].queue
    /\ req' = [req EXCEPT ![r] = IF @.queue = {} THEN NoRequest
                                 ELSE [NoRequest EXCEPT !.pc = "submit",
                                                            !.queue = req[r].queue]]
    /\ UNCHANGED <<mirror, pool, jobs, run, raced, faults>>

\* The transaction is rolled back and the after_rollback hook drops the queue.
Rollback(r) ==
    /\ req[r].pc = "open"
    /\ req' = [req EXCEPT ![r] = NoRequest]
    /\ UNCHANGED <<source, mirror, pool, jobs, run, raced, weak, faults>>

\* _run_operational_sync_immediately: a run is submitted to the pool; when
\* neither the pool nor a detached thread can be had, the run is dropped.
Submit(r) ==
    /\ req[r].pc = "submit"
    /\ req' = [req EXCEPT ![r].pc = "enqueue"]
    /\ \/ /\ pool' = Append(pool, req[r].queue)
          /\ UNCHANGED faults
       \/ /\ Fault("pool")
          /\ UNCHANGED pool
    /\ UNCHANGED <<source, mirror, jobs, run, raced, weak>>

\* _enqueue_deferred_sync_durable: an active job with the same payload stands
\* for this one.  When the enqueue fails, a second run goes to the pool.
Enqueue(r) ==
    LET q == req[r].queue IN
    /\ req[r].pc = "enqueue"
    /\ req' = [req EXCEPT ![r] = NoRequest]
    /\ \/ /\ jobs' = [jobs EXCEPT ![q] = IF @.status = "none"
                                         THEN [status |-> "queued", attempts |-> 0] ELSE @]
          /\ weak' = IF jobs[q].status = "running" THEN weak \cup q ELSE weak
          /\ UNCHANGED <<pool, faults>>
       \/ /\ Fault("db")
          /\ pool' = Append(pool, q)
          /\ weak' = weak \cup q
          /\ UNCHANGED jobs
    /\ UNCHANGED <<source, mirror, run, raced>>

InHook(r) == req[r].pc \in {"submit", "enqueue"}

\* The web process dies, and with it its sessions, its pool and its threads.
Crash ==
    /\ Fault("crash")
    /\ weak' = weak \cup UNION {req[r].queue : r \in {q \in Requests : InHook(q)}}
    /\ req' = [r \in Requests |-> NoRequest]
    /\ pool' = <<>>
    /\ run' = [x \in Runners |-> IF x \in Threads THEN NoRun ELSE run[x]]
    /\ UNCHANGED <<source, mirror, jobs, raced>>

-----------------------------------------------------------------------------
(* Runs.                                                                   *)

\* A pool thread takes the oldest submitted run.
Take(t) ==
    /\ run[t].pc = "idle" /\ pool # <<>>
    /\ run' = [run EXCEPT ![t] = [NoRun EXCEPT !.pc = "loop", !.todo = Head(pool)]]
    /\ pool' = Tail(pool)
    /\ UNCHANGED <<source, mirror, req, jobs, raced, weak, faults>>

\* A worker claims the job and calls run_deferred_sync_task with its payload.
Claim(w, p) ==
    /\ run[w].pc = "idle" /\ jobs[p].status = "queued"
    /\ jobs' = [jobs EXCEPT ![p] = [status |-> "running", attempts |-> @.attempts + 1]]
    /\ run' = [run EXCEPT ![w] = [NoRun EXCEPT !.pc = "loop", !.job = p, !.todo = p]]
    /\ UNCHANGED <<source, mirror, req, pool, raced, weak, faults>>

Holding(i) == {x \in Runners : run[x].item = {i}}

Loaded(x, i, v) ==
    /\ run' = [y \in Runners |->
          IF y = x THEN [run[x] EXCEPT !.pc = "loaded", !.item = {i}, !.seen = v,
                                       !.alone = Holding(i) = {}]
          ELSE [run[y] EXCEPT !.alone = @ /\ y \notin Holding(i)]]
    /\ raced' = IF Holding(i) = {} THEN raced ELSE raced \cup {i}

\* db.session.get: the session was removed after the last item, so the row
\* is read anew.
LoadCached(x, i) ==
    /\ run[x].pc = "loop" /\ i \in run[x].todo
    /\ \E v \in 0..source[i] : Loaded(x, i, v)
    /\ UNCHANGED <<source, mirror, req, pool, jobs, weak, faults>>

Load(x, i) ==
    /\ run[x].pc = "loop" /\ i \in run[x].todo
    /\ Loaded(x, i, source[i])
    /\ UNCHANGED <<source, mirror, req, pool, jobs, weak, faults>>

\* The load is outside the loop's try: when it raises, the run is over.
LoadFails(x) ==
    /\ run[x].pc = "loop" /\ run[x].todo # {}
    /\ Fault("load")
    /\ run' = [run EXCEPT ![x].todo = {}, ![x].failed = TRUE]
    /\ UNCHANGED <<source, mirror, req, pool, jobs, raced, weak>>

Visited(x, ok) ==
    [run EXCEPT ![x].pc = "loop", ![x].todo = @ \ run[x].item, ![x].item = {},
                ![x].seen = 0, ![x].alone = TRUE, ![x].failed = @ \/ ~ok]

\* sync_from_docket_item or sync_from_workflow: the derived rows are created,
\* changed, closed or deleted to fit the version loaded.
Derived(x) == [i \in Items |-> IF i \in run[x].item THEN run[x].seen ELSE mirror[i]]

\* The derived rows are rewritten and committed.
Sync(x) ==
    /\ run[x].pc = "loaded"
    /\ mirror' = Derived(x)
    /\ raced' = IF run[x].alone THEN raced \ run[x].item ELSE raced
    /\ run' = Visited(x, TRUE)
    /\ UNCHANGED <<source, req, pool, jobs, weak, faults>>

\* The sync or its commit raises: the failure is noted, the session rolled
\* back, and the run goes on with the next id.
SyncFails(x) ==
    /\ run[x].pc = "loaded"
    /\ Fault("sync")
    /\ run' = Visited(x, FALSE)
    /\ UNCHANGED <<source, mirror, req, pool, jobs, raced, weak>>

\* A run in the pool only logs its failures.
ThreadEnds(t) ==
    /\ run[t].pc = "loop" /\ run[t].todo = {}
    /\ run' = [run EXCEPT ![t] = NoRun]
    /\ UNCHANGED <<source, mirror, req, pool, jobs, raced, weak, faults>>

\* The job ends: it is queued again while attempts remain, and dead otherwise.
Retry(p, max) ==
    /\ jobs' = [jobs EXCEPT ![p] = IF @.attempts < max THEN [@ EXCEPT !.status = "queued"]
                                   ELSE NoJob]
    /\ weak' = IF jobs[p].attempts < max THEN weak ELSE weak \cup p

\* A run in a worker raises DeferredSyncRunError when an id failed.
WorkerEndsQuietly(w) ==
    /\ run[w].pc = "loop" /\ run[w].todo = {}
    /\ run' = [run EXCEPT ![w] = NoRun]
    /\ jobs' = [jobs EXCEPT ![run[w].job] = NoJob]
    /\ UNCHANGED <<source, mirror, req, pool, raced, weak, faults>>

WorkerEnds(w) ==
    /\ run[w].pc = "loop" /\ run[w].todo = {}
    /\ run' = [run EXCEPT ![w] = NoRun]
    /\ IF run[w].failed THEN Retry(run[w].job, MaxAttempts)
       ELSE /\ jobs' = [jobs EXCEPT ![run[w].job] = NoJob]
            /\ UNCHANGED weak
    /\ UNCHANGED <<source, mirror, req, pool, raced, faults>>

\* A worker dies; its job stays running.
WorkerDies(w) ==
    /\ run[w].pc # "idle"
    /\ Fault("worker")
    /\ run' = [run EXCEPT ![w] = NoRun]
    /\ UNCHANGED <<source, mirror, req, pool, jobs, raced, weak>>

Held(p) == \E w \in Workers : run[w].job = p

\* The queue's recovery finds the lease of the job expired.
Recover(p) ==
    /\ jobs[p].status = "running" /\ ~Held(p)
    /\ Retry(p, MaxAttempts)
    /\ UNCHANGED <<source, mirror, req, pool, run, raced, faults>>

-----------------------------------------------------------------------------
Next ==
    \/ \E r \in Requests :
          \/ \E i \in Items : Edit(r, i)
          \/ BeginNested(r) \/ Release(r) \/ RollbackNested(r)
          \/ Commit(r) \/ Rollback(r) \/ Submit(r) \/ Enqueue(r)
    \/ Crash
    \/ \E t \in Threads : Take(t) \/ ThreadEnds(t)
    \/ \E w \in Workers : (\E p \in Payloads : Claim(w, p)) \/ WorkerEnds(w) \/ WorkerDies(w)
    \/ \E x \in Runners :
          \/ \E i \in Items : Load(x, i)
          \/ LoadFails(x) \/ Sync(x) \/ SyncFails(x)
    \/ \E p \in Payloads : Recover(p)

Spec == Init /\ [][Next]_vars

\* A request that has committed finishes its hook, threads and workers take
\* the work there is and finish it, and the queue's recovery runs.  No
\* request need start, and none that is open need end.
FairSpec ==
    /\ Spec
    /\ \A r \in Requests : WF_vars(Submit(r)) /\ WF_vars(Enqueue(r))
    /\ \A t \in Threads : WF_vars(Take(t)) /\ WF_vars(ThreadEnds(t))
    /\ \A w \in Workers :
          WF_vars(\E p \in Payloads : Claim(w, p)) /\ WF_vars(WorkerEnds(w))
    /\ \A x \in Runners : WF_vars(\E i \in Items : Load(x, i)) /\ WF_vars(Sync(x))
    /\ \A p \in Payloads : WF_vars(Recover(p))

-----------------------------------------------------------------------------
\* Every variable has its type; in particular a job is never started more
\* often than its max_attempts.
TypeOK ==
    /\ source \in [Items -> 0..MaxEdits]
    /\ mirror \in [Items -> 0..MaxEdits]
    /\ req \in [Requests -> [pc : {"idle", "open", "submit", "enqueue"}, nested : BOOLEAN,
                             edits : SUBSET Items, inner : SUBSET Items,
                             queue : SUBSET Items, dropped : SUBSET Items]]
    /\ pool \in Seq(Payloads)
    /\ jobs \in [Payloads -> [status : {"none", "queued", "running"}, attempts : 0..MaxAttempts]]
    /\ run \in [Runners -> [pc : {"idle", "loop", "loaded"}, job : SUBSET Items,
                            todo : SUBSET Items, item : SUBSET Items,
                            seen : 0..MaxEdits, alone : BOOLEAN, failed : BOOLEAN]]
    /\ raced \in SUBSET Items
    /\ weak \in SUBSET Items
    /\ faults \in 0..MaxFaults

\* A worker that runs the job p will still see the last change of i, or will
\* have the job retried.
WillSee(w, p, i) ==
    /\ run[w].job = p
    /\ \/ i \in run[w].todo \ run[w].item
       \/ run[w].item = {i} /\ run[w].seen = source[i]
       \/ run[w].failed

\* The last change of i is in a hook that has not enqueued it yet, in a queued
\* job, in a job whose worker died, or still ahead of the job's worker.
Covered(i) ==
    \/ \E r \in Requests : InHook(r) /\ i \in req[r].queue
    \/ \E p \in Payloads :
          /\ i \in p
          /\ \/ jobs[p].status = "queued"
             \/ /\ jobs[p].status = "running"
                /\ ~Held(p) \/ \E w \in Workers : WillSee(w, p, i)

\* A committed change whose derived rows are out of date is still covered by
\* the hook or by a durable job, whatever pool threads, failed syncs and dead
\* workers do, except where the code gives the guarantee up: the savepoint
\* hook dropped the queue, the process died inside the hook, the enqueue
\* failed or met a running job with the same payload, the job is dead
\* (weak), or two runs held the item at once (raced).
ChangeIsCovered ==
    \A i \in Items : mirror[i] = source[i] \/ Covered(i) \/ i \in weak \/ i \in raced

\* The derived rows never go back to an older version, as long as no two runs
\* hold the item at once: every run reads the item anew after the last one's
\* commit.
NeverBackwards == [][\A i \in Items : i \in raced \/ mirror'[i] >= mirror[i]]_vars

\* The derived rows always catch up with the item.  Without faults this holds
\* even where no durable job is sure to see the change, because the run in
\* the pool does.
CatchesUp ==
    \A i \in Items :
        []<>(mirror[i] = source[i] \/ i \in raced \/ (faults > 0 /\ i \in weak))
=============================================================================
