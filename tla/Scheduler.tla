----------------------------- MODULE Scheduler -----------------------------
(***************************************************************************)
(* The background scheduler (services/ops/scheduler.py, run_scheduler.py)  *)
(* and its journal, the table job_runs.                                    *)
(*                                                                         *)
(* Several scheduler processes may be started; a PostgreSQL advisory lock  *)
(* lets one of them run.  The lock belongs to a database session, so it is *)
(* gone when that session ends, which the process finds out at its next    *)
(* health check.  A job executes in the process that fired it, at most     *)
(* once at a time there, and back-off after failures is kept in memory.    *)
(*                                                                         *)
(* Of job_runs the model keeps, per process and job, the row of the run in *)
(* progress, and per job the age of the youngest open row whose run is     *)
(* over (its process died, or closing it failed).                          *)
(***************************************************************************)
EXTENDS Integers, FiniteSets

CONSTANTS
    Procs, Jobs, NoProc,
    Housekeeping,    \* the job daily_housekeeping, a member of Jobs
    HealthInterval,  \* SCHEDULER_LOCK_HEALTHCHECK_SECONDS
    StaleAfter,      \* age at which housekeeping closes an open row
    BackoffBase, BackoffCap,
    ExitOnLoss,      \* processes with SCHEDULER_EXIT_ON_LOCK_LOSS
    Faults,          \* subset of {"crash", "link", "db"}
    MaxFaults        \* bound on those

VARIABLES
    holder,                 \* whose session has the advisory lock
    up,                     \* per process: down, marking, running, stopped
    sinceCheck, lostFor,    \* time since the last health check; time running without the lock
    run, row, runAge,       \* per process and job: the run, its job_runs row, its age
    failures, delay,        \* back-off state, per process and job
    orphan,                 \* per job: age of the youngest open row without a run
    faults

procVars == <<holder, up, sinceCheck, lostFor>>
runVars  == <<run, row, runAge>>
backVars == <<failures, delay>>
vars     == <<procVars, runVars, backVars, orphan, faults>>

ASSUME ConstantsAssumption ==
    /\ Housekeeping \in Jobs /\ NoProc \notin Procs
    /\ HealthInterval \in Nat \ {0} /\ StaleAfter \in Nat \ {0}
    /\ BackoffBase \in Nat \ {0} /\ BackoffCap \in Nat \ {0}
    /\ ExitOnLoss \subseteq Procs /\ MaxFaults \in Nat

None == -1  \* no orphan row; the lock is not lost

Least(x, y) == IF x < y THEN x ELSE y
MaxOf(x, y) == IF x > y THEN x ELSE y

\* record_failure: the delay after n failures in a row.  Failures that give
\* the same delay are not told apart.
BackoffOf(n) == Least(MaxOf(BackoffBase, BackoffCap), BackoffBase * 2 ^ MaxOf(0, n - 1))
MaxFailures  == BackoffCap + 1

Fault(kind) == kind \in Faults /\ faults < MaxFaults /\ faults' = faults + 1
-----------------------------------------------------------------------------
Init ==
    /\ holder = NoProc /\ up = [p \in Procs |-> "down"]
    /\ sinceCheck = [p \in Procs |-> 0] /\ lostFor = [p \in Procs |-> None]
    /\ run      = [p \in Procs |-> [j \in Jobs |-> "idle"]]
    /\ row      = [p \in Procs |-> [j \in Jobs |-> "none"]]
    /\ runAge   = [p \in Procs |-> [j \in Jobs |-> 0]]
    /\ failures = [p \in Procs |-> [j \in Jobs |-> 0]]
    /\ delay    = [p \in Procs |-> [j \in Jobs |-> 0]]
    /\ orphan = [j \in Jobs |-> None] /\ faults = 0
-----------------------------------------------------------------------------
(* Life of a process. *)

\* Mutated form: the answer of pg_try_advisory_lock is not looked at.
AcquireAnyway(p) ==
    /\ up[p] = "down"
    /\ holder' = IF holder = NoProc THEN p ELSE holder
    /\ up' = [up EXCEPT ![p] = "marking"]
    /\ UNCHANGED <<sinceCheck, lostFor, runVars, backVars, orphan, faults>>
\* init_app: pg_try_advisory_lock.  A process that does not get it exits and
\* is started again.
Acquire(p) ==
    /\ up[p] = "down" /\ holder = NoProc
    /\ holder' = p /\ up' = [up EXCEPT ![p] = "marking"]
    /\ UNCHANGED <<sinceCheck, lostFor, runVars, backVars, orphan, faults>>

\* An open row is closed as failed.
CloseRow(r) == IF r = "open" THEN "closed" ELSE r

\* _mark_interrupted_job_runs_on_startup, whose errors are swallowed, and
\* scheduler.start.
MarkInterrupted(p) ==
    /\ up[p] = "marking"
    /\ up' = [up EXCEPT ![p] = "running"]
    /\ \/ /\ row' = [q \in Procs |-> [j \in Jobs |-> CloseRow(row[q][j])]]
          /\ orphan' = [j \in Jobs |-> None]
          /\ UNCHANGED faults
       \/ Fault("db") /\ UNCHANGED <<row, orphan>>
    /\ UNCHANGED <<holder, sinceCheck, lostFor, run, runAge, backVars>>

\* The process ends, its runs with it; open rows stay behind.
Exit(p) ==
    /\ up' = [up EXCEPT ![p] = "down"]
    /\ holder' = IF holder = p THEN NoProc ELSE holder
    /\ sinceCheck' = [sinceCheck EXCEPT ![p] = 0] /\ lostFor' = [lostFor EXCEPT ![p] = None]
    /\ orphan'   = [j \in Jobs |-> IF row[p][j] = "open" THEN runAge[p][j] ELSE orphan[j]]
    /\ run'      = [run EXCEPT ![p] = [j \in Jobs |-> "idle"]]
    /\ row'      = [row EXCEPT ![p] = [j \in Jobs |-> "none"]]
    /\ runAge'   = [runAge EXCEPT ![p] = [j \in Jobs |-> 0]]
    /\ failures' = [failures EXCEPT ![p] = [j \in Jobs |-> 0]]
    /\ delay'    = [delay EXCEPT ![p] = [j \in Jobs |-> 0]]

Crash(p) == up[p] # "down" /\ Fault("crash") /\ Exit(p)

\* The session with the lock ends (restart of the server, network); the
\* process goes on.
LinkLoss(p) ==
    /\ holder = p /\ Fault("link")
    /\ holder' = NoProc /\ lostFor' = [lostFor EXCEPT ![p] = 0]
    /\ UNCHANGED <<up, sinceCheck, runVars, backVars, orphan>>

\* The lock is still ours, or is ours again.
Checked(p) ==
    /\ sinceCheck' = [sinceCheck EXCEPT ![p] = 0] /\ lostFor' = [lostFor EXCEPT ![p] = None]
    /\ UNCHANGED <<up, runVars, backVars, orphan>>

\* Mutated form: a lock that cannot be had again does not stop the scheduler.
HealthCheckGoesOn(p) ==
    /\ up[p] = "running"
    /\ IF holder = NoProc
       THEN holder' = p /\ Checked(p)
       ELSE /\ sinceCheck' = [sinceCheck EXCEPT ![p] = 0]
            /\ UNCHANGED <<holder, up, lostFor, runVars, backVars, orphan>>
    /\ UNCHANGED faults
\* _run_scheduler_lock_health_check with _recover_postgres_scheduler_lock.
\* shutdown(wait=False) lets the runs in progress end.
HealthCheck(p) ==
    /\ up[p] = "running"
    /\ \/ holder = p /\ Checked(p) /\ UNCHANGED <<holder, faults>>
       \/ holder = NoProc /\ holder' = p /\ Checked(p) /\ UNCHANGED faults
       \/ /\ holder # p
          /\ \/ holder # NoProc /\ UNCHANGED faults
             \/ holder = NoProc /\ Fault("db")
          /\ \/ p \in ExitOnLoss /\ Exit(p)
             \/ /\ p \notin ExitOnLoss /\ up' = [up EXCEPT ![p] = "stopped"]
                /\ sinceCheck' = [sinceCheck EXCEPT ![p] = 0] /\ lostFor' = [lostFor EXCEPT ![p] = None]
                /\ UNCHANGED <<holder, runVars, backVars, orphan>>
-----------------------------------------------------------------------------
(* _run_with_job_log. *)

\* A trigger fires.  A run in back-off is skipped (its row is closed from the
\* start); otherwise it begins, with an open row unless the INSERT failed.
JobBegin(p, j) ==
    /\ up[p] = "running" /\ run[p][j] = "idle"
    /\ delay[p][j] = 0
    /\ run'    = [run EXCEPT ![p][j] = "running"]
    /\ runAge' = [runAge EXCEPT ![p][j] = 0]
    /\ \/ row' = [row EXCEPT ![p][j] = "open"] /\ UNCHANGED faults
       \/ Fault("db") /\ UNCHANGED row
    /\ UNCHANGED <<procVars, backVars, orphan>>

\* Mutated form: only rows of runs in progress are found.
CleanNothing(j) ==
    /\ row' = [q \in Procs |-> [k \in Jobs |->
                 IF j = Housekeeping /\ runAge[q][k] >= StaleAfter THEN CloseRow(row[q][k]) ELSE row[q][k]]]
    /\ UNCHANGED orphan
\* What the runner of j does to job_runs: the one of run_housekeeping calls
\* cleanup_stale_job_runs, which does not ask whether a run is over.
CleanStale(j) ==
    /\ row' = [q \in Procs |-> [k \in Jobs |->
                 IF j = Housekeeping /\ runAge[q][k] >= StaleAfter THEN CloseRow(row[q][k]) ELSE row[q][k]]]
    /\ orphan' = [k \in Jobs |-> IF j = Housekeeping /\ orphan[k] >= StaleAfter THEN None ELSE orphan[k]]

\* ... unless the database failed it there or earlier.
Works(j) ==
    \/ CleanStale(j) /\ UNCHANGED faults
    \/ j = Housekeeping /\ Fault("db") /\ UNCHANGED <<row, orphan>>

\* The runner returns; its failures are forgotten.
JobReturns(p, j) ==
    /\ run[p][j] = "running" /\ Works(j)
    /\ run'      = [run EXCEPT ![p][j] = "over"]
    /\ failures' = [failures EXCEPT ![p][j] = 0]
    /\ delay'    = [delay EXCEPT ![p][j] = 0]
    /\ UNCHANGED <<procVars, runAge>>

\* The runner raises; record_failure.
JobRaises(p, j) ==
    /\ run[p][j] = "running" /\ Works(j)
    /\ run' = [run EXCEPT ![p][j] = "over"]
    /\ failures' = [failures EXCEPT ![p][j] = Least(@ + 1, MaxFailures)]
    /\ delay'    = [delay EXCEPT ![p][j] = BackoffOf(failures[p][j] + 1)]
    /\ UNCHANGED <<procVars, runAge>>

\* Mutated form: an error of the journal escapes and the instance is never freed.
FinishKeepsRun(p, j) ==
    /\ run[p][j] = "over" /\ Fault("db")
    /\ UNCHANGED <<procVars, runVars, backVars, orphan>>
\* _finish_job_run closes the row, whatever its status; an error is
\* swallowed and an open row stays open.
Finish(p, j) ==
    /\ run[p][j] = "over"
    /\ run'    = [run EXCEPT ![p][j] = "idle"]
    /\ runAge' = [runAge EXCEPT ![p][j] = 0]
    /\ row'    = [row EXCEPT ![p][j] = "none"]
    /\ \/ UNCHANGED <<orphan, faults>>
       \/ /\ Fault("db")
          /\ orphan' = [orphan EXCEPT ![j] = IF row[p][j] = "open" THEN runAge[p][j] ELSE @]
    /\ UNCHANGED <<procVars, backVars>>
-----------------------------------------------------------------------------
Older(age, bound) == IF age = None THEN None ELSE Least(age + 1, bound)

\* Time passes.  Health checks are punctual.
Tick ==
    /\ \A p \in Procs : up[p] = "running" => sinceCheck[p] < HealthInterval
    /\ sinceCheck' = [p \in Procs |-> IF up[p] = "running" THEN sinceCheck[p] + 1 ELSE 0]
    /\ lostFor' = [p \in Procs |-> IF up[p] = "running" THEN Older(lostFor[p], HealthInterval + 1) ELSE lostFor[p]]
    /\ runAge'  = [p \in Procs |-> [j \in Jobs |->
                     IF run[p][j] = "idle" THEN 0 ELSE Least(runAge[p][j] + 1, StaleAfter)]]
    /\ orphan'  = [j \in Jobs |-> Older(orphan[j], StaleAfter)]
    /\ delay'   = [p \in Procs |-> [j \in Jobs |-> MaxOf(0, delay[p][j] - 1)]]
    /\ UNCHANGED <<holder, up, run, row, failures, faults>>

Proc(p) == Acquire(p) \/ MarkInterrupted(p)
Job(p, j) == JobBegin(p, j) \/ JobReturns(p, j) \/ JobRaises(p, j) \/ Finish(p, j)

Next ==
    \/ Tick
    \/ \E p \in Procs : Proc(p) \/ HealthCheck(p) \/ Crash(p) \/ LinkLoss(p)
    \/ \E p \in Procs, j \in Jobs : Job(p, j)

Spec == Init /\ [][Next]_vars

\* Time passes, a process that ended is started again (restart: always),
\* triggers fire again and again and runners end.
FairSpec ==
    /\ Spec /\ WF_vars(Tick)
    /\ \A p \in Procs : WF_vars(Proc(p)) /\ WF_vars(HealthCheck(p))
    /\ \A p \in Procs, j \in Jobs : WF_vars(Job(p, j))
-----------------------------------------------------------------------------
(* Properties. *)

\* The scheduler's variables have their types; a row is open only during a
\* run, and back-off stays below its cap.
TypeOK ==
    /\ holder \in Procs \union {NoProc}
    /\ up \in [Procs -> {"down", "marking", "running", "stopped"}]
    /\ sinceCheck \in [Procs -> 0..HealthInterval]
    /\ lostFor    \in [Procs -> None..(HealthInterval + 1)]
    /\ run      \in [Procs -> [Jobs -> {"idle", "running", "over"}]]
    /\ row      \in [Procs -> [Jobs -> {"none", "open", "closed"}]]
    /\ runAge   \in [Procs -> [Jobs -> 0..StaleAfter]]
    /\ failures \in [Procs -> [Jobs -> 0..MaxFailures]]
    /\ delay    \in [Procs -> [Jobs -> 0..MaxOf(BackoffBase, BackoffCap)]]
    /\ orphan   \in [Jobs -> None..StaleAfter]
    /\ faults \in 0..MaxFaults
    /\ \A p \in Procs, j \in Jobs : row[p][j] # "none" => run[p][j] # "idle"

\* A job is executed only by the process that has the advisory lock, or that
\* lost it less than a health-check interval ago, or, once stopped for that,
\* lets its last run end.  So no job runs in two processes while sessions live
\* (max_instances = 1), and never for longer than that interval.
RunsUnderLock ==
    \A p \in Procs, j \in Jobs : run[p][j] # "idle"
        => p = holder \/ lostFor[p] \in 0..HealthInterval \/ up[p] = "stopped"

\* What a starting scheduler with the lock closes as "interrupted" is the row of a run that
\* is over ("left open by a previous scheduler process"), or of a process that
\* has lost the lock.
OnlyDeadRunsInterrupted ==
    [][\A p \in Procs : p = holder /\ MarkInterrupted(p)
          => \A q \in Procs, j \in Jobs :
                run[q][j] = "running" /\ up[q] = "running" /\ lostFor[q] = None
                  => row'[q][j] = row[q][j]]_vars

\* A job runs in one process at a time (max_instances = 1 under the advisory lock).
SingleInstance == \A j \in Jobs : Cardinality({p \in Procs : run[p][j] # "idle"}) <= 1

\* A row left open is closed, by the next start or by housekeeping.
OpenRowsClose == \A j \in Jobs : (orphan[j] # None) ~> (orphan[j] = None)

\* Whatever fails or crashes, every job is executed again and again.
JobsKeepRunning == \A j \in Jobs : []<>(\E p \in Procs : run[p][j] = "running")
=============================================================================
