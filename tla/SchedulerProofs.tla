-------------------------- MODULE SchedulerProofs --------------------------
(***************************************************************************)
(* The advisory lock of the scheduler, for any number of processes and     *)
(* jobs, any crashes, lost sessions and database errors.                   *)
(***************************************************************************)
EXTENDS Scheduler, TLAPS

\* The part of the type invariant that the proofs need.
LifeOK ==
    /\ holder \in Procs \union {NoProc}
    /\ up \in [Procs -> {"down", "marking", "running", "stopped"}]
    /\ sinceCheck \in [Procs -> 0..HealthInterval]
    /\ lostFor \in [Procs -> None..HealthInterval]
    /\ run \in [Procs -> [Jobs -> {"idle", "running", "over"}]]

\* A process: the scheduler starts with the lock, and the time without it is
\* not longer than the time since the last health check.
Supervised(p) ==
    /\ up[p] \in {"marking", "running"} => p = holder \/ lostFor[p] # None
    /\ lostFor[p] <= sinceCheck[p]
    /\ up[p] # "running" => sinceCheck[p] = 0
    /\ \A j \in Jobs : run[p][j] # "idle" => up[p] \in {"running", "stopped"}

LockInv == LifeOK /\ \A p \in Procs : Supervised(p)

LEMMA LockInit == Init => LockInv
BY ConstantsAssumption DEF Init, LockInv, LifeOK, Supervised, None

\* A step of p that touches no other process.
Alone(p) ==
    /\ \A q \in Procs \ {p} : /\ up'[q] = up[q] /\ sinceCheck'[q] = sinceCheck[q]
                              /\ lostFor'[q] = lostFor[q] /\ run'[q] = run[q]
                              /\ holder = q => holder' = q

LEMMA LockAlone ==
    ASSUME LockInv, NEW p \in Procs, LifeOK', Alone(p), Supervised(p)'
    PROVE  LockInv'
<1>1. ASSUME NEW q \in Procs \ {p} PROVE Supervised(q)'
  BY DEF LockInv, Alone, Supervised
<1> QED BY <1>1 DEF LockInv

\* The end of a process.
LEMMA LockExit ==
    ASSUME LockInv, NEW p \in Procs, Exit(p)
    PROVE  LockInv'
<1>1. LifeOK'
  BY ConstantsAssumption DEF LockInv, LifeOK, Exit, None
<1>2. Alone(p)
  BY DEF LockInv, LifeOK, Exit, Alone
<1>3. Supervised(p)'
  BY ConstantsAssumption DEF LockInv, LifeOK, Exit, Supervised, None
<1> QED BY <1>1, <1>2, <1>3, LockAlone

\* A step of a run leaves the processes alone, and begins only in a running one.
LEMMA LockJob ==
    ASSUME LockInv, NEW p \in Procs, NEW j \in Jobs, Job(p, j)
    PROVE  LockInv'
<1>1. UNCHANGED procVars
  BY DEF Job, JobBegin, JobReturns, JobRaises, Finish
<1>2. PICK x \in {"idle", "running", "over"} :
         /\ run' = [run EXCEPT ![p][j] = x]
         /\ x = "idle" \/ run[p][j] # "idle" \/ up[p] = "running"
  BY DEF Job, JobBegin, JobReturns, JobRaises, Finish
<1>3. LifeOK'
  BY <1>1, <1>2 DEF LockInv, LifeOK, procVars
<1>4. Alone(p)
  BY <1>1, <1>2 DEF LockInv, LifeOK, Alone, procVars
<1>5. \A k \in Jobs : run'[p][k] # "idle" => run[p][k] # "idle" \/ up[p] = "running"
  BY <1>2 DEF LockInv, LifeOK
<1>6. Supervised(p)'
  BY <1>1, <1>5 DEF LockInv, Supervised, procVars
<1> QED BY <1>3, <1>4, <1>6, LockAlone

LEMMA LockTick ==
    ASSUME LockInv, Tick
    PROVE  LockInv'
<1>1. ASSUME NEW p \in Procs
      PROVE  /\ sinceCheck'[p] \in 0..HealthInterval /\ lostFor'[p] \in None..HealthInterval
             /\ Supervised(p)'
  <2>1. /\ sinceCheck[p] \in 0..HealthInterval /\ lostFor[p] \in None..HealthInterval
        /\ lostFor[p] <= sinceCheck[p] /\ HealthInterval \in Nat
        /\ up[p] = "running" => sinceCheck[p] < HealthInterval
    BY ConstantsAssumption DEF LockInv, LifeOK, Supervised, Tick
  <2>2. /\ sinceCheck'[p] = IF up[p] = "running" THEN sinceCheck[p] + 1 ELSE 0
        /\ lostFor'[p] = IF up[p] = "running" THEN Older(lostFor[p], HealthInterval + 1) ELSE lostFor[p]
    BY DEF Tick
  <2>3. /\ sinceCheck'[p] \in 0..HealthInterval /\ lostFor'[p] \in None..HealthInterval
        /\ lostFor[p] = None <=> lostFor'[p] = None
        /\ up[p] = "running" => lostFor'[p] <= sinceCheck'[p]
    BY <2>1, <2>2 DEF Older, Least, None
  <2>4. Supervised(p)
    BY DEF LockInv
  <2>5. lostFor'[p] <= sinceCheck'[p]
    BY <2>1, <2>2, <2>3, <2>4 DEF Supervised
  <2> QED BY <2>2, <2>3, <2>4, <2>5 DEF Supervised, Tick
<1>2. LifeOK'
  BY <1>1 DEF LockInv, LifeOK, Tick
<1> QED BY <1>1, <1>2 DEF LockInv

LEMMA LockNext == LockInv /\ [Next]_vars => LockInv'
<1> SUFFICES ASSUME LockInv, [Next]_vars PROVE LockInv'
  OBVIOUS
<1>1. ASSUME NEW p \in Procs, Acquire(p) PROVE LockInv'
  <2>1. LifeOK' /\ Alone(p)
    BY <1>1, ConstantsAssumption DEF LockInv, LifeOK, Acquire, Alone, runVars
  <2>2. Supervised(p)'
    BY <1>1 DEF LockInv, LifeOK, Acquire, Supervised, runVars
  <2> QED BY <2>1, <2>2, LockAlone
<1>2. ASSUME NEW p \in Procs, MarkInterrupted(p) PROVE LockInv'
  <2>1. LifeOK' /\ Alone(p)
    BY <1>2 DEF LockInv, LifeOK, MarkInterrupted, Alone
  <2>2. Supervised(p)'
    BY <1>2 DEF LockInv, LifeOK, MarkInterrupted, Supervised
  <2> QED BY <2>1, <2>2, LockAlone
<1>3. ASSUME NEW p \in Procs, HealthCheck(p) PROVE LockInv'
  <2>1. CASE holder \in {p, NoProc} /\ holder' = p /\ Checked(p)
    <3>1. LifeOK' /\ Alone(p)
      BY <2>1, ConstantsAssumption DEF LockInv, LifeOK, Checked, Alone, runVars, None
    <3>2. Supervised(p)'
      BY <1>3, <2>1, ConstantsAssumption DEF HealthCheck, LockInv, LifeOK, Checked, Supervised, runVars, None
    <3> QED BY <3>1, <3>2, LockAlone
  <2>2. CASE Exit(p)
    BY <2>2, LockExit
  <2>3. CASE /\ up' = [up EXCEPT ![p] = "stopped"] /\ UNCHANGED <<holder, runVars>>
             /\ sinceCheck' = [sinceCheck EXCEPT ![p] = 0] /\ lostFor' = [lostFor EXCEPT ![p] = None]
    <3>1. LifeOK' /\ Alone(p)
      BY <2>3, ConstantsAssumption DEF LockInv, LifeOK, Alone, runVars, None
    <3>2. Supervised(p)'
      BY <2>3, ConstantsAssumption DEF LockInv, LifeOK, Supervised, runVars, None
    <3> QED BY <3>1, <3>2, LockAlone
  <2> QED BY <1>3, <2>1, <2>2, <2>3 DEF HealthCheck
<1>4. ASSUME NEW p \in Procs, Crash(p) PROVE LockInv'
  BY <1>4, LockExit DEF Crash
<1>5. ASSUME NEW p \in Procs, LinkLoss(p) PROVE LockInv'
  <2>1. LifeOK' /\ Alone(p)
    BY <1>5, ConstantsAssumption DEF LockInv, LifeOK, LinkLoss, Alone, runVars, None
  <2>2. Supervised(p)'
    BY <1>5 DEF LockInv, LifeOK, LinkLoss, Supervised, runVars, None
  <2> QED BY <2>1, <2>2, LockAlone
<1>6. CASE UNCHANGED vars
  BY <1>6 DEF vars, procVars, runVars, LockInv, LifeOK, Supervised
<1> QED BY <1>1, <1>2, <1>3, <1>4, <1>5, <1>6, LockJob, LockTick DEF Next, Proc

\* A job is executed under the advisory lock, or within one health-check
\* interval of its loss, or as the last run of a scheduler that was stopped.
THEOREM JobsRunUnderLock == Spec => []RunsUnderLock
<1>1. LockInv => RunsUnderLock
  <2> SUFFICES ASSUME LockInv, NEW p \in Procs, NEW j \in Jobs, run[p][j] # "idle"
               PROVE  p = holder \/ lostFor[p] \in 0..HealthInterval \/ up[p] = "stopped"
    BY DEF RunsUnderLock
  <2>1. up[p] \in {"running", "stopped"} /\ (up[p] = "running" => p = holder \/ lostFor[p] # None)
    BY DEF LockInv, Supervised
  <2>2. lostFor[p] # None => lostFor[p] \in 0..HealthInterval
    BY ConstantsAssumption DEF LockInv, LifeOK, None
  <2> QED BY <2>1, <2>2
<1> QED BY LockInit, LockNext, <1>1, PTL DEF Spec

\* The start of a scheduler that has the lock interrupts no run of a process
\* that has it too: there is no such process.
THEOREM StartInterruptsDeadRuns == Spec => OnlyDeadRunsInterrupted
<1> DEFINE Spared == \A p \in Procs : p = holder /\ MarkInterrupted(p)
                        => \A q \in Procs, j \in Jobs :
                              run[q][j] = "running" /\ up[q] = "running" /\ lostFor[q] = None
                                => row'[q][j] = row[q][j]
<1>1. LockInv => Spared
  BY DEF LockInv, Supervised, MarkInterrupted
<1>2. LockInv /\ [Next]_vars => [Spared]_vars
  BY <1>1
<1> QED BY LockInit, LockNext, <1>2, PTL DEF Spec, OnlyDeadRunsInterrupted
=============================================================================
