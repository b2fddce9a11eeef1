------------------------- MODULE DurableQueueProofs -------------------------
(***************************************************************************)
(* What holds of the durable queue for any number of jobs, workers,        *)
(* producers, administrators and faults, and any timing constants.         *)
(***************************************************************************)
EXTENDS DurableQueue, FiniteSetTheorems, TLAPS

\* The powers of two that _backoff_seconds computes are natural numbers.
LEMMA PowerType == ASSUME NEW n \in Nat PROVE 2 ^ n \in Nat
<1>1. IsFiniteSet(1..n)
  BY FS_Interval, SMT
<1>2. Cardinality(1..n) = n
  BY FS_Interval, SMT
<1>3. IsFiniteSet(SUBSET (1..n)) /\ Cardinality(SUBSET (1..n)) = 2 ^ n
  BY <1>1, <1>2, FS_SUBSET, Zenon
<1> QED BY <1>3, FS_CardinalityType, Zenon

\* _backoff_seconds never returns a negative delay and never exceeds its cap.
LEMMA BackoffBounded ==
    ASSUME NEW n \in Nat
    PROVE  BackoffOf(n) \in Nat /\ BackoffOf(n) <= MaxBackoff
<1> DEFINE e == AtLeast(0, n - 1)
<1>1. e \in Nat
  BY DEF AtLeast
<1>2. 2 ^ e \in Nat
  BY <1>1, PowerType, Zenon
<1> QED BY <1>2, ConstantsAssumption DEF BackoffOf

\* The heartbeat interval and the age at which a lock is stale are natural numbers.
LEMMA IntervalType == BeatInterval \in Nat \ {0} /\ StaleAge \in Nat \ {0}
  BY ConstantsAssumption DEF BeatInterval, StaleAge, AtLeast, AtMost

\* The types hold before any job is enqueued.
LEMMA TypeInit == Init => TypeOK
  BY ConstantsAssumption, IntervalType
  DEF Init, TypeOK, RowsOK, ProcsOK, NoLock, Active, Terminal, Marking

-----------------------------------------------------------------------------
(* Each kind of column write and each process move keeps the types. *)

\* Putting rows back to queued, as the recoveries and mark_failed do.
LEMMA RequeueType ==
    ASSUME RowsOK, NEW R \in SUBSET Jobs, NEW d \in Nat, UNCHANGED <<spec, attempts>>,
           SetStatus(R, "queued"), SetDelay(R, d), Unlock(R)
    PROVE  RowsOK'
  BY IntervalType DEF RowsOK, SetStatus, SetDelay, Unlock, Active, NoLock

\* Recording an outcome, as the marks do.
LEMMA SettleType ==
    ASSUME RowsOK, NEW R \in SUBSET Jobs, NEW s \in Terminal, UNCHANGED <<spec, attempts, delay>>,
           SetStatus(R, s), Unlock(R)
    PROVE  RowsOK'
  BY IntervalType DEF RowsOK, SetStatus, Unlock, NoLock

\* A step that writes no row.
LEMMA SameRows == ASSUME RowsOK, UNCHANGED jobVars PROVE RowsOK'
  BY Zenon DEF RowsOK, jobVars

\* A worker that goes to rest.
LEMMA RestType ==
    ASSUME ProcsOK, NEW w \in Workers, NEW l \in {"idle", "down"}, Rest(w, l) PROVE ProcsOK'
  BY IntervalType DEF ProcsOK, Rest, Become

\* A mark that raises.
LEMMA RaiseType == ASSUME ProcsOK, NEW w \in Workers, MarkRaises(w) PROVE ProcsOK'
<1>1. CASE Rest(w, "down") \/ Rest(w, "idle")
  BY <1>1, RestType, Zenon
<1>2. CASE /\ try' = [try EXCEPT ![w] = 2]
           /\ pc' = [pc EXCEPT ![w] = IF @ \in {"failing", "failing_write"} THEN "failing" ELSE "succeeding"]
           /\ UNCHANGED <<cur, snap, hb, beat, lag>>
  BY <1>2 DEF ProcsOK, Marking
<1>3. CASE /\ pc' = [pc EXCEPT ![w] = "forcing"]
           /\ UNCHANGED <<cur, try, snap, hb, beat, lag>>
  BY <1>3, Zenon DEF ProcsOK, Marking
<1> QED BY <1>1, <1>2, <1>3, Zenon DEF MarkRaises

\* The fault budget stays a number.
LEMMA FaultType == ASSUME TypeOK, NEW k, Fault(k) PROVE faults' \in Nat
  BY DEF TypeOK, Fault
-----------------------------------------------------------------------------
\* Every step of the system keeps the types: one case per action.
LEMMA TypeStep == TypeOK /\ [Next]_vars => TypeOK'
<1> SUFFICES ASSUME TypeOK, [Next]_vars PROVE TypeOK'
  OBVIOUS
<1>0. RowsOK /\ ProcsOK
  BY Zenon DEF TypeOK
<1> USE ConstantsAssumption, IntervalType
<1>1. CASE Tick
  <2>1. RowsOK'
    BY <1>0, <1>1 DEF Tick, RowsOK, AtLeast, AtMost, NoLock
  <2>2. ProcsOK'
    BY <1>0, <1>1 DEF Tick, ProcsOK, AtMost
  <2> QED BY <1>1, <2>1, <2>2, Zenon DEF Tick, TypeOK, histVars
<1>2. ASSUME NEW p \in Producers, NEW r \in Requests, EnqueueFind(p, r) PROVE TypeOK'
  <2>1. RowsOK' /\ ProcsOK'
    BY <1>0, <1>2, Zenon DEF EnqueueFind, RowsOK, ProcsOK, jobVars, procVars
  <2> QED BY <1>2, <2>1, Zenon DEF EnqueueFind, TypeOK, procVars, histVars
<1>3. ASSUME NEW p \in Producers, NEW j \in Jobs, EnqueueInsert(p, j) PROVE TypeOK'
  <2>1. prod[p] \in SUBSET Requests
    BY Zenon DEF TypeOK
  <2>2. RowsOK'
    BY <1>0, <1>3, <2>1 DEF EnqueueInsert, RowsOK, jobVars, Active
  <2>3. ProcsOK'
    BY <1>0, <1>3, Zenon DEF EnqueueInsert, ProcsOK, procVars
  <2> QED BY <1>3, <2>2, <2>3, Zenon DEF EnqueueInsert, TypeOK, procVars, histVars
<1>4. ASSUME NEW w \in Workers, StartRead(w) PROVE TypeOK'
  <2>1. ProcsOK'
    BY <1>0, <1>4, Zenon DEF StartRead, Become, ProcsOK
  <2> QED BY <1>0, <1>4, <2>1, SameRows DEF StartRead, TypeOK, histVars
<1>5. ASSUME NEW w \in Workers, StartWrite(w) PROVE TypeOK'
  <2>1. ProcsOK'
    BY <1>0, <1>5, RestType, Zenon DEF StartWrite
  <2>2. cur[w] \in SUBSET Jobs
    BY <1>0, Zenon DEF ProcsOK
  <2>3. RowsOK' /\ faults' \in Nat
    BY <1>0, <1>5, <2>2, SameRows, RequeueType, FaultType, Zenon DEF StartWrite, TypeOK
  <2> QED BY <1>5, <2>1, <2>3, Zenon DEF StartWrite, TypeOK, histVars
<1>6. ASSUME NEW w \in Workers, RecoverStale(w) PROVE TypeOK'
  <2>1. ProcsOK'
    BY <1>0, <1>6, Zenon DEF RecoverStale, Become, ProcsOK
  <2>2. RowsOK' /\ faults' \in Nat
    BY <1>0, <1>6, SameRows, RequeueType, FaultType, Zenon DEF RecoverStale, TypeOK
  <2> QED BY <1>6, <2>1, <2>2, Zenon DEF RecoverStale, TypeOK, histVars
<1>7. ASSUME NEW w \in Workers, ClaimNone(w) PROVE TypeOK'
  BY <1>0, <1>7, RestType, SameRows, Zenon DEF ClaimNone, TypeOK, histVars
<1>8. ASSUME NEW w \in Workers, NEW j \in Jobs, Claim(w, j) PROVE TypeOK'
  <2>1. RowsOK'
    BY <1>0, <1>8, SMTT(30) DEF Claim, RowsOK, ProcsOK, AtMost, Active, NoLock
  <2>2. ProcsOK'
    <3>1. /\ UNCHANGED <<try, snap, beat>>
          /\ lag' = [lag EXCEPT ![w] = 0]
          /\ cur' = [cur EXCEPT ![w] = {j}]
      BY <1>8, Zenon DEF Claim, Become
    <3>2. CASE pc' = [pc EXCEPT ![w] = "handling"] /\ hb' = [hb EXCEPT ![w] = TRUE]
      BY <1>0, <3>1, <3>2 DEF ProcsOK
    <3>3. CASE pc' = [pc EXCEPT ![w] = "failing"] /\ UNCHANGED hb
      BY <1>0, <3>1, <3>3 DEF ProcsOK, Marking
    <3> QED BY <1>8, <3>2, <3>3, Zenon DEF Claim, Become
  <2> QED BY <1>8, <2>1, <2>2, Zenon DEF Claim, TypeOK, histVars
<1>9. ASSUME NEW w \in Workers, NEW j \in Jobs, MarkRead(w, j) PROVE TypeOK'
  <2>1. CASE Rest(w, "idle")
    BY <1>0, <1>9, <2>1, RestType, SameRows, Zenon DEF MarkRead, TypeOK, histVars
  <2>2. CASE ~Rest(w, "idle")
    <3>1. ProcsOK'
      BY <1>0, <1>9, <2>2 DEF MarkRead, ProcsOK, RowsOK, Marking
    <3> QED BY <1>0, <1>9, <3>1, SameRows, Zenon DEF MarkRead, TypeOK, histVars
  <2> QED BY <2>1, <2>2, Zenon
<1>10. ASSUME NEW w \in Workers, NEW j \in Jobs, MarkSucceeded(w, j) PROVE TypeOK'
  <2>1. RowsOK'
    BY <1>0, <1>10, SettleType, Zenon DEF MarkSucceeded, Terminal
  <2> QED BY <1>0, <1>10, <2>1, RestType, Zenon DEF MarkSucceeded, TypeOK, histVars
<1>11. ASSUME NEW w \in Workers, NEW j \in Jobs, MarkFailed(w, j) PROVE TypeOK'
  <2>1. BackoffOf(snap[w]) \in Nat
    BY <1>0, BackoffBounded, Zenon DEF ProcsOK
  <2>2. RowsOK'
    <3>1. CASE SetStatus({j}, "queued") /\ SetDelay({j}, BackoffOf(snap[w])) /\ Unlock({j})
               /\ UNCHANGED <<spec, attempts>>
      BY <1>0, <2>1, <3>1, RequeueType, Zenon
    <3>2. CASE SetStatus({j}, "failed") /\ Unlock({j}) /\ UNCHANGED <<spec, attempts, delay>>
      BY <1>0, <3>2, SettleType, Zenon DEF Terminal
    <3> QED BY <1>0, <1>11, <3>1, <3>2, SameRows, Zenon DEF MarkFailed
  <2>3. ProcsOK'
    BY <1>0, <1>11, RestType, RaiseType, Zenon DEF MarkFailed
  <2> QED BY <1>11, <2>2, <2>3, Zenon DEF MarkFailed, TypeOK, histVars
<1>12. ASSUME NEW w \in Workers, ForceFailed(w) PROVE TypeOK'
  <2>1. cur[w] \in SUBSET Jobs
    BY <1>0 DEF ProcsOK
  <2>2. RowsOK' /\ faults' \in Nat /\ forced' \subseteq Jobs
    BY <1>0, <1>12, <2>1, SettleType, SameRows, FaultType, Zenon DEF ForceFailed, TypeOK, Terminal
  <2> QED BY <1>0, <1>12, <2>2, RestType, Zenon DEF ForceFailed, TypeOK
<1>13. ASSUME NEW w \in Workers, HandlerReturns(w) PROVE TypeOK'
  <2>1. ProcsOK' /\ returned' \subseteq Jobs
    BY <1>0, <1>13 DEF HandlerReturns, ProcsOK, TypeOK, Marking
  <2> QED BY <1>0, <1>13, <2>1, SameRows, Zenon DEF HandlerReturns, TypeOK
<1>14. ASSUME NEW w \in Workers, HandlerRaises(w) PROVE TypeOK'
  <2>1. ProcsOK'
    BY <1>0, <1>14 DEF HandlerRaises, ProcsOK, Marking
  <2> QED BY <1>0, <1>14, <2>1, SameRows, Zenon DEF HandlerRaises, TypeOK, histVars
<1>15. ASSUME NEW w \in Workers, Beat(w) PROVE TypeOK'
  <2>1. RowsOK'
    BY <1>0, <1>15 DEF Beat, RowsOK, NoLock
  <2>2. ProcsOK'
    BY <1>0, <1>15, Zenon DEF Beat, ProcsOK
  <2>3. faults' \in Nat
    BY <1>15, FaultType, Zenon DEF Beat, TypeOK
  <2> QED BY <1>15, <2>1, <2>2, <2>3, Zenon DEF Beat, TypeOK, histVars
<1>16. ASSUME NEW w \in Workers, Stop(w) PROVE TypeOK'
  BY <1>0, <1>16, RestType, SameRows, FaultType, Zenon DEF Stop, TypeOK, histVars
<1>17. ASSUME NEW w \in Workers, MarkError(w) PROVE TypeOK'
  BY <1>0, <1>17, RaiseType, SameRows, FaultType, Zenon DEF MarkError, TypeOK, histVars
<1>18. ASSUME NEW w \in Workers, Crash(w) PROVE TypeOK'
  BY <1>0, <1>18, RestType, SameRows, FaultType, Zenon DEF Crash, TypeOK, histVars
<1>19. ASSUME NEW a \in Admins, NEW op \in {"retry", "cancel"}, NEW j \in Jobs, AdminRead(a, op, j)
       PROVE  TypeOK'
  <2>1. ProcsOK'
    BY <1>0, <1>19, Zenon DEF AdminRead, ProcsOK, procVars
  <2> QED BY <1>0, <1>19, <2>1, SameRows, FaultType, SMTT(30)
          DEF AdminRead, TypeOK, RowsOK, procVars, histVars, Active, Terminal
<1>20. ASSUME NEW a \in Admins, NEW s \in adm[a], AdminWrite(a, s) PROVE TypeOK'
  <2>1. s.job \in Jobs
    BY DEF TypeOK
  <2>2. RowsOK'
    BY <1>0, <1>20, <2>1, SMTT(30) DEF AdminWrite, OrmSet, SetStatus, SetDelay, RowsOK, jobVars, Active, Terminal, NoLock
  <2>3. ProcsOK'
    BY <1>0, <1>20, Zenon DEF AdminWrite, ProcsOK, procVars
  <2> QED BY <1>20, <2>2, <2>3, Zenon DEF AdminWrite, TypeOK, procVars, histVars
<1>21. CASE UNCHANGED vars
  BY <1>0, <1>21, Zenon DEF TypeOK, RowsOK, ProcsOK, vars, jobVars, procVars, histVars
<1> QED BY Zenon, <1>1, <1>2, <1>3, <1>4, <1>5, <1>6, <1>7, <1>8, <1>9, <1>10, <1>11, <1>12, <1>13, <1>14,
           <1>15, <1>16, <1>17, <1>18, <1>19, <1>20, <1>21 DEF Next, Worker, Handler

\* The columns and the process state keep their types in every behaviour.
THEOREM TypeCorrect == Spec => []TypeOK
  BY TypeInit, TypeStep, PTL DEF Spec
-----------------------------------------------------------------------------
(* A worker that handles or marks has exactly one job in hand. *)

Busy == Marking \union {"handling"}
OneJob == \A w \in Workers : pc[w] \in Busy => \E j \in Jobs : cur[w] = {j}

\* Only one worker moves, and afterwards it is not busy or has one job.
LEMMA OneJobMove ==
    ASSUME ProcsOK, OneJob, NEW w \in Workers, NEW l, NEW R,
           pc' = [pc EXCEPT ![w] = l], cur' = [cur EXCEPT ![w] = R],
           l \notin Busy \/ \E j \in Jobs : R = {j}
    PROVE  OneJob'
  BY Zenon DEF ProcsOK, OneJob

\* Going to rest, and going on with the job in hand, are such moves.
LEMMA OneJobRest ==
    ASSUME ProcsOK, OneJob, NEW w \in Workers, Rest(w, "idle") \/ Rest(w, "down") PROVE OneJob'
<1>1. /\ pc' = [pc EXCEPT ![w] = "idle"] \/ pc' = [pc EXCEPT ![w] = "down"]
      /\ cur' = [cur EXCEPT ![w] = {}]
  BY Zenon DEF Rest, Become
<1>2. "idle" \notin Busy /\ "down" \notin Busy
  BY Zenon DEF Busy, Marking
<1> QED BY <1>1, <1>2, Zenon DEF ProcsOK, OneJob

\* A step that moves no worker.
LEMMA OneJobSame ==
    ASSUME ProcsOK, OneJob, NEW w \in Workers, NEW l,
           pc[w] \in Busy, pc' = [pc EXCEPT ![w] = l], cur' = cur
    PROVE  OneJob'
  BY Zenon DEF ProcsOK, OneJob

\* A mark that raises keeps the job in hand or goes to rest.
LEMMA OneJobRaise ==
    ASSUME ProcsOK, OneJob, NEW w \in Workers, pc[w] \in Busy, MarkRaises(w) PROVE OneJob'
<1>1. CASE Rest(w, "down") \/ Rest(w, "idle")
  BY <1>1, OneJobRest, Zenon
<1>2. CASE ~(Rest(w, "down") \/ Rest(w, "idle"))
  BY <1>2, OneJobSame, Zenon DEF MarkRaises
<1> QED BY <1>1, <1>2, Zenon

\* Every step leaves a busy worker with exactly one job.
LEMMA OneJobStep == TypeOK /\ OneJob /\ [Next]_vars => OneJob'
<1> SUFFICES ASSUME TypeOK, OneJob, [Next]_vars PROVE OneJob'
  OBVIOUS
<1>0. ProcsOK /\ OneJob
  BY Zenon DEF TypeOK
<1>1. CASE UNCHANGED <<pc, cur>>
  BY <1>0, <1>1, Zenon DEF OneJob
<1>2. ASSUME NEW w \in Workers, StartRead(w) \/ RecoverStale(w) PROVE OneJob'
  BY <1>0, <1>2, OneJobMove, Zenon DEF StartRead, RecoverStale, Become, Busy, Marking
<1>3. ASSUME NEW w \in Workers, StartWrite(w) \/ ClaimNone(w) \/ ForceFailed(w) \/ Stop(w) \/ Crash(w)
      PROVE  OneJob'
  BY <1>0, <1>3, OneJobRest, Zenon DEF StartWrite, ClaimNone, ForceFailed, Stop, Crash
<1>4. ASSUME NEW w \in Workers, NEW j \in Jobs, Claim(w, j) PROVE OneJob'
  BY <1>0, <1>4, OneJobMove, ZenonT(30) DEF Claim, Become
<1>5. ASSUME NEW w \in Workers, NEW j \in Jobs, MarkRead(w, j) PROVE OneJob'
  BY <1>0, <1>5, OneJobRest, OneJobSame, Zenon DEF MarkRead, Busy, Marking
<1>6. ASSUME NEW w \in Workers, NEW j \in Jobs, MarkSucceeded(w, j) \/ MarkFailed(w, j) PROVE OneJob'
  BY <1>0, <1>6, OneJobRest, OneJobRaise, Zenon DEF MarkSucceeded, MarkFailed, Busy, Marking
<1>7. ASSUME NEW w \in Workers, Handler(w) PROVE OneJob'
  BY <1>0, <1>7, OneJobSame, Zenon DEF Handler, HandlerReturns, HandlerRaises, Busy
<1>8. ASSUME NEW w \in Workers, MarkError(w) PROVE OneJob'
  BY <1>0, <1>8, OneJobRaise, Zenon DEF MarkError, Busy
<1>9. ASSUME NEW w \in Workers, Beat(w) PROVE OneJob'
  BY <1>1, <1>9, Zenon DEF Beat
<1>10. CASE \/ Tick
            \/ \E p \in Producers : \/ \E r \in Requests : EnqueueFind(p, r)
                                      \/ \E j \in Jobs : EnqueueInsert(p, j)
            \/ \E a \in Admins : \/ \E op \in {"retry", "cancel"}, j \in Jobs : AdminRead(a, op, j)
                                   \/ \E s \in adm[a] : AdminWrite(a, s)
            \/ UNCHANGED vars
  BY <1>1, <1>10, Zenon DEF Tick, EnqueueFind, EnqueueInsert, AdminRead, AdminWrite, vars, procVars
<1> QED BY <1>2, <1>3, <1>4, <1>5, <1>6, <1>7, <1>8, <1>9, <1>10, Zenon DEF Next, Worker
-----------------------------------------------------------------------------
(* What the table records about a job is true. *)

Succeeding == {"succeeding", "succeeding_write"}

\* What a worker is about to record holds already: the handler it marks as
\* succeeded has returned, and the attempts it read are still a lower bound.
MarksAreEarned ==
    \A w \in Workers :
        /\ pc[w] \in Succeeding => cur[w] \subseteq returned
        /\ pc[w] = "failing_write" => \A j \in cur[w] : snap[w] <= attempts[j]

RecordInv == TypeOK /\ OneJob /\ SucceededMeansReturned /\ FailedMeansExhausted /\ MarksAreEarned

\* A worker that goes to rest or starts its mark again owes nothing.
LEMMA RestEarned ==
    ASSUME MarksAreEarned, ProcsOK, RowsOK, NEW w \in Workers,
           Rest(w, "idle") \/ Rest(w, "down"),
           returned \subseteq returned', attempts' = attempts
    PROVE  MarksAreEarned'
  BY DEF MarksAreEarned, Rest, Become, ProcsOK, Succeeding

\* A mark that raises is tried again with the same outcome.
LEMMA RaiseEarned ==
    ASSUME MarksAreEarned, ProcsOK, RowsOK, NEW w \in Workers, pc[w] \in Marking \ {"forcing"},
           MarkRaises(w), UNCHANGED <<returned, attempts>>
    PROVE  MarksAreEarned'
<1>1. CASE Rest(w, "down") \/ Rest(w, "idle")
  BY <1>1, RestEarned, Zenon
<1>2. CASE /\ pc' = [pc EXCEPT ![w] = IF @ \in {"failing", "failing_write"} THEN "failing" ELSE "succeeding"]
           /\ UNCHANGED <<cur, snap>>
  BY <1>2, Zenon DEF MarksAreEarned, ProcsOK, Succeeding, Marking
<1>3. CASE /\ pc' = [pc EXCEPT ![w] = "forcing"]
           /\ UNCHANGED <<cur, snap>>
  BY <1>3, Zenon DEF MarksAreEarned, ProcsOK, Succeeding
<1> QED BY <1>1, <1>2, <1>3, Zenon DEF MarkRaises

\* A write that only queues rows records neither success nor failure.
LEMMA StatusKept ==
    ASSUME RowsOK, SucceededMeansReturned, FailedMeansExhausted,
           NEW R, NEW s, SetStatus(R, s), s \notin {"succeeded", "failed"},
           UNCHANGED attempts, returned \subseteq returned', forced \subseteq forced'
    PROVE  SucceededMeansReturned' /\ FailedMeansExhausted'
  BY Zenon DEF RowsOK, SetStatus, SucceededMeansReturned, FailedMeansExhausted

\* A step that writes neither outcomes nor their history.
LEMMA SameRecord ==
    ASSUME RowsOK, SucceededMeansReturned, FailedMeansExhausted,
           UNCHANGED <<status, attempts>>, returned \subseteq returned', forced \subseteq forced'
    PROVE  SucceededMeansReturned' /\ FailedMeansExhausted'
  BY Zenon DEF RowsOK, SucceededMeansReturned, FailedMeansExhausted

\* Every step keeps the recorded outcomes earned: one case per action.
LEMMA RecordStep == RecordInv /\ [Next]_vars => RecordInv'
<1> SUFFICES ASSUME RecordInv, [Next]_vars
             PROVE  SucceededMeansReturned' /\ FailedMeansExhausted' /\ MarksAreEarned'
  BY TypeStep, OneJobStep, Zenon DEF RecordInv
<1>0. RowsOK /\ ProcsOK /\ OneJob /\ SucceededMeansReturned /\ FailedMeansExhausted /\ MarksAreEarned
  BY Zenon DEF RecordInv, TypeOK
<1> DEFINE Goal == SucceededMeansReturned' /\ FailedMeansExhausted' /\ MarksAreEarned'
<1>1. CASE Tick
  BY <1>0, <1>1, SameRecord, ZenonT(30) DEF Tick, MarksAreEarned, histVars
<1>2. ASSUME NEW p \in Producers, NEW r \in Requests, EnqueueFind(p, r) PROVE Goal
  BY <1>0, <1>2, SameRecord, Zenon DEF EnqueueFind, MarksAreEarned, jobVars, procVars, histVars
<1>3. ASSUME NEW p \in Producers, NEW j \in Jobs, EnqueueInsert(p, j) PROVE Goal
  <2>1. SucceededMeansReturned' /\ FailedMeansExhausted'
    BY <1>0, <1>3, Zenon DEF EnqueueInsert, RowsOK, SucceededMeansReturned, FailedMeansExhausted, jobVars, histVars
  <2> QED BY <1>0, <1>3, <2>1, Zenon DEF EnqueueInsert, MarksAreEarned, jobVars, procVars, histVars
<1>4. ASSUME NEW w \in Workers, StartRead(w) PROVE Goal
  BY <1>0, <1>4, SameRecord, Zenon DEF StartRead, Become, MarksAreEarned, ProcsOK, Succeeding, jobVars, histVars
<1>5. ASSUME NEW w \in Workers, StartWrite(w) PROVE Goal
  <2>1. SucceededMeansReturned' /\ FailedMeansExhausted'
    BY <1>0, <1>5, StatusKept, SameRecord, Zenon DEF StartWrite, jobVars, histVars
  <2> QED BY <1>0, <1>5, <2>1, RestEarned, Zenon DEF StartWrite, jobVars, histVars
<1>6. ASSUME NEW w \in Workers, RecoverStale(w) PROVE Goal
  <2>1. SucceededMeansReturned' /\ FailedMeansExhausted'
    BY <1>0, <1>6, StatusKept, SameRecord, Zenon DEF RecoverStale, jobVars, histVars
  <2> QED BY <1>0, <1>6, <2>1, Zenon DEF RecoverStale, Become, MarksAreEarned, ProcsOK, Succeeding, jobVars, histVars
<1>7. ASSUME NEW w \in Workers, ClaimNone(w) PROVE Goal
  BY <1>0, <1>7, SameRecord, RestEarned, Zenon DEF ClaimNone, jobVars, histVars
<1>8. ASSUME NEW w \in Workers, NEW j \in Jobs, Claim(w, j) PROVE Goal
  <2>1. SucceededMeansReturned' /\ FailedMeansExhausted'
    BY <1>0, <1>8, Zenon DEF Claim, RowsOK, SucceededMeansReturned, FailedMeansExhausted, histVars
  <2>2. pc'[w] \in {"handling", "failing"}
    BY <1>0, <1>8, Zenon DEF Claim, Become, ProcsOK
  <2>3. \A v \in Workers \ {w} : pc'[v] = pc[v] /\ cur'[v] = cur[v]
    BY <1>0, <1>8, Zenon DEF Claim, Become, ProcsOK
  <2>4. \A k \in Jobs : attempts[k] \in Nat /\ attempts'[k] \in Nat /\ attempts[k] <= attempts'[k]
    BY <1>0, <1>8 DEF Claim, RowsOK
  <2>5. UNCHANGED <<snap, returned>>
    BY <1>8, Zenon DEF Claim, histVars
  <2>6. MarksAreEarned'
    <3> SUFFICES ASSUME NEW v \in Workers
                 PROVE  /\ pc'[v] \in Succeeding => cur'[v] \subseteq returned'
                        /\ pc'[v] = "failing_write" => \A k \in cur'[v] : snap'[v] <= attempts'[k]
      BY Zenon DEF MarksAreEarned
    <3>1. CASE v = w
      BY <2>2, <3>1, Zenon DEF Succeeding
    <3>2. CASE v # w
      <4>1. /\ pc'[v] \in Succeeding => cur'[v] \subseteq returned'
            /\ pc'[v] = "failing_write" => \A k \in cur'[v] : snap'[v] <= attempts[k]
        BY <1>0, <2>3, <2>5, <3>2, Zenon DEF MarksAreEarned
      <4>2. cur'[v] \subseteq Jobs /\ snap'[v] \in Nat
        BY <1>0, <2>3, <2>5, <3>2, Zenon DEF ProcsOK
      <4> QED BY <2>4, <4>1, <4>2
    <3> QED BY <3>1, <3>2, Zenon
  <2> QED BY <2>1, <2>6, Zenon
<1>9. ASSUME NEW w \in Workers, NEW j \in Jobs, MarkRead(w, j) PROVE Goal
  <2>1. SucceededMeansReturned' /\ FailedMeansExhausted'
    BY <1>0, <1>9, SameRecord, Zenon DEF MarkRead, jobVars, histVars
  <2>2. CASE Rest(w, "idle")
    BY <1>0, <1>9, <2>1, <2>2, RestEarned, Zenon DEF MarkRead, jobVars, histVars
  <2>3. CASE ~Rest(w, "idle")
    <3>1. /\ pc' = [pc EXCEPT ![w] = IF pc[w] = "failing" THEN "failing_write" ELSE "succeeding_write"]
          /\ snap' = [snap EXCEPT ![w] = attempts[j]]
          /\ UNCHANGED <<cur, returned, attempts>>
          /\ pc[w] \in {"failing", "succeeding"}
      BY <1>9, <2>3, Zenon DEF MarkRead, jobVars, histVars
    <3>2. cur[w] = {j}
      BY <1>0, <1>9, Zenon DEF OneJob, MarkRead, Busy, Marking
    <3>3. pc'[w] \in Succeeding => cur'[w] \subseteq returned'
      BY <1>0, <3>1, Zenon DEF MarksAreEarned, ProcsOK, Succeeding
    <3>4. pc'[w] = "failing_write" => \A k \in cur'[w] : snap'[w] <= attempts'[k]
      BY <1>0, <3>1, <3>2 DEF ProcsOK, RowsOK
    <3>5. \A v \in Workers \ {w} : pc'[v] = pc[v] /\ cur'[v] = cur[v] /\ snap'[v] = snap[v]
      BY <1>0, <3>1, Zenon DEF ProcsOK
    <3> QED BY <1>0, <2>1, <3>1, <3>3, <3>4, <3>5 DEF MarksAreEarned
  <2> QED BY <2>2, <2>3, Zenon
<1>10. ASSUME NEW w \in Workers, NEW j \in Jobs, MarkSucceeded(w, j) PROVE Goal
  <2>1. j \in returned
    BY <1>0, <1>10, Zenon DEF MarkSucceeded, MarksAreEarned, Succeeding
  <2>2. SucceededMeansReturned' /\ FailedMeansExhausted'
    BY <1>0, <1>10, <2>1, Zenon DEF MarkSucceeded, SetStatus, RowsOK, SucceededMeansReturned, FailedMeansExhausted, histVars
  <2> QED BY <1>0, <1>10, <2>2, RestEarned, Zenon DEF MarkSucceeded, histVars
<1>11. ASSUME NEW w \in Workers, NEW j \in Jobs, MarkFailed(w, j) PROVE Goal
  <2>1. UNCHANGED <<attempts, returned, forced>>
    BY <1>11, Zenon DEF MarkFailed, jobVars, histVars
  <2>2. SucceededMeansReturned' /\ FailedMeansExhausted'
    <3>1. CASE SetStatus({j}, "queued")
      BY <1>0, <2>1, <3>1, StatusKept, Zenon
    <3>2. CASE UNCHANGED jobVars
      BY <1>0, <2>1, <3>2, SameRecord, Zenon DEF jobVars
    <3>3. CASE snap[w] >= MaxAttempts /\ SetStatus({j}, "failed")
      <4>1. snap[w] <= attempts[j] /\ snap[w] \in Nat
        BY <1>0, <1>11, ZenonT(30) DEF MarkFailed, MarksAreEarned, ProcsOK
      <4>2. attempts[j] >= MaxAttempts
        BY <1>0, <3>3, <4>1, ConstantsAssumption, SMTT(30) DEF RowsOK
      <4> QED BY <1>0, <2>1, <3>3, <4>2, Zenon DEF SetStatus, RowsOK, SucceededMeansReturned, FailedMeansExhausted
    <3> QED BY <1>11, <3>1, <3>2, <3>3, Zenon DEF MarkFailed
  <2>3. MarksAreEarned'
    BY <1>0, <1>11, <2>1, RestEarned, RaiseEarned, ZenonT(30) DEF MarkFailed, Marking
  <2> QED BY <2>2, <2>3
<1>12. ASSUME NEW w \in Workers, ForceFailed(w) PROVE Goal
  <2>1. SucceededMeansReturned' /\ FailedMeansExhausted'
    BY <1>0, <1>12, Zenon DEF ForceFailed, SetStatus, RowsOK, SucceededMeansReturned, FailedMeansExhausted, jobVars
  <2> QED BY <1>0, <1>12, <2>1, RestEarned, ZenonT(30) DEF ForceFailed, jobVars
<1>13. ASSUME NEW w \in Workers, HandlerReturns(w) PROVE Goal
  <2>1. SucceededMeansReturned' /\ FailedMeansExhausted'
    BY <1>0, <1>13, SameRecord, Zenon DEF HandlerReturns, jobVars
  <2> QED BY <1>0, <1>13, <2>1, Zenon DEF HandlerReturns, MarksAreEarned, ProcsOK, Succeeding, jobVars
<1>14. ASSUME NEW w \in Workers, HandlerRaises(w) PROVE Goal
  BY <1>0, <1>14, SameRecord, Zenon DEF HandlerRaises, MarksAreEarned, ProcsOK, Succeeding, jobVars, histVars
<1>15. ASSUME NEW w \in Workers, Beat(w) PROVE Goal
  BY <1>0, <1>15, SameRecord, Zenon DEF Beat, MarksAreEarned, histVars
<1>16. ASSUME NEW w \in Workers, Stop(w) \/ Crash(w) PROVE Goal
  BY <1>0, <1>16, SameRecord, RestEarned, Zenon DEF Stop, Crash, jobVars, histVars
<1>17. ASSUME NEW w \in Workers, MarkError(w) PROVE Goal
  BY <1>0, <1>17, SameRecord, RaiseEarned, Zenon DEF MarkError, jobVars, histVars
<1>18. ASSUME NEW a \in Admins, NEW op \in {"retry", "cancel"}, NEW j \in Jobs, AdminRead(a, op, j)
       PROVE  Goal
  BY <1>0, <1>18, SameRecord, Zenon DEF AdminRead, MarksAreEarned, jobVars, procVars, histVars
<1>19. ASSUME NEW a \in Admins, NEW s \in adm[a], AdminWrite(a, s) PROVE Goal
  <2>1. SucceededMeansReturned' /\ FailedMeansExhausted'
    <3>1. UNCHANGED histVars
      BY <1>19, Zenon DEF AdminWrite
    <3>2. CASE UNCHANGED jobVars
      BY <1>0, <3>1, <3>2, SameRecord, Zenon DEF jobVars, histVars
    <3>3. CASE ~UNCHANGED jobVars
      <4>1. UNCHANGED attempts /\ \E n \in {"queued", "cancelled", status[s.job]} : SetStatus({s.job}, n)
        BY <1>19, <3>3, Zenon DEF AdminWrite, OrmSet
      <4> QED BY <1>0, <3>1, <4>1, Zenon DEF SetStatus, SucceededMeansReturned, FailedMeansExhausted, histVars
    <3> QED BY <3>2, <3>3, Zenon
  <2> QED BY <1>0, <1>19, <2>1, Zenon DEF AdminWrite, MarksAreEarned, jobVars, procVars, histVars
<1>20. CASE UNCHANGED vars
  BY <1>0, <1>20, SameRecord, Zenon DEF vars, MarksAreEarned, jobVars, procVars, histVars
<1> QED BY Zenon, <1>1, <1>2, <1>3, <1>4, <1>5, <1>6, <1>7, <1>8, <1>9, <1>10, <1>11, <1>12, <1>13, <1>14,
           <1>15, <1>16, <1>17, <1>18, <1>19, <1>20 DEF Next, Worker, Handler

\* The strengthened record invariant holds in every behaviour.
LEMMA RecordAlways == Spec => []RecordInv
<1>1. Init => RecordInv
  BY TypeInit, Zenon DEF Init, RecordInv, OneJob, Busy, Marking, SucceededMeansReturned, FailedMeansExhausted, MarksAreEarned, Succeeding
<1> QED BY <1>1, RecordStep, PTL DEF Spec

\* For any number of jobs, workers and administrators and whatever the timing
\* and the faults: a job is recorded as succeeded only if its handler returned.
THEOREM SuccessIsReal == Spec => []SucceededMeansReturned
<1>1. RecordInv => SucceededMeansReturned
  BY Zenon DEF RecordInv
<1> QED BY <1>1, RecordAlways, PTL

\* ... and it is recorded as failed only after max_attempts claims or by the
\* raw UPDATE of worker_loop.
THEOREM FailureIsReal == Spec => []FailedMeansExhausted
<1>1. RecordInv => FailedMeansExhausted
  BY Zenon DEF RecordInv
<1> QED BY <1>1, RecordAlways, PTL
-----------------------------------------------------------------------------
(* One active job per key. *)

\* The rows a starting worker has read exist and have different keys.
StartKeys ==
    \A w \in Workers : pc[w] = "starting" =>
        \A j, k \in cur[w] : status[j] # "absent" /\ (SameKey(spec[j], spec[k]) => j = k)

KeyInv == TypeOK /\ OneActivePerKey /\ StartKeys

\* Writes that make no row active, and writes of one row the index accepts.
LEMMA KeySettle ==
    ASSUME RowsOK, OneActivePerKey, NEW R, NEW s, SetStatus(R, s), UNCHANGED spec,
           s \in Terminal \/ \A j \in R : j \in Jobs => status[j] \in Active
    PROVE  OneActivePerKey'
  BY Zenon DEF RowsOK, OneActivePerKey, SetStatus, Terminal, Active

\* One row becomes active with a key the index does not reject.
LEMMA KeySingle ==
    ASSUME RowsOK, OneActivePerKey, NEW i \in Jobs, NEW s, SetStatus({i}, s), UNCHANGED spec,
           ~IndexRejects(i, spec[i])
    PROVE  OneActivePerKey'
  BY Zenon DEF RowsOK, OneActivePerKey, SetStatus, IndexRejects, SameKey

\* Neither a status nor a key is written.
LEMMA KeySame == ASSUME OneActivePerKey, UNCHANGED <<status, spec>> PROVE OneActivePerKey'
  BY Zenon DEF OneActivePerKey

\* No row disappears or changes its key, and no worker starts.
LEMMA StartKeysFrame ==
    ASSUME ProcsOK, StartKeys,
           \A j \in Jobs : status[j] # "absent" => status'[j] # "absent" /\ spec'[j] = spec[j],
           \A w \in Workers : pc'[w] = "starting" => pc[w] = "starting" /\ cur'[w] = cur[w]
    PROVE  StartKeys'
  BY ZenonT(30) DEF ProcsOK, StartKeys

\* No step changes the key of a row, and rows are not deleted.
LEMMA RowsStay ==
    ASSUME RowsOK, [Next]_vars, TypeOK
    PROVE  \A j \in Jobs : status[j] # "absent" => status'[j] # "absent" /\ spec'[j] = spec[j]
<1> DEFINE Goal == \A j \in Jobs : status[j] # "absent" => status'[j] # "absent" /\ spec'[j] = spec[j]
<1>1. CASE UNCHANGED <<status, spec>>
  BY <1>1, Zenon
<1>2. ASSUME NEW R, NEW s, SetStatus(R, s), s # "absent", UNCHANGED spec PROVE Goal
  BY <1>2, Zenon DEF SetStatus
<1>3. ASSUME NEW p \in Producers, NEW j \in Jobs, EnqueueInsert(p, j) PROVE Goal
  BY <1>3, Zenon DEF EnqueueInsert, RowsOK, jobVars
<1>4. ASSUME NEW w \in Workers, NEW j \in Jobs, Claim(w, j) PROVE Goal
  BY <1>4, Zenon DEF Claim, RowsOK
<1>5. ASSUME NEW w \in Workers, StartWrite(w) \/ RecoverStale(w) \/ ForceFailed(w) PROVE Goal
  BY <1>1, <1>2, <1>5, ZenonT(30) DEF StartWrite, RecoverStale, ForceFailed, jobVars
<1>6. ASSUME NEW w \in Workers, NEW j \in Jobs, MarkSucceeded(w, j) \/ MarkFailed(w, j) PROVE Goal
  BY <1>1, <1>2, <1>6, Zenon DEF MarkSucceeded, MarkFailed, jobVars
<1>7. ASSUME NEW a \in Admins, NEW s \in adm[a], AdminWrite(a, s) PROVE Goal
  BY <1>7, SMTT(30) DEF AdminWrite, OrmSet, SetStatus, jobVars
<1>8. ASSUME NEW w \in Workers,
             \/ StartRead(w) \/ ClaimNone(w) \/ (\E j \in Jobs : MarkRead(w, j)) \/ Handler(w)
             \/ Beat(w) \/ Stop(w) \/ MarkError(w) \/ Crash(w)
      PROVE  Goal
  BY <1>1, <1>8, ZenonT(30) DEF StartRead, ClaimNone, MarkRead, Handler, HandlerReturns, HandlerRaises,
                    Beat, Stop, MarkError, Crash, jobVars
<1>9. CASE \/ Tick
           \/ \E p \in Producers, r \in Requests : EnqueueFind(p, r)
           \/ \E a \in Admins, op \in {"retry", "cancel"}, j \in Jobs : AdminRead(a, op, j)
           \/ UNCHANGED vars
  BY <1>1, <1>9, Zenon DEF Tick, EnqueueFind, AdminRead, vars, jobVars
<1> QED BY <1>3, <1>4, <1>5, <1>6, <1>7, <1>8, <1>9, Zenon DEF Next, Worker

\* Every step keeps the keys of active rows distinct: one case per action.
LEMMA KeyStep == KeyInv /\ [Next]_vars => KeyInv'
<1> SUFFICES ASSUME KeyInv, [Next]_vars PROVE OneActivePerKey' /\ StartKeys'
  BY TypeStep, Zenon DEF KeyInv
<1>0. RowsOK /\ ProcsOK /\ TypeOK /\ OneActivePerKey /\ StartKeys
  BY Zenon DEF KeyInv, TypeOK
<1>1. OneActivePerKey'
  <2>1. CASE UNCHANGED <<status, spec>>
    BY <1>0, <2>1, KeySame, Zenon
  <2>2. ASSUME NEW p \in Producers, NEW j \in Jobs, EnqueueInsert(p, j) PROVE OneActivePerKey'
    BY <1>0, <2>2, SMTT(30) DEF EnqueueInsert, RowsOK, OneActivePerKey, IndexRejects, SameKey, jobVars
  <2>3. ASSUME NEW w \in Workers, StartWrite(w) PROVE OneActivePerKey'
    <3>1. CASE UNCHANGED jobVars
      BY <2>1, <3>1, Zenon DEF jobVars
    <3>2. CASE (\A j \in cur[w] : ~IndexRejects(j, spec[j])) /\ SetStatus(cur[w], "queued") /\ UNCHANGED spec
      <4>1. \A j, k \in cur[w] : SameKey(spec[j], spec[k]) => j = k
        BY <1>0, <2>3, ZenonT(30) DEF StartKeys, StartWrite
      <4> QED BY <1>0, <3>2, <4>1 DEF RowsOK, ProcsOK, OneActivePerKey, SetStatus, IndexRejects, SameKey
    <3> QED BY <2>3, <3>1, <3>2, Zenon DEF StartWrite
  <2>4. ASSUME NEW w \in Workers, RecoverStale(w) PROVE OneActivePerKey'
    BY <1>0, <2>1, <2>4, KeySettle, ZenonT(30) DEF RecoverStale, Stale, Active, jobVars
  <2>5. ASSUME NEW w \in Workers, NEW j \in Jobs, Claim(w, j) PROVE OneActivePerKey'
    BY <1>0, <2>5, ZenonT(30) DEF Claim, Claimable, Due, RowsOK, OneActivePerKey, Active
  <2>6. ASSUME NEW w \in Workers, NEW j \in Jobs, MarkSucceeded(w, j) \/ MarkFailed(w, j)
        PROVE  OneActivePerKey'
    BY <1>0, <2>1, <2>6, KeySettle, KeySingle, ZenonT(30) DEF MarkSucceeded, MarkFailed, Terminal, jobVars
  <2>7. ASSUME NEW w \in Workers, ForceFailed(w) PROVE OneActivePerKey'
    BY <1>0, <2>1, <2>7, KeySettle, Zenon DEF ForceFailed, Terminal, jobVars
  <2>8. ASSUME NEW a \in Admins, NEW s \in adm[a], AdminWrite(a, s) PROVE OneActivePerKey'
    <3> DEFINE new == OrmSet(s.status, IF s.op = "retry" THEN "queued" ELSE "cancelled", status[s.job])
    <3>1. s.job \in Jobs
      BY <1>0 DEF TypeOK
    <3>2. CASE UNCHANGED jobVars
      BY <2>1, <3>2, Zenon DEF jobVars
    <3>3. CASE SetStatus({s.job}, new) /\ UNCHANGED spec /\ ~IndexRejects(s.job, spec[s.job])
      BY <1>0, <3>1, <3>3, KeySingle, ZenonT(30)
    <3>4. CASE SetStatus({s.job}, new) /\ UNCHANGED spec /\ new \notin Active
      BY <1>0, <3>1, <3>4, ZenonT(30) DEF RowsOK, OneActivePerKey, SetStatus
    <3> QED BY <2>8, <3>2, <3>3, <3>4, Zenon DEF AdminWrite
  <2>9. ASSUME NEW w \in Workers,
               \/ StartRead(w) \/ ClaimNone(w) \/ (\E j \in Jobs : MarkRead(w, j)) \/ Handler(w)
               \/ Beat(w) \/ Stop(w) \/ MarkError(w) \/ Crash(w)
        PROVE  OneActivePerKey'
    BY <2>1, <2>9, ZenonT(30) DEF StartRead, ClaimNone, MarkRead, Handler, HandlerReturns, HandlerRaises,
                      Beat, Stop, MarkError, Crash, jobVars
  <2>10. CASE \/ Tick
              \/ \E p \in Producers, r \in Requests : EnqueueFind(p, r)
              \/ \E a \in Admins, op \in {"retry", "cancel"}, j \in Jobs : AdminRead(a, op, j)
              \/ UNCHANGED vars
    BY <2>1, <2>10, Zenon DEF Tick, EnqueueFind, AdminRead, vars, jobVars
  <2> QED BY <2>2, <2>3, <2>4, <2>5, <2>6, <2>7, <2>8, <2>9, <2>10, Zenon DEF Next, Worker
<1>2. StartKeys'
  <2>1. ASSUME NEW w \in Workers, StartRead(w) PROVE StartKeys'
    <3>1. UNCHANGED <<status, spec>>
      BY <2>1, Zenon DEF StartRead, jobVars
    <3>2. \A v \in Workers \ {w} : pc'[v] = pc[v] /\ cur'[v] = cur[v]
      BY <1>0, <2>1, Zenon DEF StartRead, Become, ProcsOK
    <3>3. cur'[w] \subseteq {j \in Jobs : status[j] = "running"}
      BY <1>0, <2>1, Zenon DEF StartRead, Become, ProcsOK, Owned
    <3>4. \A j, k \in cur'[w] : status[j] # "absent" /\ (SameKey(spec[j], spec[k]) => j = k)
      BY <1>0, <3>3, Zenon DEF OneActivePerKey, Active
    <3> QED BY <1>0, <3>1, <3>2, <3>4, ZenonT(30) DEF StartKeys
  <2>2. ASSUME \A w \in Workers : pc'[w] = "starting" => pc[w] = "starting" /\ cur'[w] = cur[w]
        PROVE  StartKeys'
    BY <1>0, <2>2, RowsStay, StartKeysFrame, Zenon
  <2>3. ASSUME NEW w \in Workers, NEW l, l # "starting", pc' = [pc EXCEPT ![w] = l],
               \A v \in Workers \ {w} : cur'[v] = cur[v]
        PROVE  StartKeys'
    BY <1>0, <2>2, <2>3, Zenon DEF ProcsOK
  <2>4. ASSUME NEW w \in Workers, Rest(w, "idle") \/ Rest(w, "down") PROVE StartKeys'
    BY <1>0, <2>3, <2>4, Zenon DEF Rest, Become, ProcsOK
  <2>5. ASSUME NEW w \in Workers, MarkRaises(w) PROVE StartKeys'
    BY <2>3, <2>4, <2>5, Zenon DEF MarkRaises
  <2>6. ASSUME NEW w \in Workers, Worker(w), ~StartRead(w) PROVE StartKeys'
    <3>1. ASSUME NEW j \in Jobs, Claim(w, j) PROVE StartKeys'
      BY <1>0, <2>3, <3>1, Zenon DEF Claim, Become, ProcsOK
    <3>2. ASSUME NEW j \in Jobs, MarkRead(w, j) \/ MarkSucceeded(w, j) \/ MarkFailed(w, j) PROVE StartKeys'
      BY <2>3, <2>4, <2>5, <3>2, Zenon DEF MarkRead, MarkSucceeded, MarkFailed
    <3>3. CASE RecoverStale(w)
      BY <1>0, <2>3, <3>3, ZenonT(30) DEF RecoverStale, Become, ProcsOK
    <3>4. CASE StartWrite(w) \/ ClaimNone(w) \/ ForceFailed(w)
      BY <2>4, <3>4, Zenon DEF StartWrite, ClaimNone, ForceFailed
    <3> QED BY <2>6, <3>1, <3>2, <3>3, <3>4, Zenon DEF Worker
  <2>7. ASSUME NEW w \in Workers, Handler(w) \/ Beat(w) \/ Stop(w) \/ MarkError(w) \/ Crash(w) PROVE StartKeys'
    BY <2>2, <2>3, <2>4, <2>5, <2>7, ZenonT(30) DEF Handler, HandlerReturns, HandlerRaises, Beat, Stop, MarkError, Crash
  <2>8. CASE \/ Tick
             \/ \E p \in Producers : \/ \E r \in Requests : EnqueueFind(p, r)
                                       \/ \E j \in Jobs : EnqueueInsert(p, j)
             \/ \E a \in Admins : \/ \E op \in {"retry", "cancel"}, j \in Jobs : AdminRead(a, op, j)
                                    \/ \E s \in adm[a] : AdminWrite(a, s)
             \/ UNCHANGED vars
    BY <2>2, <2>8, Zenon DEF Tick, EnqueueFind, EnqueueInsert, AdminRead, AdminWrite, vars, procVars
  <2> QED BY <2>1, <2>6, <2>7, <2>8, ZenonT(30) DEF Next
<1> QED BY <1>1, <1>2, Zenon

\* The partial unique index, and the checks of enqueue, mark_failed, retry and
\* the startup recovery around it, keep one active job per key for any number
\* of concurrent producers, workers and administrators.
THEOREM DedupeHolds == Spec => []OneActivePerKey
<1>1. Init => KeyInv
  BY TypeInit, Zenon DEF Init, KeyInv, OneActivePerKey, StartKeys, Active
<1>2. KeyInv => OneActivePerKey
  BY Zenon DEF KeyInv
<1> QED BY <1>1, <1>2, KeyStep, PTL DEF Spec

-----------------------------------------------------------------------------
(* The job lock is a lease: the terms under which a worker never loses the *)
(* job it is handling, for any number of workers and jobs, any crashes and *)
(* any database errors outside the heartbeat, and that under these terms   *)
(* the queue implements JobLedger.                                         *)

\* No heartbeat fails, no worker is restarted or shares its host, nobody edits
\* the table by hand, and the TTL leaves room for a late claim, a late
\* heartbeat and a late mark.
LeaseTerms ==
    /\ Timely /\ "beat" \notin Faults
    /\ MaxStarts <= 1 /\ \A v, w \in Workers : HostOf[v] = HostOf[w] => v = w
    /\ Admins = {}
    /\ BeatInterval + 3 * Latency <= LockTTL

\* Process state of one worker.
Punctual(w) ==
    /\ starts[w] <= 1 /\ (starts[w] = 0 => pc[w] = "down")
    /\ pc[w] = "starting" => cur[w] = {}
    /\ lag[w] <= Latency /\ (pc[w] \notin Marking \union {"picking"} => lag[w] = 0)
    /\ beat[w] <= BeatInterval + Latency /\ (~hb[w] => beat[w] = 0)
    /\ pc[w] = "handling" => hb[w]
    /\ hb[w] => pc[w] \in Busy

\* Its rows: none before it starts, and while it is busy a lock that is no
\* older than its last claim or refresh allows.
Holds(w) ==
    /\ starts[w] = 0 => \A j \in Jobs : lockedBy[j] # w
    /\ pc[w] \in Busy => \A j \in cur[w] :
          /\ Owned(w, j) /\ lockAge[j] >= 0
          /\ lockAge[j] <= Latency + (IF hb[w] THEN beat[w] ELSE BeatInterval + Latency + lag[w])

LeaseInv == TypeOK /\ OneJob /\ \A w \in Workers : Punctual(w) /\ Holds(w)

\* A busy worker's lock is not stale.
LEMMA Fresh ==
    ASSUME LeaseTerms, LeaseInv, NEW w \in Workers, pc[w] \in Busy, NEW j \in cur[w]
    PROVE  ~Stale(j)
<1>1. /\ lockAge[j] <= Latency + (IF hb[w] THEN beat[w] ELSE BeatInterval + Latency + lag[w])
      /\ beat[w] <= BeatInterval + Latency /\ lag[w] <= Latency
  BY Zenon DEF LeaseInv, Punctual, Holds
<1>2. beat[w] \in Nat /\ lag[w] \in Nat /\ lockAge[j] \in Int
  BY IntervalType DEF LeaseInv, TypeOK, ProcsOK, RowsOK, NoLock
<1> QED BY <1>1, <1>2, IntervalType, ConstantsAssumption DEF LeaseTerms, Stale

\* A step of w that leaves the rows of the other workers alone.
OthersKept(w) ==
    /\ \A v \in Workers \ {w} : /\ pc'[v] = pc[v] /\ cur'[v] = cur[v] /\ hb'[v] = hb[v]
                                /\ beat'[v] = beat[v] /\ lag'[v] = lag[v] /\ starts'[v] = starts[v]
    /\ \A j \in Jobs :
         /\ lockedBy'[j] \in {lockedBy[j], w, NoWorker}
         /\ \A v \in Workers \ {w} : pc[v] \in Busy /\ j \in cur[v] /\ Owned(v, j)
                                     => Owned(v, j)' /\ lockAge'[j] = lockAge[j]

\* A step of w that spares the rows of the others keeps what they hold.
LEMMA OthersFine ==
    ASSUME LeaseInv, NEW w \in Workers, OthersKept(w), NEW v \in Workers \ {w}
    PROVE  Punctual(v)' /\ Holds(v)'
<1>1. Punctual(v) /\ Holds(v) /\ cur[v] \subseteq Jobs
  BY Zenon DEF LeaseInv, TypeOK, ProcsOK
<1>2. Punctual(v)'
  BY <1>1, Zenon DEF Punctual, OthersKept
<1>3. (starts[v] = 0 => \A j \in Jobs : lockedBy[j] # v)'
  BY <1>1, ConstantsAssumption DEF Holds, OthersKept
<1>4. ASSUME pc'[v] \in Busy, NEW j \in cur'[v]
      PROVE  /\ Owned(v, j)' /\ lockAge'[j] >= 0
             /\ lockAge'[j] <= Latency + (IF hb'[v] THEN beat'[v] ELSE BeatInterval + Latency + lag'[v])
  <2>1. pc[v] \in Busy /\ j \in cur[v] /\ j \in Jobs /\ Owned(v, j)
    BY <1>1, <1>4, Zenon DEF OthersKept, Holds
  <2>2. Owned(v, j)' /\ lockAge'[j] = lockAge[j]
    BY <2>1, Zenon DEF OthersKept
  <2> QED BY <1>1, <2>1, <2>2, Zenon DEF OthersKept, Holds
<1> QED BY <1>2, <1>3, <1>4, Zenon DEF Holds
-----------------------------------------------------------------------------
(* The moves of a worker. *)

\* Going to rest.
LEMMA RestPunctual ==
    ASSUME LeaseInv, NEW w \in Workers, NEW l \in {"idle", "down"}, Rest(w, l), UNCHANGED starts,
           starts[w] = 0 => l = "down"
    PROVE  /\ Punctual(w)'
           /\ pc'[w] \notin Busy
           /\ \A v \in Workers \ {w} : /\ pc'[v] = pc[v] /\ cur'[v] = cur[v] /\ hb'[v] = hb[v]
                                       /\ beat'[v] = beat[v] /\ lag'[v] = lag[v] /\ starts'[v] = starts[v]
<1>1. Punctual(w) /\ ProcsOK
  BY Zenon DEF LeaseInv, TypeOK
<1>2. pc'[w] = l /\ cur'[w] = {} /\ ~hb'[w] /\ beat'[w] = 0 /\ lag'[w] = 0
  BY <1>1, Zenon DEF Rest, Become, ProcsOK
<1>3. Punctual(w)'
  BY <1>1, <1>2, ConstantsAssumption, IntervalType DEF Punctual, Busy, Marking
<1>4. pc'[w] \notin Busy
  BY <1>2, Zenon DEF Busy, Marking
<1> QED BY <1>1, <1>3, <1>4, Zenon DEF Rest, Become, ProcsOK

\* Writing rows of one's own, or rows nobody holds, when nobody waits for them.
LEMMA RestKeeps ==
    ASSUME LeaseInv, NEW w \in Workers, NEW l \in {"idle", "down"}, Rest(w, l), UNCHANGED starts,
           starts[w] = 0 => l = "down",
           \A j \in Jobs : \/ status'[j] = status[j] /\ lockedBy'[j] = lockedBy[j] /\ lockAge'[j] = lockAge[j]
                           \/ lockedBy'[j] = NoWorker
                              /\ \A v \in Workers \ {w} : ~(pc[v] \in Busy /\ j \in cur[v])
    PROVE  \A v \in Workers : Punctual(v)' /\ Holds(v)'
<1>1. Punctual(w)' /\ pc'[w] \notin Busy
  BY RestPunctual, Zenon
<1>2. Holds(w)'
  BY <1>1, ConstantsAssumption, Zenon DEF LeaseInv, Holds
<1>3. OthersKept(w)
  BY RestPunctual, Zenon DEF OthersKept, Owned
<1> QED BY <1>1, <1>2, <1>3, OthersFine, Zenon

\* Moving on with the job in hand while the rows stay as they are.
LEMMA MoveKeeps ==
    ASSUME LeaseInv, NEW w \in Workers, NEW l \in Marking, pc[w] \in Marking,
           pc' = [pc EXCEPT ![w] = l], UNCHANGED <<cur, hb, beat, lag, starts>>, UNCHANGED jobVars
    PROVE  \A v \in Workers : Punctual(v)' /\ Holds(v)'
<1>1. ProcsOK /\ Punctual(w) /\ Holds(w)
  BY Zenon DEF LeaseInv, TypeOK
<1>2. pc'[w] = l
  BY <1>1, Zenon DEF ProcsOK
<1>3. Punctual(w)'
  BY <1>1, <1>2, Zenon DEF Punctual, Busy, Marking
<1>4. Holds(w)'
  BY <1>1, <1>2, Zenon DEF Holds, Busy, Owned, jobVars
<1>5. OthersKept(w)
  BY <1>1, Zenon DEF OthersKept, ProcsOK, jobVars, Owned
<1> QED BY <1>3, <1>4, <1>5, OthersFine, Zenon

\* A mark that raises keeps the lease or gives it up.
LEMMA RaiseKeeps ==
    ASSUME LeaseInv, NEW w \in Workers, pc[w] \in Marking \ {"forcing"}, MarkRaises(w),
           UNCHANGED starts, UNCHANGED jobVars
    PROVE  \A v \in Workers : Punctual(v)' /\ Holds(v)'
<1>1. starts[w] # 0
  BY Zenon DEF LeaseInv, Punctual, Marking
<1>2. CASE Rest(w, "down") \/ Rest(w, "idle")
  BY <1>1, <1>2, RestKeeps, Zenon DEF jobVars
<1>3. CASE ~(Rest(w, "down") \/ Rest(w, "idle"))
  BY <1>3, MoveKeeps, Zenon DEF MarkRaises, Marking
<1> QED BY <1>2, <1>3, Zenon
-----------------------------------------------------------------------------
\* Under the lease terms every step keeps the lease: one case per action.
LEMMA LeaseStep == ASSUME LeaseTerms PROVE LeaseInv /\ [Next]_vars => LeaseInv'
<1> SUFFICES ASSUME LeaseInv, [Next]_vars PROVE \A w \in Workers : Punctual(w)' /\ Holds(w)'
  BY TypeStep, OneJobStep, Zenon DEF LeaseInv
<1>0. TypeOK /\ RowsOK /\ ProcsOK /\ OneJob /\ \A w \in Workers : Punctual(w) /\ Holds(w)
  BY Zenon DEF LeaseInv, TypeOK
<1> DEFINE Goal == \A w \in Workers : Punctual(w)' /\ Holds(w)'
<1>a. ASSUME NEW w \in Workers, pc[w] # "down" PROVE starts[w] # 0
  BY <1>0, <1>a, Zenon DEF Punctual
<1>b. ASSUME NEW w \in Workers, NEW v \in Workers \ {w}, pc[w] \in Busy, pc[v] \in Busy,
             NEW j \in cur[w]
      PROVE  j \notin cur[v]
  BY <1>0, <1>b DEF Holds, Owned
<1>c. 0 <= Latency /\ 0 <= BeatInterval + Latency
  BY ConstantsAssumption, IntervalType
<1>1. CASE Tick
  <2> SUFFICES ASSUME NEW w \in Workers PROVE Punctual(w)' /\ Holds(w)'
    OBVIOUS
  <2>1. /\ lag[w] \in Nat /\ beat[w] \in Nat /\ StaleAge \in Nat /\ BeatInterval \in Nat /\ Latency \in Nat
        /\ Latency < StaleAge
    BY <1>0, IntervalType, ConstantsAssumption DEF ProcsOK, LeaseTerms, StaleAge
  <2>2. /\ pc[w] \in Marking \union {"picking"} => lag[w] < Latency
        /\ hb[w] => beat[w] < BeatInterval + Latency
    BY <1>1, Zenon DEF Tick, LeaseTerms
  <2>3. UNCHANGED <<status, lockedBy, pc, cur, hb, starts>>
    BY <1>1, Zenon DEF Tick
  <2>4. /\ lag'[w] = IF pc[w] \in Marking \union {"picking"} THEN lag[w] + 1 ELSE lag[w]
        /\ beat'[w] = IF hb[w] THEN beat[w] + 1 ELSE 0
    BY <1>1, <2>1, <2>2 DEF Tick, AtMost
  <2>5. Punctual(w)'
    BY <1>0, <2>1, <2>2, <2>3, <2>4 DEF Punctual
  <2>6. ASSUME pc[w] \in Busy, NEW j \in cur[w]
        PROVE  /\ Owned(w, j)' /\ lockAge'[j] >= 0
               /\ lockAge'[j] <= Latency + (IF hb'[w] THEN beat'[w] ELSE BeatInterval + Latency + lag'[w])
    <3>1. j \in Jobs /\ lockAge[j] \in Int
      BY <1>0, <2>6, IntervalType DEF ProcsOK, RowsOK, NoLock
    <3>2. /\ Owned(w, j) /\ lockAge[j] >= 0
          /\ lockAge[j] <= Latency + (IF hb[w] THEN beat[w] ELSE BeatInterval + Latency + lag[w])
      BY <1>0, <2>6, Zenon DEF Holds
    <3>3. lockAge'[j] >= 0 /\ lockAge'[j] <= lockAge[j] + 1 /\ lockAge'[j] \in Int
      BY <1>1, <2>1, <3>1, <3>2, SMTT(30) DEF Tick, AtMost, NoLock
    <3>4. hb[w] \/ pc[w] \in Marking
      BY <1>0, <2>6, Zenon DEF Punctual, Busy
    <3>5. CASE hb[w]
      BY <2>1, <2>3, <2>4, <3>1, <3>2, <3>3, <3>5 DEF Owned
    <3>6. CASE ~hb[w]
      BY <2>1, <2>3, <2>4, <3>1, <3>2, <3>3, <3>4, <3>6 DEF Owned
    <3> QED BY <3>5, <3>6, Zenon
  <2>7. Holds(w)'
    BY <1>0, <2>3, <2>6, Zenon DEF Holds
  <2> QED BY <2>5, <2>7, Zenon
<1>2. CASE UNCHANGED <<procVars, lockedBy, lockAge>> /\ \A j \in Jobs : status[j] = "running" => status'[j] = "running"
  <2> SUFFICES ASSUME NEW w \in Workers PROVE Punctual(w)' /\ Holds(w)'
    OBVIOUS
  <2>1. Punctual(w)'
    BY <1>0, <1>2, Zenon DEF Punctual, procVars
  <2>2. cur[w] \subseteq Jobs
    BY <1>0, Zenon DEF ProcsOK
  <2> QED BY <1>0, <1>2, <2>1, <2>2, Zenon DEF Holds, Owned, procVars
<1>3. ASSUME NEW p \in Producers, NEW j \in Jobs, EnqueueInsert(p, j) PROVE Goal
  BY <1>0, <1>2, <1>3, Zenon DEF EnqueueInsert, RowsOK, jobVars
<1>4. ASSUME NEW w \in Workers, StartRead(w) PROVE Goal
  <2>1. starts[w] = 0
    <3>1. starts[w] \in Nat
      BY <1>0, Zenon DEF TypeOK
    <3>2. starts[w] < MaxStarts
      BY <1>4, Zenon DEF StartRead
    <3>3. MaxStarts \in Nat /\ MaxStarts <= 1
      BY ConstantsAssumption, Zenon DEF LeaseTerms
    <3> QED BY <3>1, <3>2, <3>3
  <2>2. {j \in Jobs : \E v \in Workers : HostOf[v] = HostOf[w] /\ Owned(v, j)} = {}
    <3>1. \A v \in Workers : HostOf[v] = HostOf[w] => v = w
      BY Zenon DEF LeaseTerms
    <3>2. \A j \in Jobs : lockedBy[j] # w
      BY <1>0, <2>1, Zenon DEF Holds
    <3> QED BY <3>1, <3>2, Zenon DEF Owned
  <2>3. /\ pc'[w] = "starting" /\ cur'[w] = {} /\ starts'[w] = 1
        /\ UNCHANGED <<hb, beat, lag>> /\ UNCHANGED jobVars
    <3>1. /\ pc' = [pc EXCEPT ![w] = "starting"] /\ cur' = [cur EXCEPT ![w] = {}]
          /\ starts' = [starts EXCEPT ![w] = @ + 1]
          /\ UNCHANGED <<hb, beat, lag>> /\ UNCHANGED jobVars
      BY <1>4, <2>2, Zenon DEF StartRead, Become
    <3>2. w \in DOMAIN pc /\ w \in DOMAIN cur /\ w \in DOMAIN starts
      BY <1>0, Zenon DEF ProcsOK, TypeOK
    <3> QED BY <2>1, <3>1, <3>2
  <2>4. pc[w] = "down"
    BY <1>4, Zenon DEF StartRead
  <2>5. Punctual(w)'
    BY <1>0, <2>3, <2>4 DEF Punctual, Busy, Marking
  <2>6. Holds(w)'
    BY <2>3, SMTT(30) DEF Holds, Busy, Marking
  <2>7. OthersKept(w)
    BY <1>0, <1>4, Zenon DEF StartRead, Become, OthersKept, ProcsOK, TypeOK, jobVars, Owned
  <2> QED BY <2>5, <2>6, <2>7, OthersFine, Zenon
<1>5. ASSUME NEW w \in Workers, StartWrite(w) PROVE Goal
  <2>1. cur[w] = {}
    BY <1>0, <1>5, Zenon DEF StartWrite, Punctual
  <2>2. UNCHANGED <<starts>> /\ \A j \in Jobs : status'[j] = status[j] /\ lockedBy'[j] = lockedBy[j] /\ lockAge'[j] = lockAge[j]
    BY <1>5, <2>1, Zenon DEF StartWrite, SetStatus, Unlock, jobVars
  <2> QED BY <1>a, <1>5, <2>2, RestKeeps, Zenon DEF StartWrite
<1>6. ASSUME NEW w \in Workers, RecoverStale(w) PROVE Goal
  <2>1. \A v \in Workers : pc[v] \in Busy => \A j \in cur[v] : ~Stale(j)
    BY Fresh, Zenon
  <2>2. pc[w] = "idle" /\ pc'[w] = "picking" /\ UNCHANGED <<hb, beat, lag, starts>>
    BY <1>0, <1>6, Zenon DEF RecoverStale, Become, ProcsOK
  <2>3. Punctual(w)'
    BY <1>0, <2>2, Zenon DEF Punctual, Busy, Marking
  <2>4. Holds(w)'
    BY <1>a, <2>2, Zenon DEF Holds, Busy, Marking
  <2>5. OthersKept(w)
    BY <1>0, <1>6, <2>1 DEF RecoverStale, Become, SetStatus, Unlock, OthersKept, ProcsOK, jobVars, Owned
  <2> QED BY <2>3, <2>4, <2>5, OthersFine
<1>7. ASSUME NEW w \in Workers, ClaimNone(w) \/ Stop(w) \/ Crash(w) PROVE Goal
  BY <1>a, <1>7, RestKeeps, Zenon DEF ClaimNone, Stop, Crash, jobVars
<1>8. ASSUME NEW w \in Workers, NEW j \in Jobs, Claim(w, j) PROVE Goal
  <2>1. /\ pc[w] = "picking" /\ status[j] = "queued"
        /\ status' = [status EXCEPT ![j] = "running"] /\ lockedBy' = [lockedBy EXCEPT ![j] = w]
        /\ lockAge' = [lockAge EXCEPT ![j] = AtMost(lag[w], StaleAge)]
        /\ UNCHANGED <<beat, starts>>
    BY <1>8, Zenon DEF Claim, Claimable, Due
  <2>2. /\ cur'[w] = {j} /\ lag'[w] = 0
        /\ \/ pc'[w] = "handling" /\ hb'[w]
           \/ pc'[w] = "failing" /\ hb'[w] = hb[w]
        /\ \A v \in Workers \ {w} : pc'[v] = pc[v] /\ cur'[v] = cur[v] /\ hb'[v] = hb[v] /\ lag'[v] = lag[v]
    BY <1>0, <1>8, Zenon DEF Claim, Become, ProcsOK
  <2>3. ~hb[w] /\ beat[w] = 0 /\ starts[w] # 0 /\ lag[w] \in Nat /\ lag[w] <= Latency
    BY <1>0, <1>a, <2>1 DEF Punctual, Busy, Marking, ProcsOK
  <2>4. Punctual(w)'
    BY <1>0, <1>c, <2>1, <2>2, <2>3, Zenon DEF Punctual, Busy, Marking
  <2>5. Owned(w, j)' /\ lockAge'[j] >= 0 /\ lockAge'[j] <= Latency /\ lockAge'[j] \in Nat
    <3>1. j \in DOMAIN status /\ j \in DOMAIN lockedBy /\ j \in DOMAIN lockAge
      BY <1>0, Zenon DEF RowsOK
    <3>2. Owned(w, j)' /\ lockAge'[j] = AtMost(lag[w], StaleAge)
      BY <2>1, <3>1, Zenon DEF Owned
    <3>3. StaleAge \in Nat /\ Latency \in Nat
      BY ConstantsAssumption, IntervalType, Zenon
    <3> QED BY <2>3, <3>2, <3>3, SMTT(30) DEF AtMost
  <2>6. lockAge'[j] <= Latency + (IF hb'[w] THEN beat'[w] ELSE BeatInterval + Latency + lag'[w])
    BY <2>1, <2>2, <2>3, <2>5, ConstantsAssumption, IntervalType, SMTT(30)
  <2>7. Holds(w)'
    BY <2>1, <2>2, <2>3, <2>5, <2>6, Zenon DEF Holds
  <2>8. OthersKept(w)
    BY <1>0, <2>1, <2>2, Zenon DEF OthersKept, RowsOK, Owned
  <2> QED BY <2>4, <2>7, <2>8, OthersFine, Zenon
<1>9. ASSUME NEW w \in Workers, NEW j \in Jobs, MarkRead(w, j) PROVE Goal
  <2>1. pc[w] \in Marking /\ UNCHANGED <<starts, jobVars>>
    BY <1>9, Zenon DEF MarkRead, Marking
  <2>2. CASE Rest(w, "idle")
    BY <1>a, <2>1, <2>2, RestKeeps, Zenon DEF jobVars, Marking
  <2>3. CASE ~Rest(w, "idle")
    BY <1>9, <2>1, <2>3, MoveKeeps, Zenon DEF MarkRead, Marking
  <2> QED BY <2>2, <2>3, Zenon
<1>10. ASSUME NEW w \in Workers, NEW R \in SUBSET cur[w], NEW s, pc[w] \in Marking,
              Rest(w, "idle"), UNCHANGED starts, SetStatus(R, s), Unlock(R)
       PROVE  Goal
  <2>1. \A v \in Workers \ {w} : \A j \in R : ~(pc[v] \in Busy /\ j \in cur[v])
    BY <1>b, <1>10, Zenon DEF Busy
  <2>2. starts[w] # 0
    BY <1>a, <1>10, Zenon DEF Marking
  <2>3. \A j \in Jobs : \/ status'[j] = status[j] /\ lockedBy'[j] = lockedBy[j] /\ lockAge'[j] = lockAge[j]
                        \/ lockedBy'[j] = NoWorker
                           /\ \A v \in Workers \ {w} : ~(pc[v] \in Busy /\ j \in cur[v])
    BY <1>10, <2>1, Zenon DEF SetStatus, Unlock
  <2> QED BY <1>10, <2>2, <2>3, RestKeeps, Zenon
<1>11. ASSUME NEW w \in Workers, NEW j \in Jobs, MarkSucceeded(w, j) \/ MarkFailed(w, j) PROVE Goal
  <2>1. pc[w] \in Marking \ {"forcing"} /\ {j} \in SUBSET cur[w] /\ UNCHANGED starts
    BY <1>11, Zenon DEF MarkSucceeded, MarkFailed, Marking
  <2>2. CASE MarkRaises(w) /\ UNCHANGED jobVars
    BY <2>1, <2>2, RaiseKeeps, Zenon
  <2> QED BY <1>10, <1>11, <2>1, <2>2, Zenon DEF MarkSucceeded, MarkFailed
<1>12. ASSUME NEW w \in Workers, ForceFailed(w) PROVE Goal
  <2>1. pc[w] \in Marking /\ starts[w] # 0 /\ UNCHANGED starts /\ Rest(w, "idle")
    BY <1>a, <1>12, Zenon DEF ForceFailed, Marking
  <2>2. CASE UNCHANGED jobVars
    BY <2>1, <2>2, RestKeeps, Zenon DEF jobVars
  <2>3. {j \in cur[w] : Owned(w, j)} \in SUBSET cur[w]
    OBVIOUS
  <2> QED BY <1>10, <1>12, <2>1, <2>2, <2>3, ZenonT(30) DEF ForceFailed
<1>13. ASSUME NEW w \in Workers, Handler(w) PROVE Goal
  <2>1. /\ pc[w] = "handling" /\ UNCHANGED <<cur, lag, starts>> /\ UNCHANGED jobVars
        /\ \A v \in Workers \ {w} : pc'[v] = pc[v] /\ hb'[v] = hb[v] /\ beat'[v] = beat[v]
    BY <1>0, <1>13 DEF Handler, HandlerReturns, HandlerRaises, ProcsOK
  <2>2. \/ pc'[w] = "succeeding" /\ ~hb'[w] /\ beat'[w] = 0
        \/ pc'[w] = "failing" /\ UNCHANGED <<hb, beat>>
    BY <1>0, <1>13, Zenon DEF Handler, HandlerReturns, HandlerRaises, ProcsOK
  <2>3. Punctual(w) /\ Holds(w) /\ hb[w] /\ lag[w] = 0 /\ beat[w] \in Nat
    BY <1>0, <2>1, Zenon DEF Punctual, Marking, ProcsOK
  <2>4. Punctual(w)'
    <3>1. CASE pc'[w] = "succeeding" /\ ~hb'[w] /\ beat'[w] = 0
      BY <1>c, <2>1, <2>3, <3>1, Zenon DEF Punctual, Busy, Marking
    <3>2. CASE pc'[w] = "failing" /\ UNCHANGED <<hb, beat>>
      BY <2>1, <2>3, <3>2, Zenon DEF Punctual, Busy, Marking
    <3> QED BY <2>2, <3>1, <3>2, Zenon
  <2>5. ASSUME NEW j \in cur[w]
        PROVE  /\ Owned(w, j)' /\ lockAge'[j] >= 0
               /\ lockAge'[j] <= Latency + (IF hb'[w] THEN beat'[w] ELSE BeatInterval + Latency + lag'[w])
    <3>1. /\ Owned(w, j) /\ lockAge[j] >= 0 /\ lockAge[j] <= Latency + beat[w]
          /\ beat[w] <= BeatInterval + Latency /\ lockAge[j] \in Int
      <4>1. lockAge[j] \in Int
        BY <1>0, <2>5, IntervalType DEF RowsOK, ProcsOK, NoLock
      <4>2. pc[w] \in Busy
        BY <2>1, Zenon DEF Busy
      <4>3. Owned(w, j) /\ lockAge[j] >= 0 /\ lockAge[j] <= Latency + beat[w]
        BY <2>3, <2>5, <4>2, Zenon DEF Holds
      <4>4. beat[w] <= BeatInterval + Latency
        BY <2>3, Zenon DEF Punctual
      <4> QED BY <4>1, <4>3, <4>4, Zenon
    <3>2. Owned(w, j)' /\ lockAge'[j] = lockAge[j] /\ lag'[w] = 0
      BY <2>1, <2>3, <3>1, Zenon DEF jobVars, Owned
    <3>3. CASE ~hb'[w]
      BY <2>3, <3>1, <3>2, <3>3, ConstantsAssumption, IntervalType, SMTT(30)
    <3>4. CASE UNCHANGED <<hb, beat>>
      BY <2>3, <3>1, <3>2, <3>4, Zenon
    <3> QED BY <2>2, <3>3, <3>4, Zenon
  <2>6. Holds(w)'
    BY <2>1, <2>3, <2>5, Zenon DEF Holds, jobVars
  <2>7. OthersKept(w)
    BY <2>1, Zenon DEF OthersKept, jobVars, Owned
  <2> QED BY <2>4, <2>6, <2>7, OthersFine
<1>14. ASSUME NEW w \in Workers, Beat(w) PROVE Goal
  <2>1. pc[w] \in Busy /\ hb[w] /\ Holds(w) /\ Punctual(w)
    BY <1>0, <1>14, Zenon DEF Beat, Punctual
  <2>2. PICK j \in Jobs : cur[w] = {j}
    BY <1>0, <2>1, Zenon DEF OneJob
  <2>3. Owned(w, j)
    BY <2>1, <2>2, Zenon DEF Holds
  <2>4. /\ lockAge' = [k \in Jobs |-> IF k \in cur[w] /\ Owned(w, k) THEN 0 ELSE lockAge[k]]
        /\ beat' = [beat EXCEPT ![w] = 0]
        /\ UNCHANGED <<hb, status, lockedBy, pc, cur, lag, starts>>
    BY <1>14, <2>2, <2>3, Zenon DEF Beat, Fault, LeaseTerms
  <2>5. beat'[w] = 0 /\ \A v \in Workers \ {w} : beat'[v] = beat[v]
    BY <1>0, <2>4, Zenon DEF ProcsOK
  <2>6. Punctual(w)'
    BY <1>c, <2>1, <2>4, <2>5, ZenonT(30) DEF Punctual
  <2>7. lockAge'[j] = 0
    BY <2>2, <2>3, <2>4, Zenon
  <2>8. Holds(w)'
    <3>1. starts'[w] # 0
      BY <1>a, <2>1, <2>4, Zenon DEF Busy, Marking
    <3>2. \A k \in cur'[w] : Owned(w, k)' /\ lockAge'[k] = 0
      BY <2>2, <2>3, <2>4, <2>7, Zenon DEF Owned
    <3>3. hb'[w] /\ 0 <= Latency + beat'[w]
      BY <2>1, <2>4, <2>5, ConstantsAssumption
    <3> QED BY <3>1, <3>2, <3>3 DEF Holds
  <2>9. OthersKept(w)
    BY <2>4, <2>5, Zenon DEF OthersKept, Owned
  <2> QED BY <2>6, <2>8, <2>9, OthersFine
<1>15. ASSUME NEW w \in Workers, MarkError(w) PROVE Goal
  BY <1>15, RaiseKeeps, Zenon DEF MarkError
<1>16. CASE (\E p \in Producers, r \in Requests : EnqueueFind(p, r)) \/ UNCHANGED vars
  BY <1>2, <1>16, Zenon DEF EnqueueFind, vars, jobVars, procVars
<1> QED BY <1>1, <1>3, <1>4, <1>5, <1>6, <1>7, <1>8, <1>9, <1>11, <1>12, <1>13, <1>14, <1>15, <1>16
        DEF Next, Worker, LeaseTerms

\* The lease invariant holds in every behaviour that keeps the terms.
LEMMA LeaseAlways == ASSUME LeaseTerms PROVE Spec => []LeaseInv
<1>1. Init => LeaseInv
  <2> SUFFICES ASSUME Init PROVE \A w \in Workers : OneJob /\ Punctual(w) /\ Holds(w)
    BY TypeInit, Zenon DEF LeaseInv, OneJob
  <2> QED BY ConstantsAssumption, IntervalType DEF Init, OneJob, Punctual, Holds, Busy, Marking
<1>2. LeaseInv /\ [Next]_vars => LeaseInv'
  BY LeaseStep, Zenon
<1> QED BY <1>1, <1>2, PTL DEF Spec

\* While a handler runs its job stays locked by its worker, whoever else
\* crashes, recovers or claims, when a heartbeat interval and three late
\* calls fit into the lock TTL.
THEOREM LockIsHeld == ASSUME LeaseTerms PROVE Spec => []HandlerHoldsLock
<1>1. LeaseInv => HandlerHoldsLock
  BY Zenon DEF LeaseInv, Holds, HandlerHoldsLock, Busy
<1> QED BY <1>1, LeaseAlways, PTL

\* Under the same terms a settled job is never active again: no late mark or
\* recovery overwrites a result.
THEOREM ResultsStay == ASSUME LeaseTerms PROVE Spec => TerminalIsFinal
<1> DEFINE Stays == \A j \in Jobs : status[j] \in Terminal /\ status'[j] \in Active
                      => \E a \in Admins : \E s \in adm[a] : s.job = j /\ s.op = "retry"
<1>1. LeaseInv /\ [Next]_vars => [Stays]_vars
  <2> SUFFICES ASSUME LeaseInv, Next, NEW j \in Jobs, status[j] \in Terminal PROVE status'[j] \notin Active
    OBVIOUS
  <2>0. RowsOK /\ ProcsOK /\ \A w \in Workers : Punctual(w) /\ Holds(w)
    BY Zenon DEF LeaseInv, TypeOK
  <2>1. status[j] \notin Active /\ status[j] \notin {"absent", "queued", "running"}
    BY Zenon DEF Active, Terminal
  <2>2. CASE UNCHANGED status
    BY <2>1, <2>2, Zenon
  <2>3. ASSUME NEW p \in Producers, NEW k \in Jobs, EnqueueInsert(p, k) PROVE status'[j] \notin Active
    BY <2>0, <2>1, <2>3, Zenon DEF EnqueueInsert, RowsOK, jobVars
  <2>4. ASSUME NEW w \in Workers, StartWrite(w) PROVE status'[j] \notin Active
    BY <2>0, <2>1, <2>4, Zenon DEF StartWrite, Punctual, SetStatus, jobVars
  <2>5. ASSUME NEW w \in Workers, RecoverStale(w) PROVE status'[j] \notin Active
    BY <2>1, <2>5, Zenon DEF RecoverStale, Stale, SetStatus, jobVars
  <2>6. ASSUME NEW w \in Workers, NEW k \in Jobs, Claim(w, k) PROVE status'[j] \notin Active
    <3>1. status[k] = "queued" /\ status' = [status EXCEPT ![k] = "running"]
      BY <2>6, Zenon DEF Claim, Claimable, Due
    <3> QED BY <2>1, <3>1
  <2>7. ASSUME NEW w \in Workers, NEW k \in Jobs, MarkSucceeded(w, k) \/ MarkFailed(w, k)
        PROVE  status'[j] \notin Active
    <3>1. pc[w] \in Busy /\ k \in cur[w]
      BY <2>7, ZenonT(30) DEF MarkSucceeded, MarkFailed, Busy, Marking
    <3>2. status[k] = "running"
      <4>1. Holds(w)
        BY <2>0, Zenon
      <4> QED BY <3>1, <4>1, Zenon DEF Holds, Owned
    <3>3. j # k
      BY <2>1, <3>2, Zenon
    <3> QED BY <2>1, <2>7, <3>3, Zenon DEF MarkSucceeded, MarkFailed, SetStatus, jobVars
  <2>8. ASSUME NEW w \in Workers, ForceFailed(w) PROVE status'[j] \notin Active
    BY <2>1, <2>8, Zenon DEF ForceFailed, Owned, SetStatus, jobVars
  <2>9. ASSUME NEW w \in Workers,
               \/ StartRead(w) \/ ClaimNone(w) \/ (\E k \in Jobs : MarkRead(w, k)) \/ Handler(w)
               \/ Beat(w) \/ Stop(w) \/ MarkError(w) \/ Crash(w)
        PROVE  status'[j] \notin Active
    BY <2>2, <2>9, Zenon DEF StartRead, ClaimNone, MarkRead, Handler, HandlerReturns, HandlerRaises,
                      Beat, Stop, MarkError, Crash, jobVars
  <2>10. CASE Tick \/ \E p \in Producers, r \in Requests : EnqueueFind(p, r)
    BY <2>2, <2>10, Zenon DEF Tick, EnqueueFind, jobVars
  <2> QED BY <2>3, <2>4, <2>5, <2>6, <2>7, <2>8, <2>9, <2>10, Zenon DEF Next, Worker, LeaseTerms
<1> QED BY <1>1, LeaseAlways, PTL DEF Spec, TerminalIsFinal
-----------------------------------------------------------------------------
\* Without manual edits a running job always has a lock that some recovery
\* will find, whatever the timing and the faults.
THEOREM LockIsRecorded == ASSUME Admins = {} PROVE Spec => []RunningIsRecoverable
<1> DEFINE Inv == TypeOK /\ RunningIsRecoverable
<1>1. Init => Inv
  BY TypeInit, Zenon DEF Init, RunningIsRecoverable
<1>2. Inv /\ [Next]_vars => Inv'
  <2> SUFFICES ASSUME Inv, [Next]_vars PROVE RunningIsRecoverable'
    BY TypeStep, Zenon
  <2>0. RowsOK /\ ProcsOK /\ RunningIsRecoverable
    BY Zenon DEF TypeOK
  <2>1. ASSUME NEW R, NEW s, s # "running", SetStatus(R, s), Unlock(R) PROVE RunningIsRecoverable'
    BY <2>0, <2>1, Zenon DEF SetStatus, Unlock, RunningIsRecoverable
  <2>2. CASE UNCHANGED <<status, lockedBy, lockAge>>
    BY <2>0, <2>2, Zenon DEF RunningIsRecoverable
  <2>3. CASE Tick
    <3>1. ASSUME NEW j \in Jobs, lockAge[j] # NoLock PROVE lockAge'[j] # NoLock
      <4>1. lockAge[j] \in NoLock..StaleAge /\ StaleAge \in Nat
        BY <2>0, IntervalType, Zenon DEF RowsOK
      <4>2. lockAge'[j] = AtMost(lockAge[j] + 1, StaleAge)
        BY <2>3, <3>1, Zenon DEF Tick
      <4> QED BY <3>1, <4>1, <4>2 DEF AtMost, NoLock
    <3>2. UNCHANGED <<status, lockedBy>>
      BY <2>3, Zenon DEF Tick
    <3> QED BY <2>0, <3>1, <3>2, Zenon DEF RunningIsRecoverable
  <2>4. ASSUME NEW p \in Producers, NEW j \in Jobs, EnqueueInsert(p, j) PROVE RunningIsRecoverable'
    BY <2>0, <2>4, Zenon DEF EnqueueInsert, RowsOK, RunningIsRecoverable, jobVars
  <2>5. ASSUME NEW w \in Workers, StartWrite(w) \/ RecoverStale(w) \/ ForceFailed(w) PROVE RunningIsRecoverable'
    BY <2>1, <2>2, <2>5, Zenon DEF StartWrite, RecoverStale, ForceFailed, jobVars
  <2>6. ASSUME NEW w \in Workers, NEW j \in Jobs, Claim(w, j) PROVE RunningIsRecoverable'
    <3>1. /\ status' = [status EXCEPT ![j] = "running"] /\ lockedBy' = [lockedBy EXCEPT ![j] = w]
          /\ lockAge' = [lockAge EXCEPT ![j] = AtMost(lag[w], StaleAge)]
      BY <2>6, Zenon DEF Claim
    <3>2. lag[w] \in 0..StaleAge /\ StaleAge \in Nat
      BY <2>0, IntervalType, Zenon DEF ProcsOK
    <3>3. AtMost(lag[w], StaleAge) # NoLock
      BY <3>2 DEF AtMost, NoLock
    <3>4. w # NoWorker
      BY ConstantsAssumption, Zenon
    <3> QED BY <2>0, <3>1, <3>3, <3>4, Zenon DEF RowsOK, RunningIsRecoverable
  <2>7. ASSUME NEW w \in Workers, NEW j \in Jobs, MarkSucceeded(w, j) \/ MarkFailed(w, j) PROVE RunningIsRecoverable'
    BY <2>1, <2>2, <2>7, Zenon DEF MarkSucceeded, MarkFailed, jobVars
  <2>8. ASSUME NEW w \in Workers, Beat(w) PROVE RunningIsRecoverable'
    <3>1. /\ UNCHANGED <<status, lockedBy>>
          /\ \/ UNCHANGED lockAge
             \/ lockAge' = [j \in Jobs |-> IF j \in cur[w] /\ Owned(w, j) THEN 0 ELSE lockAge[j]]
      BY <2>8, Zenon DEF Beat
    <3>2. 0 # NoLock
      BY DEF NoLock
    <3>3. \A j \in Jobs : lockAge'[j] = lockAge[j] \/ lockAge'[j] = 0
      BY <3>1, Zenon
    <3> QED BY <2>0, <3>1, <3>2, <3>3, Zenon DEF RunningIsRecoverable
  <2>9. ASSUME NEW w \in Workers,
               \/ StartRead(w) \/ ClaimNone(w) \/ (\E k \in Jobs : MarkRead(w, k)) \/ Handler(w)
               \/ Stop(w) \/ MarkError(w) \/ Crash(w)
        PROVE  RunningIsRecoverable'
    BY <2>2, <2>9, Zenon DEF StartRead, ClaimNone, MarkRead, Handler, HandlerReturns, HandlerRaises,
                      Stop, MarkError, Crash, jobVars
  <2>10. CASE (\E p \in Producers, r \in Requests : EnqueueFind(p, r)) \/ UNCHANGED vars
    BY <2>2, <2>10, Zenon DEF EnqueueFind, vars, jobVars
  <2> QED BY <2>3, <2>4, <2>5, <2>6, <2>7, <2>8, <2>9, <2>10, Zenon DEF Next, Worker
<1> QED BY <1>1, <1>2, PTL DEF Spec

-----------------------------------------------------------------------------
(* Under the terms of the lease the durable queue implements JobLedger:    *)
(* every step is an acceptance, an execution or a settlement of one job,   *)
(* or invisible to the code that enqueues.                                 *)

\* A step that only moves rows between queued and running is invisible.
LEMMA Invisible ==
    ASSUME UNCHANGED <<spec, returned>>,
           \A j \in Jobs : \/ status[j] \in Active /\ status'[j] \in Active
                           \/ status'[j] = status[j]
    PROVE  UNCHANGED Ledger!vars
  BY DEF Ledger!vars

\* A row that leaves the active statuses settles its job.
LEMMA Settlement ==
    ASSUME NEW j \in Jobs, NEW s \in {"succeeded", "failed"}, status[j] \in Active,
           SetStatus({j}, s), s = "succeeded" => j \in returned,
           UNCHANGED <<spec, returned>>
    PROVE  Ledger!Next
<1>1. Ledger!Settle(j, s)
  BY DEF Ledger!Settle, SetStatus, Active
<1> QED BY <1>1 DEF Ledger!Next, Ledger!Outcomes

\* The INSERT accepts a job: the index has ruled out a clash with a pending one.
LEMMA Acceptance ==
    ASSUME RowsOK, NEW j \in Jobs, NEW r \in Requests, status[j] = "absent",
           ~IndexRejects(j, r), spec' = [spec EXCEPT ![j] = r],
           status' = [status EXCEPT ![j] = "queued"], UNCHANGED returned
    PROVE  Ledger!Next
<1>1. Ledger!Accept(j, r)
  <2>1. ASSUME NEW k \in Jobs, status[k] \in Active PROVE ~SameKey(spec[k], r)
    BY <2>1 DEF IndexRejects, Active
  <2>2. ASSUME NEW k \in Jobs PROVE status[k] # "pending"
    BY DEF RowsOK, Active, Terminal
  <2>3. \A k \in Jobs : status[k] \in Active => <<spec[k], r>> \notin
            {rs \in Requests \X Requests : SameKey(rs[1], rs[2])}
    BY <2>1
  <2>4. "queued" \in Active /\ "absent" \notin Active
    BY DEF Active
  <2>5. status \in [Jobs -> Active \union Terminal \union {"absent"}]
    BY DEF RowsOK
  <2> QED BY <2>2, <2>3, <2>4, <2>5 DEF Ledger!Accept
<1> QED BY <1>1 DEF Ledger!Next

\* A handler that returns executes its pending job.
LEMMA Execution ==
    ASSUME NEW j \in Jobs, status[j] \in Active, returned' = returned \union {j},
           UNCHANGED <<status, spec>>
    PROVE  Ledger!Next
<1>1. Ledger!Execute(j)
  BY DEF Ledger!Execute
<1> QED BY <1>1 DEF Ledger!Next
-----------------------------------------------------------------------------
\* No step touches a settled job, and none settles one unearned.
LEMMA Simulation ==
    ASSUME LeaseTerms, LeaseInv, RecordInv, Next
    PROVE  Ledger!Next \/ UNCHANGED Ledger!vars
<1>0. RowsOK /\ ProcsOK /\ OneJob /\ MarksAreEarned /\ \A w \in Workers : Punctual(w) /\ Holds(w)
  BY DEF LeaseInv, RecordInv, TypeOK
<1>1. CASE UNCHANGED <<status, spec, returned>>
  BY <1>1, Invisible
<1>2. ASSUME NEW p \in Producers, NEW j \in Jobs, EnqueueInsert(p, j) PROVE Ledger!Next \/ UNCHANGED Ledger!vars
  <2>1. PICK r \in prod[p] : \/ /\ ~IndexRejects(j, r) /\ spec' = [spec EXCEPT ![j] = r]
                                /\ status' = [status EXCEPT ![j] = "queued"]
                             \/ UNCHANGED jobVars
    BY <1>2 DEF EnqueueInsert
  <2>2. status[j] = "absent" /\ UNCHANGED returned
    BY <1>2 DEF EnqueueInsert, histVars
  <2>3. r \in Requests
    BY <2>1 DEF LeaseInv, TypeOK
  <2> QED BY <1>0, <1>1, <2>1, <2>2, <2>3, Acceptance DEF jobVars
<1>3. ASSUME NEW w \in Workers, StartWrite(w) PROVE UNCHANGED Ledger!vars
  <2>1. cur[w] = {}
    BY <1>0, <1>3 DEF Punctual, StartWrite
  <2>2. status' = status /\ UNCHANGED <<spec, returned>>
    BY <1>0, <1>3, <2>1 DEF StartWrite, SetStatus, RowsOK, jobVars, histVars
  <2> QED BY <2>2, Invisible
<1>4. ASSUME NEW w \in Workers, RecoverStale(w) PROVE UNCHANGED Ledger!vars
  BY <1>4, Invisible DEF RecoverStale, Stale, SetStatus, Active, jobVars, histVars
<1>5. ASSUME NEW w \in Workers, NEW j \in Jobs, Claim(w, j) PROVE UNCHANGED Ledger!vars
  <2>1. /\ status[j] = "queued" /\ status' = [status EXCEPT ![j] = "running"]
        /\ UNCHANGED <<spec, returned>>
    BY <1>5 DEF Claim, Claimable, Due, histVars
  <2> QED BY <1>0, <2>1, Invisible DEF RowsOK, Active
<1>6. ASSUME NEW w \in Workers, NEW j \in Jobs, MarkSucceeded(w, j) PROVE Ledger!Next
  <2>1. pc[w] = "succeeding_write" /\ j \in cur[w]
    BY <1>6 DEF MarkSucceeded
  <2>2. status[j] \in Active
    BY <1>0, <2>1 DEF Holds, Owned, Busy, Marking, Active
  <2>3. j \in returned
    BY <1>0, <2>1 DEF MarksAreEarned, Succeeding
  <2>4. SetStatus({j}, "succeeded") /\ UNCHANGED <<spec, returned>>
    BY <1>6 DEF MarkSucceeded, histVars
  <2> QED BY <2>2, <2>3, <2>4, Settlement
<1>7. ASSUME NEW w \in Workers, NEW j \in Jobs, MarkFailed(w, j) PROVE Ledger!Next \/ UNCHANGED Ledger!vars
  <2>1. pc[w] = "failing_write" /\ j \in cur[w]
    BY <1>7 DEF MarkFailed
  <2>2. status[j] \in Active
    BY <1>0, <2>1 DEF Holds, Owned, Busy, Marking, Active
  <2>3. /\ SetStatus({j}, "queued") \/ UNCHANGED status \/ SetStatus({j}, "failed")
        /\ UNCHANGED <<spec, returned>>
    BY <1>7 DEF MarkFailed, histVars, jobVars
  <2>4. CASE SetStatus({j}, "queued")
    BY <2>2, <2>3, <2>4, Invisible DEF SetStatus, Active
  <2> QED BY <1>1, <2>2, <2>3, <2>4, Settlement
<1>8. ASSUME NEW w \in Workers, ForceFailed(w) PROVE Ledger!Next \/ UNCHANGED Ledger!vars
  <2>1. PICK j \in Jobs : cur[w] = {j}
    BY <1>0, <1>8 DEF ForceFailed, OneJob, Busy, Marking
  <2>2. UNCHANGED <<spec, returned>>
    BY <1>8 DEF ForceFailed, jobVars
  <2>3. status[j] \in Active
    BY <1>0, <1>8, <2>1 DEF ForceFailed, Holds, Owned, Busy, Marking, Active
  <2>4. SetStatus({k \in {j} : Owned(w, k)}, "failed") \/ UNCHANGED status
    BY <1>8, <2>1 DEF ForceFailed, jobVars
  <2>5. CASE Owned(w, j)
    <3>1. {k \in {j} : Owned(w, k)} = {j}
      BY <2>5
    <3> QED BY <1>1, <2>2, <2>3, <2>4, <3>1, Settlement
  <2>6. CASE ~Owned(w, j)
    <3>1. {k \in {j} : Owned(w, k)} = {}
      BY <2>6
    <3> QED BY <2>2, <2>4, <3>1, Invisible DEF SetStatus
  <2> QED BY <2>5, <2>6
<1>9. ASSUME NEW w \in Workers, HandlerReturns(w) PROVE Ledger!Next
  <2>1. pc[w] = "handling" /\ returned' = returned \union cur[w] /\ UNCHANGED <<status, spec>>
    BY <1>9 DEF HandlerReturns, jobVars
  <2>2. PICK j \in Jobs : cur[w] = {j}
    BY <1>0, <2>1 DEF OneJob, Busy
  <2>3. status[j] \in Active
    BY <1>0, <2>1, <2>2 DEF Holds, Owned, Busy, Active
  <2> QED BY <2>1, <2>2, <2>3, Execution
<1>10. ASSUME NEW w \in Workers,
              \/ StartRead(w) \/ ClaimNone(w) \/ (\E k \in Jobs : MarkRead(w, k)) \/ HandlerRaises(w)
              \/ Beat(w) \/ Stop(w) \/ MarkError(w) \/ Crash(w)
       PROVE  UNCHANGED Ledger!vars
  <2>1. UNCHANGED <<status, spec, returned>>
    BY <1>10 DEF StartRead, ClaimNone, MarkRead, HandlerRaises, Beat, Stop, MarkError, Crash,
                 jobVars, histVars
  <2> QED BY <2>1, Invisible
<1>11. CASE Tick \/ \E p \in Producers, r \in Requests : EnqueueFind(p, r)
  BY <1>1, <1>11 DEF Tick, EnqueueFind, jobVars, histVars
<1> QED BY <1>2, <1>3, <1>4, <1>5, <1>6, <1>7, <1>8, <1>9, <1>10, <1>11
        DEF Next, Worker, Handler, LeaseTerms

\* When a heartbeat interval and three late calls fit into the lock TTL, the
\* code that enqueues cannot tell the queue with its workers, locks, retries
\* and crashes from one that settles every job at most once and in earnest.
THEOREM QueueKeepsLedger == ASSUME LeaseTerms PROVE Spec => KeepsLedger
<1>1. Init => Ledger!Init
  <2> SUFFICES ASSUME Init PROVE Ledger!Init
    OBVIOUS
  <2>1. "absent" \notin Active
    BY DEF Active
  <2>2. spec \in [Jobs -> Requests]
    BY TypeInit DEF TypeOK, RowsOK
  <2> QED BY <2>1, <2>2 DEF Init, Ledger!Init
<1>2. LeaseInv /\ RecordInv /\ [Next]_vars => [Ledger!Next]_(Ledger!vars)
  <2>1. CASE UNCHANGED vars
    BY <2>1, Invisible DEF vars, jobVars, histVars
  <2> QED BY <2>1, Simulation
<1> QED BY <1>1, <1>2, LeaseAlways, RecordAlways, PTL DEF Spec, KeepsLedger, Ledger!Spec
=============================================================================
