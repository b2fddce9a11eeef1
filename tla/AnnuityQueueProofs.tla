------------------------- MODULE AnnuityQueueProofs -------------------------
(***************************************************************************)
(* What holds of the annuity queue for any number of matters, drains and   *)
(* faults, and any timing constants.                                       *)
(***************************************************************************)
EXTENDS AnnuityQueue, FiniteSetTheorems, WellFoundedInduction, TLAPS

\* A matter without a row has no lock and no attempts behind it.
RowOK(m) == ~queued[m] => attempts[m] = 0 /\ token[m] = NoToken

Working == {"locked", "synced", "fail", "broken"}

\* A drain has one row in hand while it works; what its session holds fits its
\* place in _drain_one, and a lock it knows to be lost it does not have.
DrainOK(d) ==
    /\ pc[d] \notin Working => cur[d] = {} /\ read[d] = 0 /\ dirty[d] = "none" /\ ~lost[d]
    /\ pc[d] \in Working => \E m \in Matters : cur[d] = {m}
    /\ pc[d] = "locked" => dirty[d] = "none"
    /\ pc[d] = "synced" => dirty[d] = "full"
    /\ pc[d] = "fail" /\ dirty[d] = "full" => lost[d]
    /\ lost[d] => \A m \in cur[d] : token[m] # d

\* A drain that serves a job has it to itself.
Serves(d) == loop[d] = "task" /\ pc[d] # "off"
JobOK(d) ==
    Serves(d) => /\ job[d] \in Payloads /\ jobs[job[d]] = "running"
                 /\ \A e \in Drains : Serves(e) /\ job[e] = job[d] => e = d

\* With heartbeats in time a drain keeps the lock of the row in hand.
LeaseOK(d) == Timely => \A m \in cur[d] : token[m] = d /\ lockAge[m] <= LockTimeout

\* Versions only grow: what a drain has read is no newer than the annuities, and
\* as long as the row is its own it is no older than the workflows, unless a
\* drain that had lost the row wrote them with its dead letter.
FlowOK(m) ==
    /\ flows[m] <= data[m]
    /\ \A d \in Drains : m \in cur[d] =>
          /\ read[d] <= data[m]
          /\ pc[d] = "synced" /\ token[m] = d => flows[m] <= read[d] \/ (dead[m] > 0 /\ ~Timely)

\* The type invariant, by the parts a step leaves alone.
Rows ==
    /\ queued   \in [Matters -> BOOLEAN] /\ attempts \in [Matters -> 0..MaxAttempts]
    /\ delay    \in [Matters -> Nat] /\ lockAge  \in [Matters -> NoLock..StaleAge]
    /\ token    \in [Matters -> Drains \union {NoToken}]
    /\ \A m \in Matters : (lockAge[m] = NoLock) <=> (token[m] = NoToken)
Works ==
    /\ data \in [Matters -> Nat] /\ flows \in [Matters -> Nat] /\ dead \in [Matters -> Nat]
    /\ torn \in [Matters -> BOOLEAN] /\ changes \in Nat /\ faults \in Nat
JobTable == jobs \in [Payloads -> {"none", "queued", "running"}]
Places ==
    /\ pc     \in [Drains -> {"off", "loop", "locked", "synced", "fail", "broken"}]
    /\ loop   \in [Drains -> {"task", "sweep"}]
    /\ rest   \in [Drains -> SUBSET Matters] /\ cur \in [Drains -> SUBSET Matters]
    /\ job    \in [Drains -> SUBSET Matters] /\ served \in [Drains -> SUBSET Matters]
    /\ read   \in [Drains -> Nat]
    /\ dirty  \in [Drains -> {"none", "part", "full"}] /\ lost \in [Drains -> BOOLEAN]

Inv ==
    /\ Rows /\ Works /\ JobTable /\ Places
    /\ \A m \in Matters : RowOK(m)
    /\ \A d \in Drains : DrainOK(d)
    /\ \A d \in Drains : JobOK(d)
    /\ \A d \in Drains : LeaseOK(d)
    /\ \A m \in Matters : FlowOK(m)

LEMMA Parts == TypeOK <=> Rows /\ Works /\ JobTable /\ Places
  BY Zenon DEF TypeOK, Rows, Works, JobTable, Places

-----------------------------------------------------------------------------
(* Numbers.                                                                *)

\* The powers of two that _compute_backoff_seconds computes are natural numbers.
LEMMA PowerType == ASSUME NEW n \in Nat PROVE 2 ^ n \in Nat
<1>1. IsFiniteSet(1..n) /\ Cardinality(1..n) = n
  BY FS_Interval, SMT
<1>2. Cardinality(SUBSET (1..n)) = 2 ^ n /\ IsFiniteSet(SUBSET (1..n))
  BY <1>1, FS_SUBSET, Zenon
<1> QED BY <1>2, FS_CardinalityType, Zenon

LEMMA BackoffType == ASSUME NEW n \in Nat PROVE BackoffOf(n) \in Nat
<1> DEFINE e == IF n > 1 THEN n - 1 ELSE 0
<1>1. e \in Nat
  OBVIOUS
<1>2. PICK k \in Nat : k = 2 ^ e
  BY <1>1, PowerType, Zenon
<1>3. BackoffBase * k \in Nat
  BY ConstantsAssumption
<1>4. BackoffOf(n) = Least(BackoffCap, BackoffBase * k)
  BY <1>2, Zenon DEF BackoffOf
<1> QED BY <1>3, <1>4, ConstantsAssumption, Zenon DEF Least

\* The smallest id of a payload is one of its ids.
LEMMA MinIn == ASSUME NEW J \in SUBSET Matters, J # {} PROVE Min(J) \in J
<1>1. J \subseteq Nat
  BY ConstantsAssumption, Zenon
<1>2. PICK x \in J : \A y \in J : ~(<<y, x>> \in OpToRel(<, Nat))
  BY <1>1, NatLessThanWellFounded, WFMin, Zenon
<1>3. \A y \in J : x <= y
  <2>1. ASSUME NEW y \in J, y < x PROVE FALSE
    <3>1. <<y, x>> \in {s \in Nat \X Nat : s[1] < s[2]}
      BY <1>1, <2>1, Zenon
    <3>2. <<y, x>> \in OpToRel(<, Nat)
      BY <3>1, Zenon DEF OpToRel
    <3> QED BY <1>2, <3>2, Zenon
  <2> QED BY <1>1, <2>1
<1> QED BY <1>3, Zenon DEF Min

-----------------------------------------------------------------------------
(* The parts of the invariant that a step of one drain can disturb.        *)

LEMMA InvInit == Init => Inv
<1> SUFFICES ASSUME Init PROVE Inv
  OBVIOUS
<1>1. Rows
  BY ConstantsAssumption DEF Init, Rows, NoLock, StaleAge
<1>2. Works /\ JobTable
  BY Zenon DEF Init, Works, JobTable
<1>3. Places
  BY Zenon DEF Init, Places
<1>4. \A m \in Matters : RowOK(m)
  BY Zenon DEF Init, RowOK
<1>5. \A d \in Drains : cur[d] = {} /\ pc[d] = "off" /\ read[d] = 0 /\ dirty[d] = "none" /\ ~lost[d]
  BY Zenon DEF Init
<1>6. \A d \in Drains : DrainOK(d) /\ JobOK(d) /\ LeaseOK(d)
  BY <1>5, Zenon DEF DrainOK, JobOK, Serves, LeaseOK, Working
<1>7. \A m \in Matters : FlowOK(m)
  BY <1>5 DEF Init, FlowOK
<1> QED BY <1>1, <1>2, <1>3, <1>4, <1>6, <1>7, Zenon DEF Inv

\* The drain e does nothing.
Same(e) ==
    /\ pc'[e] = pc[e] /\ loop'[e] = loop[e] /\ cur'[e] = cur[e] /\ job'[e] = job[e]
    /\ read'[e] = read[e] /\ dirty'[e] = dirty[e] /\ (lost'[e] <=> lost[e])

\* No row comes under the token of e, and a row in its hands is left alone when
\* heartbeats are in time.
Spared(e) ==
    \A m \in Matters : /\ token'[m] = e => token[m] = e
                       /\ Timely /\ m \in cur[e] => token'[m] = token[m] /\ lockAge'[m] = lockAge[m]

LEMMA OtherDrains ==
    ASSUME Inv, NEW e \in Drains, Same(e), Spared(e) PROVE DrainOK(e)' /\ LeaseOK(e)'
<1>1. DrainOK(e) /\ LeaseOK(e) /\ cur[e] \subseteq Matters
  BY Zenon DEF Inv, Places
<1>2. DrainOK(e)'
  BY <1>1, Zenon DEF DrainOK, Same, Spared
<1>3. LeaseOK(e)'
  BY <1>1, Zenon DEF LeaseOK, Same, Spared
<1> QED BY <1>2, <1>3, Zenon

\* Versions, when no workflow is rebuilt: e has what it had, or has read nothing,
\* or has just read the annuities.
LEMMA FlowKept ==
    ASSUME Inv, Works', Places', flows' = flows,
           \A m \in Matters : data[m] <= data'[m] /\ dead[m] <= dead'[m],
           \A m \in Matters, e \in Drains : m \in cur'[e] =>
               \/ /\ m \in cur[e] /\ read'[e] = read[e]
                  /\ pc'[e] = "synced" /\ token'[m] = e => pc[e] = "synced" /\ token[m] = e
               \/ read'[e] = 0 /\ pc'[e] # "synced"
               \/ read'[e] = data[m]
    PROVE  \A m \in Matters : FlowOK(m)'
<1> SUFFICES ASSUME NEW m \in Matters PROVE FlowOK(m)'
  OBVIOUS
<1>1. /\ FlowOK(m) /\ flows[m] \in Nat /\ data[m] \in Nat /\ dead[m] \in Nat
      /\ data'[m] \in Nat /\ dead'[m] \in Nat /\ data[m] <= data'[m] /\ dead[m] <= dead'[m]
      /\ flows'[m] = flows[m]
  BY Zenon DEF Inv, Works
<1>2. flows'[m] <= data'[m]
  BY <1>1 DEF FlowOK
<1>3. ASSUME NEW e \in Drains, m \in cur'[e]
      PROVE  /\ read'[e] <= data'[m]
             /\ pc'[e] = "synced" /\ token'[m] = e
                => flows'[m] <= read'[e] \/ (dead'[m] > 0 /\ ~Timely)
  <2>1. read[e] \in Nat /\ read'[e] \in Nat
    BY Zenon DEF Inv, Places
  <2>2. CASE /\ m \in cur[e] /\ read'[e] = read[e]
             /\ pc'[e] = "synced" /\ token'[m] = e => pc[e] = "synced" /\ token[m] = e
    BY <1>1, <2>1, <2>2 DEF FlowOK
  <2>3. CASE read'[e] = 0 /\ pc'[e] # "synced"
    BY <1>1, <2>3
  <2>4. CASE read'[e] = data[m]
    BY <1>1, <2>4, Zenon DEF FlowOK
  <2> QED BY <1>3, <2>2, <2>3, <2>4, Zenon
<1> QED BY <1>2, <1>3, Zenon DEF FlowOK

LEMMA JobsKept ==
    ASSUME Inv, \A J \in Payloads : jobs[J] = "running" => jobs'[J] = "running",
           \A e \in Drains : Serves(e)' => Serves(e) /\ job'[e] = job[e]
    PROVE  \A e \in Drains : JobOK(e)'
<1> SUFFICES ASSUME NEW e \in Drains PROVE JobOK(e)'
  OBVIOUS
<1>1. JobOK(e)
  BY Zenon DEF Inv
<1> QED BY <1>1, Zenon DEF JobOK

\* A step of the drain d, in parts.
LEMMA Assemble ==
    ASSUME Inv, NEW d \in Drains, Rows', Works', JobTable', Places',
           \A m \in Matters : RowOK(m)',
           \A e \in Drains \ {d} : Same(e) /\ Spared(e),
           DrainOK(d)', LeaseOK(d)', \A e \in Drains : JobOK(e)',
           \A m \in Matters : FlowOK(m)'
    PROVE  Inv'
<1>1. \A e \in Drains : DrainOK(e)' /\ LeaseOK(e)'
  BY OtherDrains, Zenon
<1> QED BY <1>1, Zenon DEF Inv

-----------------------------------------------------------------------------
(* One lemma per action: it preserves the invariant.                       *)

LEMMA StutterInv == ASSUME Inv, UNCHANGED vars PROVE Inv'
<1>1. /\ Rows' /\ Works' /\ JobTable' /\ Places'
  BY Zenon DEF Inv, Rows, Works, JobTable, Places, vars, rowVars, drainVars
<1>2. \A m \in Matters : RowOK(m)' /\ FlowOK(m)'
  BY Zenon DEF Inv, RowOK, FlowOK, vars, rowVars, drainVars
<1>3. \A d \in Drains : DrainOK(d)' /\ LeaseOK(d)'
  BY Zenon DEF Inv, DrainOK, LeaseOK, vars, rowVars, drainVars
<1>4. \A d \in Drains : JobOK(d)'
  BY Zenon DEF Inv, JobOK, Serves, vars, drainVars
<1> QED BY <1>1, <1>2, <1>3, <1>4, Zenon DEF Inv

LEMMA TickInv == ASSUME Inv, Tick PROVE Inv'
<1>1. \A m \in Matters : lockAge[m] \in NoLock..StaleAge /\ delay[m] \in Nat
  BY Zenon DEF Inv, Rows
<1>2. \A m \in Matters : /\ lockAge'[m] \in NoLock..StaleAge
                         /\ (lockAge'[m] = NoLock) <=> (lockAge[m] = NoLock)
                         /\ lockAge[m] < LockTimeout => lockAge'[m] <= LockTimeout
                         /\ delay'[m] \in Nat
  BY <1>1, ConstantsAssumption DEF Tick, Least, NoLock, StaleAge
<1>3. lockAge' \in [Matters -> NoLock..StaleAge] /\ delay' \in [Matters -> Nat]
  BY <1>2, Zenon DEF Tick
<1>4. Rows'
  BY <1>2, <1>3, Zenon DEF Inv, Rows, Tick
<1>5. Works' /\ JobTable' /\ Places'
  BY Zenon DEF Inv, Works, JobTable, Places, Tick, drainVars
<1>6. \A m \in Matters : RowOK(m)' /\ FlowOK(m)'
  BY Zenon DEF Inv, RowOK, FlowOK, Tick, drainVars
<1>7. (\A d \in Drains : DrainOK(d)') /\ \A d \in Drains : JobOK(d)'
  <2>1. \A d \in Drains : DrainOK(d)'
    BY Zenon DEF Inv, DrainOK, Tick, drainVars
  <2>2. \A d \in Drains : JobOK(d)'
    BY Zenon DEF Inv, JobOK, Serves, Tick, drainVars
  <2> QED BY <2>1, <2>2, Zenon
<1>8. \A d \in Drains : LeaseOK(d)'
  <2> SUFFICES ASSUME NEW d \in Drains, Timely, NEW m \in cur'[d]
               PROVE  token'[m] = d /\ lockAge'[m] <= LockTimeout
    BY Zenon DEF LeaseOK
  <2>1. m \in cur[d] /\ m \in Matters /\ token'[m] = token[m]
    BY Zenon DEF Tick, drainVars, Inv, Places
  <2>2. token[m] = d
    BY <2>1, Zenon DEF Inv, LeaseOK
  <2>3. lockAge[m] < LockTimeout
    BY <2>1, <2>2, Zenon DEF Tick, Held
  <2> QED BY <1>2, <2>1, <2>2, <2>3, Zenon
<1> QED BY <1>4, <1>5, <1>6, <1>7, <1>8, Zenon DEF Inv

LEMMA EnqueueJobs ==
    ASSUME Inv, NEW J \in Payloads, EnqueueJob(J), UNCHANGED drainVars
    PROVE  JobTable' /\ \A d \in Drains : JobOK(d)'
<1>1. JobTable'
  BY Zenon DEF Inv, JobTable, EnqueueJob
<1>2. \A K \in Payloads : jobs[K] = "running" => jobs'[K] = "running"
  BY Zenon DEF Inv, JobTable, EnqueueJob
<1>3. \A e \in Drains : Serves(e)' => Serves(e) /\ job'[e] = job[e]
  BY Zenon DEF Serves, drainVars
<1> QED BY <1>1, <1>2, <1>3, JobsKept, Zenon

\* The annuities move on, and rows may be inserted.
LEMMA ChangedInv ==
    ASSUME Inv, NEW J \in Payloads, EnqueueJob(J), data' \in [Matters -> Nat],
           \A m \in Matters : data[m] <= data'[m], changes' \in Nat,
           queued' \in [Matters -> BOOLEAN], \A m \in Matters : queued[m] => queued'[m],
           UNCHANGED <<flows, torn, attempts, delay, lockAge, token, dead, drainVars, faults>>
    PROVE  Inv'
<1>1. Rows' /\ Works' /\ Places'
  BY Zenon DEF Inv, Rows, Works, Places, drainVars
<1>2. JobTable' /\ \A d \in Drains : JobOK(d)'
  BY EnqueueJobs, Zenon
<1>3. \A m \in Matters : RowOK(m)'
  BY Zenon DEF Inv, RowOK
<1>4. \A d \in Drains : DrainOK(d)' /\ LeaseOK(d)'
  BY Zenon DEF Inv, DrainOK, LeaseOK, drainVars
<1>5. \A m \in Matters : dead[m] \in Nat /\ dead[m] <= dead'[m]
  BY DEF Inv, Works
<1>6. \A m \in Matters : FlowOK(m)'
  BY <1>1, <1>5, FlowKept, Zenon DEF drainVars
<1> QED BY <1>1, <1>2, <1>3, <1>4, <1>6, Zenon DEF Inv

LEMMA ChangeInv == ASSUME Inv, NEW m \in Matters, Change(m) PROVE Inv'
<1>1. {m} \in Payloads
  BY Zenon DEF Payloads
<1>2. data' \in [Matters -> Nat] /\ \A k \in Matters : data[k] <= data'[k]
  BY DEF Inv, Works, Change
<1>3. queued' \in [Matters -> BOOLEAN] /\ \A k \in Matters : queued[k] => queued'[k]
  BY Zenon DEF Inv, Rows, Change
<1>4. changes' \in Nat
  BY DEF Inv, Works, Change
<1> QED BY <1>1, <1>2, <1>3, <1>4, ChangedInv, Zenon DEF Change

LEMMA ListenInv == ASSUME Inv, NEW J \in Payloads, Listen(J) PROVE Inv'
<1>2. data' \in [Matters -> Nat] /\ \A k \in Matters : data[k] <= data'[k]
  BY DEF Inv, Works, Listen
<1>3. queued' \in [Matters -> BOOLEAN] /\ \A k \in Matters : queued[k] => queued'[k]
  BY Zenon DEF Inv, Rows, Listen, rowVars
<1>4. changes' \in Nat
  BY DEF Inv, Works, Listen
<1> QED BY <1>2, <1>3, <1>4, ChangedInv, Zenon DEF Listen, rowVars

\* What is left of a step of d once rows, jobs, works and versions are done with.
LEMMA PlacesInv ==
    ASSUME Inv, NEW d \in Drains, Places', \A e \in Drains \ {d} : Same(e)
    PROVE  (\A J \in Payloads : jobs[J] = "running" => jobs'[J] = "running")
           /\ (Serves(d)' => Serves(d) /\ job'[d] = job[d])
           => \A e \in Drains : JobOK(e)'
<1> SUFFICES ASSUME \A J \in Payloads : jobs[J] = "running" => jobs'[J] = "running",
                    Serves(d)' => Serves(d) /\ job'[d] = job[d]
             PROVE  \A e \in Drains : JobOK(e)'
  OBVIOUS
<1>1. \A e \in Drains : Serves(e)' => Serves(e) /\ job'[e] = job[e]
  BY Zenon DEF Serves, Same
<1> QED BY <1>1, JobsKept, Zenon

\* Under the conditions of _lock_specific_items and _pick_and_lock_ready_items
\* no other drain has the row in hand, unless its heartbeat is late.
LEMMA NotInHand ==
    ASSUME Inv, NEW m \in Matters, Ready(m) \/ ~queued[m], Timely, NEW e \in Drains PROVE m \notin cur[e]
<1> SUFFICES ASSUME m \in cur[e] PROVE FALSE
  OBVIOUS
<1>1. token[m] = e /\ lockAge[m] <= LockTimeout
  BY Zenon DEF Inv, LeaseOK
<1>2. token[m] # NoToken
  BY <1>1, ConstantsAssumption, Zenon
<1>3. lockAge[m] # NoLock /\ queued[m] /\ lockAge[m] \in NoLock..StaleAge
  BY <1>2, Zenon DEF Inv, Rows, RowOK
<1> QED BY <1>1, <1>3, ConstantsAssumption DEF Ready, NoLock, StaleAge

LEMMA LockInv ==
    ASSUME Inv, NEW d \in Drains, NEW m \in Matters, NEW New \in SUBSET Matters,
           Ready(m) \/ (~queued[m] /\ m \in New), pc[d] \in {"off", "loop"},
           LockRow(d, m, New), Works', JobTable', UNCHANGED <<data, flows, dead>>,
           loop' \in [Drains -> {"task", "sweep"}], rest' \in [Drains -> SUBSET Matters],
           job' \in [Drains -> SUBSET Matters], served' \in [Drains -> SUBSET Matters],
           \A e \in Drains \ {d} : loop'[e] = loop[e] /\ job'[e] = job[e],
           \A e \in Drains : JobOK(e)'
    PROVE  Inv'
<1>1. attempts[m] \in Nat /\ attempts[m] + 1 \in 0..MaxAttempts
  <2>1. attempts[m] \in 0..MaxAttempts
    BY Zenon DEF Inv, Rows
  <2>2. ~queued[m] => attempts[m] = 0
    BY Zenon DEF Inv, RowOK
  <2> QED BY <2>1, <2>2, ConstantsAssumption DEF Ready
<1>2. Rows'
  <2>1. attempts' \in [Matters -> 0..MaxAttempts]
    BY <1>1, Zenon DEF Inv, Rows, LockRow
  <2>2. lockAge' \in [Matters -> NoLock..StaleAge] /\ 0 # NoLock
    BY ConstantsAssumption DEF Inv, Rows, LockRow, NoLock, StaleAge
  <2>3. token' \in [Matters -> Drains \union {NoToken}]
    BY Zenon DEF Inv, Rows, LockRow
  <2>4. queued' \in [Matters -> BOOLEAN] /\ delay' \in [Matters -> Nat]
    BY Zenon DEF Inv, Rows, LockRow
  <2>5. \A k \in Matters : (lockAge'[k] = NoLock) <=> (token'[k] = NoToken)
    BY <2>2, ConstantsAssumption, Zenon DEF Inv, Rows, LockRow
  <2> QED BY <2>1, <2>2, <2>3, <2>4, <2>5, Zenon DEF Rows
<1>3. Places'
  BY Zenon DEF Inv, Places, LockRow, Goto
<1>4. \A k \in Matters : RowOK(k)'
  <2>1. queued'[m]
    BY Zenon DEF LockRow, Ready
  <2>2. \A k \in Matters \ {m} : /\ attempts'[k] = attempts[k] /\ token'[k] = token[k]
                                 /\ queued[k] => queued'[k]
    BY Zenon DEF Inv, Rows, LockRow
  <2> QED BY <2>1, <2>2, Zenon DEF Inv, RowOK
<1>5. \A e \in Drains \ {d} : Same(e)
  BY Zenon DEF Inv, Places, LockRow, Goto, Same
<1>6. \A e \in Drains \ {d} : Spared(e)
  <2> SUFFICES ASSUME NEW e \in Drains \ {d}, NEW k \in Matters
               PROVE  /\ token'[k] = e => token[k] = e
                      /\ Timely /\ k \in cur[e] => token'[k] = token[k] /\ lockAge'[k] = lockAge[k]
    BY Zenon DEF Spared
  <2>1. k # m => token'[k] = token[k] /\ lockAge'[k] = lockAge[k]
    BY Zenon DEF Inv, Rows, LockRow
  <2>2. token'[m] = d
    BY Zenon DEF Inv, Rows, LockRow
  <2>3. Timely => m \notin cur[e]
    BY NotInHand, Zenon
  <2> QED BY <2>1, <2>2, <2>3, Zenon
<1>7. pc'[d] = "locked" /\ cur'[d] = {m} /\ dirty'[d] = "none" /\ ~lost'[d] /\ read'[d] = 0
      /\ token'[m] = d /\ lockAge'[m] = 0
  <2>1. DrainOK(d)
    BY Zenon DEF Inv
  <2>2. dirty[d] = "none" /\ read[d] = 0
    BY <2>1, Zenon DEF DrainOK, Working
  <2> QED BY <2>2, Zenon DEF Inv, Places, Rows, LockRow, Goto
<1>8. DrainOK(d)'
  BY <1>7, Zenon DEF DrainOK, Working
<1>9. LeaseOK(d)'
  BY <1>7, ConstantsAssumption DEF LeaseOK
<1>10. \A k \in Matters : data[k] <= data'[k] /\ dead[k] <= dead'[k]
  BY DEF Inv, Works
<1>11. \A k \in Matters : FlowOK(k)'
  <2> SUFFICES ASSUME NEW k \in Matters, NEW e \in Drains, k \in cur'[e]
               PROVE  \/ /\ k \in cur[e] /\ read'[e] = read[e]
                         /\ pc'[e] = "synced" /\ token'[k] = e => pc[e] = "synced" /\ token[k] = e
                      \/ read'[e] = 0 /\ pc'[e] # "synced"
                      \/ read'[e] = data[k]
    BY <1>3, <1>10, FlowKept, Zenon
  <2>1. CASE e = d
    BY <2>1, <1>7, Zenon
  <2>2. CASE e # d
    BY <2>2, <1>5, <1>6, Zenon DEF Same, Spared
  <2> QED BY <2>1, <2>2, Zenon
<1> QED BY <1>2, <1>3, <1>4, <1>5, <1>6, <1>8, <1>9, <1>11, Assemble, Zenon

\* d goes on without a row, in its loop or out of it.
LEMMA IdleInv ==
    ASSUME Inv, NEW d \in Drains, UNCHANGED <<rowVars, data, flows, dead>>, Works', JobTable', Places',
           \A e \in Drains \ {d} : Same(e),
           pc'[d] \in {"off", "loop"}, cur'[d] = {}, read'[d] = 0, dirty'[d] = "none", ~lost'[d],
           \A e \in Drains : JobOK(e)'
    PROVE  Inv'
<1>1. Rows'
  BY Zenon DEF Inv, Rows, rowVars
<1>2. \A k \in Matters : RowOK(k)'
  BY Zenon DEF Inv, RowOK, rowVars
<1>3. \A e \in Drains : Spared(e)
  BY Zenon DEF Spared, rowVars
<1>4. DrainOK(d)'
  <2>1. pc'[d] \notin Working
    BY Zenon DEF Working
  <2>2. pc'[d] \notin {"locked", "synced", "fail", "broken"}
    OBVIOUS
  <2> QED BY <2>1, <2>2, Zenon DEF DrainOK
<1>5. LeaseOK(d)'
  BY Zenon DEF LeaseOK
<1>6. \A k \in Matters : data[k] <= data'[k] /\ dead[k] <= dead'[k]
  BY DEF Inv, Works
<1>7. \A k \in Matters : FlowOK(k)'
  <2>1. \A k \in Matters, e \in Drains : k \in cur'[e] =>
               /\ k \in cur[e] /\ read'[e] = read[e]
               /\ pc'[e] = "synced" /\ token'[k] = e => pc[e] = "synced" /\ token[k] = e
    <3>1. \A k \in Matters, e \in Drains : k \in cur'[e] => e # d
      BY Zenon
    <3>2. \A e \in Drains \ {d} : cur'[e] = cur[e] /\ read'[e] = read[e] /\ pc'[e] = pc[e]
      BY Zenon DEF Same
    <3>3. token' = token
      BY Zenon DEF rowVars
    <3> QED BY <3>1, <3>2, <3>3, Zenon
  <2> QED BY <1>6, <2>1, FlowKept
<1> QED BY <1>1, <1>2, <1>3, <1>4, <1>5, <1>7, Assemble, Zenon

LEMMA BeginJobs ==
    ASSUME Inv, NEW d \in Drains, NEW J \in Payloads, jobs[J] = "queued",
           jobs' = [jobs EXCEPT ![J] = "running"], job'[d] = J,
           \A e \in Drains \ {d} : pc'[e] = pc[e] /\ loop'[e] = loop[e] /\ job'[e] = job[e]
    PROVE  JobTable' /\ \A e \in Drains : JobOK(e)'
<1>1. JobTable' /\ jobs'[J] = "running" /\ \A K \in Payloads \ {J} : jobs'[K] = jobs[K]
  BY Zenon DEF Inv, JobTable
<1>2. ASSUME NEW e \in Drains \ {d}, Serves(e)'
      PROVE  /\ Serves(e) /\ job'[e] = job[e] /\ job[e] \in Payloads \ {J}
             /\ jobs[job[e]] = "running"
  <2>1. Serves(e) /\ job'[e] = job[e] /\ JobOK(e)
    BY <1>2, Zenon DEF Serves, Inv
  <2> QED BY <2>1, <1>2, Zenon DEF JobOK
<1>3. ASSUME NEW e \in Drains, Serves(e)'
      PROVE  /\ job'[e] \in Payloads /\ jobs'[job'[e]] = "running"
             /\ \A f \in Drains : Serves(f)' /\ job'[f] = job'[e] => f = e
  <2>1. CASE e = d
    BY <1>1, <1>2, <2>1, Zenon
  <2>2. CASE e # d
    <3>1. Serves(e) /\ job'[e] = job[e] /\ job[e] \in Payloads \ {J} /\ jobs[job[e]] = "running"
      BY <1>2, <1>3, <2>2, Zenon
    <3>2. job'[e] \in Payloads /\ jobs'[job'[e]] = "running"
      BY <1>1, <3>1, Zenon
    <3>3. \A f \in Drains : Serves(f) /\ job[f] = job[e] => f = e
      BY <3>1, Zenon DEF Inv, JobOK
    <3>4. ASSUME NEW f \in Drains, Serves(f)', job'[f] = job'[e] PROVE f = e
      BY <1>2, <3>1, <3>3, <3>4, Zenon
    <3> QED BY <3>2, <3>4, Zenon
  <2> QED BY <2>1, <2>2, Zenon
<1>4. \A e \in Drains : JobOK(e)'
  BY <1>3, Zenon DEF JobOK
<1> QED BY <1>1, <1>4, Zenon

\* The job of a drain that leaves is its own.
LEMMA EndJobs ==
    ASSUME Inv, NEW d \in Drains, pc'[d] = "off",
           \A J \in Payloads : jobs'[J] = jobs[J] \/ (Serves(d) /\ J = job[d]),
           \A e \in Drains \ {d} : Same(e)
    PROVE  \A e \in Drains : JobOK(e)'
<1> SUFFICES ASSUME NEW e \in Drains, Serves(e)'
             PROVE  /\ job'[e] \in Payloads /\ jobs'[job'[e]] = "running"
                    /\ \A f \in Drains : Serves(f)' /\ job'[f] = job'[e] => f = e
  BY Zenon DEF JobOK
<1>1. \A f \in Drains : Serves(f)' => f # d /\ Serves(f) /\ job'[f] = job[f]
  BY Zenon DEF Serves, Same
<1>2. e # d /\ Serves(e) /\ job'[e] = job[e] /\ job[e] \in Payloads /\ jobs[job[e]] = "running"
  BY <1>1, Zenon DEF Inv, JobOK
<1>3. \A f \in Drains : Serves(f) /\ job[f] = job[e] => f = e
  BY <1>2, Zenon DEF Inv, JobOK
<1>4. jobs'[job[e]] = jobs[job[e]]
  BY <1>2, <1>3, Zenon
<1>5. \A f \in Drains : Serves(f)' /\ job'[f] = job'[e] => f = e
  BY <1>1, <1>2, <1>3, Zenon
<1> QED BY <1>2, <1>4, <1>5, Zenon

LEMMA PayloadMin ==
    ASSUME NEW J \in Payloads
    PROVE  /\ Min(J) \in J /\ Min(J) \in Matters /\ J \in SUBSET Matters /\ J \ {Min(J)} \in SUBSET Matters
<1>1. J \in SUBSET Matters /\ J # {}
  BY Zenon DEF Payloads
<1> QED BY <1>1, MinIn, Zenon

\* What NoRow changes.
LEMMA NoRowPlaces ==
    ASSUME Inv, NEW d \in Drains, NoRow(d), pc[d] \in {"off", "loop"},
           loop' \in [Drains -> {"task", "sweep"}], rest' \in [Drains -> SUBSET Matters],
           job' \in [Drains -> SUBSET Matters], served' \in [Drains -> SUBSET Matters],
           \A e \in Drains \ {d} : loop'[e] = loop[e] /\ job'[e] = job[e]
    PROVE  /\ Places' /\ \A e \in Drains \ {d} : Same(e)
           /\ pc'[d] = "loop" /\ cur'[d] = {} /\ read'[d] = 0 /\ dirty'[d] = "none" /\ ~lost'[d]
           /\ UNCHANGED rowVars
<1>1. Places'
  BY Zenon DEF Inv, Places, NoRow, Goto
<1>2. \A e \in Drains \ {d} : Same(e)
  BY Zenon DEF Inv, Places, NoRow, Goto, Same
<1>3. DrainOK(d) /\ pc[d] \notin Working
  BY Zenon DEF Inv, Working
<1>4. cur[d] = {} /\ read[d] = 0 /\ dirty[d] = "none" /\ ~lost[d]
  BY <1>3, Zenon DEF DrainOK
<1>5. pc'[d] = "loop" /\ cur'[d] = {} /\ read'[d] = 0 /\ dirty'[d] = "none" /\ ~lost'[d]
  BY <1>4, Zenon DEF Inv, Places, NoRow, Goto
<1> QED BY <1>1, <1>2, <1>5, Zenon DEF NoRow

LEMMA FaultType == ASSUME Inv, NEW k, Fault(k) \/ UNCHANGED faults PROVE faults' \in Nat
  BY DEF Inv, Works, Fault

LEMMA TaskBeginInv ==
    ASSUME Inv, NEW d \in Drains, NEW J \in Payloads, TaskBegin(d, J) PROVE Inv'
<1> DEFINE m == Min(J)
<1>0. m \in J /\ m \in Matters /\ J \in SUBSET Matters /\ J \ {m} \in SUBSET Matters
  BY PayloadMin, Zenon
<1>1. /\ pc[d] = "off" /\ jobs[J] = "queued"
      /\ jobs' = [jobs EXCEPT ![J] = "running"]
      /\ loop' = [loop EXCEPT ![d] = "task"] /\ job' = [job EXCEPT ![d] = J]
      /\ rest' = [rest EXCEPT ![d] = J \ {m}]
      /\ UNCHANGED <<data, flows, torn, dead, changes>>
      /\ \/ /\ Ready(m) \/ ~queued[m]
            /\ LockRow(d, m, J)
            /\ served' = [served EXCEPT ![d] = {m}] /\ UNCHANGED faults
         \/ /\ NoRow(d) /\ served' = [served EXCEPT ![d] = {}]
            /\ Fault("db") \/ UNCHANGED faults
  BY Zenon DEF TaskBegin
<1> HIDE DEF m
<1>2. /\ loop' \in [Drains -> {"task", "sweep"}] /\ rest' \in [Drains -> SUBSET Matters]
      /\ job' \in [Drains -> SUBSET Matters]
      /\ \A e \in Drains \ {d} : loop'[e] = loop[e] /\ job'[e] = job[e]
      /\ job'[d] = J
  BY <1>0, <1>1, Zenon DEF Inv, Places
<1>3. Works'
  <2>1. faults' \in Nat
    BY <1>1, FaultType, Zenon
  <2> QED BY <1>1, <2>1, Zenon DEF Inv, Works
<1>4. \A e \in Drains \ {d} : pc'[e] = pc[e]
  BY <1>1, Zenon DEF Inv, Places, LockRow, NoRow, Goto
<1>5. JobTable' /\ \A e \in Drains : JobOK(e)'
  <2>1. \A e \in Drains \ {d} : pc'[e] = pc[e] /\ loop'[e] = loop[e] /\ job'[e] = job[e]
    BY <1>2, <1>4, Zenon
  <2>2. jobs[J] = "queued" /\ jobs' = [jobs EXCEPT ![J] = "running"] /\ job'[d] = J
    BY <1>1, <1>2, Zenon
  <2> QED BY <2>1, <2>2, BeginJobs, Zenon
<1>6. CASE /\ Ready(m) \/ ~queued[m]
           /\ LockRow(d, m, J)
           /\ served' = [served EXCEPT ![d] = {m}]
  <2>1. served' \in [Drains -> SUBSET Matters]
    BY <1>0, <1>6, Zenon DEF Inv, Places
  <2> QED BY <1>0, <1>1, <1>2, <1>3, <1>5, <1>6, <2>1, LockInv, Zenon
<1>7. CASE NoRow(d) /\ served' = [served EXCEPT ![d] = {}]
  <2>1. served' \in [Drains -> SUBSET Matters]
    BY <1>7, Zenon DEF Inv, Places
  <2>2. /\ Places' /\ \A e \in Drains \ {d} : Same(e)
        /\ pc'[d] = "loop" /\ cur'[d] = {} /\ read'[d] = 0 /\ dirty'[d] = "none" /\ ~lost'[d]
        /\ UNCHANGED rowVars
    BY <1>1, <1>2, <1>7, <2>1, NoRowPlaces, Zenon
  <2> QED BY <1>1, <1>3, <1>5, <2>2, IdleInv, Zenon
<1> QED BY <1>1, <1>6, <1>7, Zenon

LEMMA TaskNextInv == ASSUME Inv, NEW d \in Drains, TaskNext(d) PROVE Inv'
<1> DEFINE m == Min(rest[d])
<1>0. m \in Matters /\ rest[d] \in SUBSET Matters
  <2>1. rest[d] \in SUBSET Matters /\ rest[d] # {}
    BY Zenon DEF Inv, Places, TaskNext
  <2> QED BY <2>1, MinIn, Zenon
<1>1. /\ pc[d] = "loop" /\ rest' = [rest EXCEPT ![d] = @ \ {m}]
      /\ UNCHANGED <<data, flows, torn, dead, jobs, loop, job, changes>>
      /\ \/ /\ Ready(m) /\ LockRow(d, m, {})
            /\ served' = [served EXCEPT ![d] = @ \union {m}] /\ UNCHANGED faults
         \/ NoRow(d) /\ UNCHANGED served /\ (Fault("db") \/ UNCHANGED faults)
  BY Zenon DEF TaskNext
<1> HIDE DEF m
<1>2. /\ loop' \in [Drains -> {"task", "sweep"}] /\ rest' \in [Drains -> SUBSET Matters]
      /\ job' \in [Drains -> SUBSET Matters] /\ served' \in [Drains -> SUBSET Matters]
      /\ \A e \in Drains \ {d} : loop'[e] = loop[e] /\ job'[e] = job[e]
  BY <1>0, <1>1 DEF Inv, Places
<1>3. Works' /\ JobTable'
  <2>1. faults' \in Nat
    BY <1>1, FaultType, Zenon
  <2> QED BY <1>1, <2>1, Zenon DEF Inv, Works, JobTable
<1>4. \A e \in Drains : JobOK(e)'
  <2>1. \A J \in Payloads : jobs[J] = "running" => jobs'[J] = "running"
    BY <1>1, Zenon
  <2>2. \A e \in Drains \ {d} : pc'[e] = pc[e]
    BY <1>1, Zenon DEF Inv, Places, LockRow, NoRow, Goto
  <2>3. \A e \in Drains : Serves(e)' => Serves(e) /\ job'[e] = job[e]
    BY <1>1, <2>2, Zenon DEF Serves
  <2> QED BY <2>1, <2>3, JobsKept, Zenon
<1>5. CASE Ready(m) /\ LockRow(d, m, {})
  BY <1>0, <1>1, <1>2, <1>3, <1>4, <1>5, LockInv, Zenon
<1>6. CASE NoRow(d)
  <2>1. /\ Places' /\ \A e \in Drains \ {d} : Same(e)
        /\ pc'[d] = "loop" /\ cur'[d] = {} /\ read'[d] = 0 /\ dirty'[d] = "none" /\ ~lost'[d]
        /\ UNCHANGED rowVars
    BY <1>1, <1>2, <1>6, NoRowPlaces, Zenon
  <2> QED BY <1>1, <1>3, <1>4, <2>1, IdleInv, Zenon
<1> QED BY <1>1, <1>5, <1>6, Zenon

LEMMA SweepInv == ASSUME Inv, NEW d \in Drains, NEW m \in Matters, Sweep(d, m) PROVE Inv'
<1>1. /\ pc[d] \in {"off", "loop"} /\ Ready(m) /\ LockRow(d, m, {})
      /\ loop' = [loop EXCEPT ![d] = "sweep"]
      /\ UNCHANGED <<data, flows, torn, dead, jobs, rest, job, served, changes, faults>>
  BY Zenon DEF Sweep
<1>2. /\ loop' \in [Drains -> {"task", "sweep"}] /\ rest' \in [Drains -> SUBSET Matters]
      /\ job' \in [Drains -> SUBSET Matters] /\ served' \in [Drains -> SUBSET Matters]
      /\ loop'[d] = "sweep" /\ \A e \in Drains \ {d} : loop'[e] = loop[e] /\ job'[e] = job[e]
  BY <1>1, Zenon DEF Inv, Places
<1>3. Works' /\ JobTable'
  BY <1>1, Zenon DEF Inv, Works, JobTable
<1>4. \A e \in Drains : JobOK(e)'
  <2>1. \A J \in Payloads : jobs[J] = "running" => jobs'[J] = "running"
    BY <1>1, Zenon
  <2>2. \A e \in Drains \ {d} : pc'[e] = pc[e]
    BY <1>1, Zenon DEF Inv, Places, LockRow, Goto
  <2>3. \A e \in Drains : Serves(e)' => Serves(e) /\ job'[e] = job[e]
    BY <1>2, <2>2, Zenon DEF Serves
  <2> QED BY <2>1, <2>3, JobsKept, Zenon
<1> QED BY <1>1, <1>2, <1>3, <1>4, LockInv, Zenon

LEMMA LeavePlaces ==
    ASSUME Inv, NEW d \in Drains, Leave(d)
    PROVE  /\ Places' /\ \A e \in Drains \ {d} : Same(e)
           /\ pc'[d] = "off" /\ cur'[d] = {} /\ read'[d] = 0 /\ dirty'[d] = "none" /\ ~lost'[d]
<1>1. Places'
  BY Zenon DEF Inv, Places, Leave, Goto
<1>2. \A e \in Drains \ {d} : Same(e)
  BY Zenon DEF Inv, Places, Leave, Goto, Same
<1>3. pc'[d] = "off" /\ cur'[d] = {} /\ read'[d] = 0 /\ dirty'[d] = "none" /\ ~lost'[d]
  BY Zenon DEF Inv, Places, Leave, Goto
<1> QED BY <1>1, <1>2, <1>3, Zenon

\* TaskEnd, SweepEnd and Crash.
LEMMA LeaveInv ==
    ASSUME Inv, NEW d \in Drains, Leave(d), UNCHANGED <<data, flows, torn, rowVars, dead>>,
           Works', JobTable', \A J \in Payloads : jobs'[J] = jobs[J] \/ (Serves(d) /\ J = job[d])
    PROVE  Inv'
<1>1. /\ Places' /\ \A e \in Drains \ {d} : Same(e)
      /\ pc'[d] = "off" /\ cur'[d] = {} /\ read'[d] = 0 /\ dirty'[d] = "none" /\ ~lost'[d]
  BY LeavePlaces, Zenon
<1>2. \A e \in Drains : JobOK(e)'
  BY <1>1, EndJobs, Zenon
<1> QED BY <1>1, <1>2, IdleInv, Zenon

LEMMA TaskEndInv == ASSUME Inv, NEW d \in Drains, TaskEnd(d) PROVE Inv'
<1>1. Serves(d) /\ Leave(d) /\ UNCHANGED <<data, flows, torn, rowVars, dead, changes, faults>>
  BY Zenon DEF TaskEnd, Serves
<1>2. Works'
  BY <1>1, Zenon DEF Inv, Works
<1>3. JobTable'
  BY Zenon DEF Inv, JobTable, TaskEnd
<1>4. \A J \in Payloads : jobs'[J] = jobs[J] \/ (Serves(d) /\ J = job[d])
  BY <1>1, Zenon DEF Inv, JobTable, TaskEnd
<1> QED BY <1>1, <1>2, <1>3, <1>4, LeaveInv, Zenon

LEMMA SweepEndInv == ASSUME Inv, NEW d \in Drains, SweepEnd(d) PROVE Inv'
<1>1. Leave(d) /\ UNCHANGED <<data, flows, torn, rowVars, dead, jobs, changes, faults>>
  BY Zenon DEF SweepEnd
<1>2. Works' /\ JobTable'
  BY <1>1, Zenon DEF Inv, Works, JobTable
<1> QED BY <1>1, <1>2, LeaveInv, Zenon

LEMMA CrashInv == ASSUME Inv, NEW d \in Drains, Crash(d) PROVE Inv'
<1>1. Leave(d) /\ Fault("crash") /\ pc[d] # "off" /\ UNCHANGED <<data, flows, torn, rowVars, dead, changes>>
  BY Zenon DEF Crash
<1>2. Works'
  BY <1>1, FaultType, Zenon DEF Inv, Works
<1>3. JobTable'
  BY Zenon DEF Inv, JobTable, Crash
<1>4. \A J \in Payloads : jobs'[J] = jobs[J] \/ (Serves(d) /\ J = job[d])
  BY <1>1, Zenon DEF Crash, Serves
<1> QED BY <1>1, <1>2, <1>3, <1>4, LeaveInv, Zenon

LEMMA InHand ==
    ASSUME Inv, NEW d \in Drains, NEW m \in cur[d]
    PROVE  m \in Matters /\ cur[d] = {m} /\ pc[d] \in Working
<1>1. DrainOK(d)
  BY Zenon DEF Inv
<1>2. pc[d] \in Working
  BY <1>1, Zenon DEF DrainOK
<1>3. PICK k \in Matters : cur[d] = {k}
  BY <1>1, <1>2, Zenon DEF DrainOK
<1> QED BY <1>2, <1>3, Zenon

LEMMA ReturnPlaces ==
    ASSUME Inv, NEW d \in Drains, Return(d), pc[d] # "off"
    PROVE  /\ Places' /\ \A e \in Drains \ {d} : Same(e)
           /\ pc'[d] = "loop" /\ cur'[d] = {} /\ read'[d] = 0 /\ dirty'[d] = "none" /\ ~lost'[d]
           /\ \A e \in Drains : Serves(e)' => Serves(e) /\ job'[e] = job[e]
<1>1. Places'
  BY Zenon DEF Inv, Places, Return, Goto
<1>2. \A e \in Drains \ {d} : Same(e)
  BY Zenon DEF Inv, Places, Return, Goto, Same
<1>3. pc'[d] = "loop" /\ cur'[d] = {} /\ read'[d] = 0 /\ dirty'[d] = "none" /\ ~lost'[d]
  BY Zenon DEF Inv, Places, Return, Goto
<1>4. \A e \in Drains : Serves(e)' => Serves(e) /\ job'[e] = job[e]
  BY <1>2, Zenon DEF Same, Serves, Return
<1> QED BY <1>1, <1>2, <1>3, <1>4, Zenon

LEMMA GiveUpInv == ASSUME Inv, NEW d \in Drains, GiveUp(d) PROVE Inv'
<1>1. Return(d) /\ pc[d] # "off" /\ UNCHANGED <<data, flows, torn, rowVars, dead, jobs, changes, faults>>
  BY Zenon DEF GiveUp
<1>2. /\ Places' /\ \A e \in Drains \ {d} : Same(e)
      /\ pc'[d] = "loop" /\ cur'[d] = {} /\ read'[d] = 0 /\ dirty'[d] = "none" /\ ~lost'[d]
      /\ \A e \in Drains : Serves(e)' => Serves(e) /\ job'[e] = job[e]
  BY <1>1, ReturnPlaces, Zenon
<1>3. Works' /\ JobTable' /\ \A J \in Payloads : jobs[J] = "running" => jobs'[J] = "running"
  BY <1>1, Zenon DEF Inv, Works, JobTable
<1>4. \A e \in Drains : JobOK(e)'
  BY <1>2, <1>3, JobsKept, Zenon
<1> QED BY <1>1, <1>2, <1>3, <1>4, IdleInv, Zenon

\* The row of d is deleted, or unlocked and put off.
LEMMA RemoveRows ==
    ASSUME Inv, NEW d \in Drains, NEW m \in Matters, token[m] = d, RemoveRow(m)
    PROVE  /\ Rows' /\ \A k \in Matters : RowOK(k)'
           /\ \A e \in Drains \ {d} : Spared(e)
           /\ token'[m] = NoToken
<1>1. Rows'
  BY ConstantsAssumption DEF Inv, Rows, RemoveRow, NoLock, StaleAge
<1>2. \A k \in Matters : RowOK(k)'
  BY Zenon DEF Inv, Rows, RemoveRow, RowOK
<1>3. token'[m] = NoToken /\ \A k \in Matters \ {m} : token'[k] = token[k] /\ lockAge'[k] = lockAge[k]
  BY Zenon DEF Inv, Rows, RemoveRow
<1>4. \A e \in Drains \ {d} : Timely => m \notin cur[e]
  BY Zenon DEF Inv, LeaseOK
<1>5. \A e \in Drains \ {d} : Spared(e)
  BY <1>3, <1>4, ConstantsAssumption, Zenon DEF Spared
<1> QED BY <1>1, <1>2, <1>3, <1>5, Zenon

LEMMA UnlockRows ==
    ASSUME Inv, NEW d \in Drains, NEW m \in Matters, token[m] = d,
           delay'   = [delay EXCEPT ![m] = BackoffOf(attempts[m])],
           lockAge' = [lockAge EXCEPT ![m] = NoLock], token' = [token EXCEPT ![m] = NoToken],
           UNCHANGED <<queued, attempts>>
    PROVE  /\ Rows' /\ \A k \in Matters : RowOK(k)'
           /\ \A e \in Drains \ {d} : Spared(e)
           /\ token'[m] = NoToken
<1>0. attempts[m] \in Nat
  BY ConstantsAssumption DEF Inv, Rows
<1>1. BackoffOf(attempts[m]) \in Nat
  BY <1>0, BackoffType, Zenon
<1>2. delay' \in [Matters -> Nat]
  BY <1>1, Zenon DEF Inv, Rows
<1>3. Rows'
  BY <1>2, ConstantsAssumption DEF Inv, Rows, NoLock, StaleAge
<1>4. token'[m] = NoToken /\ \A k \in Matters \ {m} : token'[k] = token[k] /\ lockAge'[k] = lockAge[k]
  BY Zenon DEF Inv, Rows
<1>5. \A k \in Matters : RowOK(k)'
  BY <1>4, Zenon DEF Inv, RowOK
<1>6. \A e \in Drains \ {d} : Timely => m \notin cur[e]
  BY Zenon DEF Inv, LeaseOK
<1>7. \A e \in Drains \ {d} : Spared(e)
  BY <1>4, <1>6, ConstantsAssumption, Zenon DEF Spared
<1> QED BY <1>3, <1>4, <1>5, <1>7, Zenon

LEMMA SameRows ==
    ASSUME Inv, UNCHANGED rowVars
    PROVE  Rows' /\ (\A k \in Matters : RowOK(k)') /\ \A e \in Drains : Spared(e)
<1>1. Rows'
  BY Zenon DEF Inv, Rows, rowVars
<1>2. \A k \in Matters : RowOK(k)'
  BY Zenon DEF Inv, RowOK, rowVars
<1>3. \A e \in Drains : Spared(e)
  BY Zenon DEF Spared, rowVars
<1> QED BY <1>1, <1>2, <1>3, Zenon

\* A commit of the session of d keeps the versions in order: it comes with the
\* unlocking of the row, or with a dead letter of a drain that stalled.
LEMMA CommitFlows ==
    ASSUME Inv, NEW d \in Drains, NEW m \in cur[d], CommitWork(d, m), data' = data,
           dead' \in [Matters -> Nat], \A k \in Matters : dead[k] <= dead'[k],
           \A e \in Drains \ {d} : Same(e) /\ Spared(e), cur'[d] = {},
           dirty[d] = "full" => token'[m] = NoToken \/ (dead'[m] > 0 /\ ~Timely)
    PROVE  /\ \A k \in Matters : FlowOK(k)'
           /\ flows' \in [Matters -> Nat] /\ torn' \in [Matters -> BOOLEAN]
<1>0. m \in Matters
  BY InHand, Zenon
<1>1. /\ \A k \in Matters : flows[k] \in Nat /\ data[k] \in Nat /\ dead[k] \in Nat /\ dead'[k] \in Nat
      /\ \A e \in Drains : read[e] \in Nat
  BY Zenon DEF Inv, Works, Places
<1>2. flows' \in [Matters -> Nat] /\ torn' \in [Matters -> BOOLEAN]
  BY <1>0, <1>1, Zenon DEF Inv, Works, CommitWork
<1>3. /\ \A k \in Matters \ {m} : flows'[k] = flows[k]
      /\ flows'[m] = IF dirty[d] = "full" THEN read[d] ELSE flows[m]
  BY <1>0, Zenon DEF Inv, Works, CommitWork
<1>4. ASSUME NEW k \in Matters PROVE FlowOK(k)'
  <2>1. FlowOK(k) /\ FlowOK(m)
    BY <1>0, Zenon DEF Inv
  <2>2. flows'[k] <= data'[k]
    BY <1>0, <1>1, <1>3, <2>1, Zenon DEF FlowOK
  <2>3. ASSUME NEW e \in Drains, k \in cur'[e]
        PROVE  /\ read'[e] <= data'[k]
               /\ pc'[e] = "synced" /\ token'[k] = e
                  => flows'[k] <= read'[e] \/ (dead'[k] > 0 /\ ~Timely)
    <3>1. e # d
      BY <2>3, Zenon
    <3>2. Same(e) /\ Spared(e)
      BY <3>1, Zenon
    <3>4. k \in cur[e] /\ read'[e] = read[e] /\ pc'[e] = pc[e] /\ (token'[k] = e => token[k] = e)
      BY <2>3, <3>2, Zenon DEF Same, Spared
    <3>5. read'[e] <= data'[k]
      BY <2>1, <3>4, Zenon DEF FlowOK
    <3>6. ASSUME pc'[e] = "synced", token'[k] = e
          PROVE  flows'[k] <= read'[e] \/ (dead'[k] > 0 /\ ~Timely)
      <4>1. flows[k] <= read[e] \/ (dead[k] > 0 /\ ~Timely)
        BY <2>1, <3>4, <3>6, Zenon DEF FlowOK
      <4>2. token'[k] # NoToken
        BY <3>6, ConstantsAssumption, Zenon
      <4>3. CASE k = m /\ dirty[d] = "full"
        BY <4>2, <4>3, Zenon
      <4>4. CASE flows'[k] = flows[k]
        BY <1>1, <3>4, <4>1, <4>4
      <4> QED BY <1>3, <4>3, <4>4, Zenon
    <3> QED BY <3>5, <3>6, Zenon
  <2> QED BY <2>2, <2>3, Zenon DEF FlowOK
<1> QED BY <1>2, <1>4, Zenon

LEMMA ReturnedInv ==
    ASSUME Inv, NEW d \in Drains, pc[d] # "off", Return(d), Rows', Works', jobs' = jobs,
           \A k \in Matters : RowOK(k)', \A e \in Drains \ {d} : Spared(e),
           \A k \in Matters : FlowOK(k)'
    PROVE  Inv'
<1>1. /\ Places' /\ \A e \in Drains \ {d} : Same(e)
      /\ pc'[d] = "loop" /\ cur'[d] = {} /\ read'[d] = 0 /\ dirty'[d] = "none" /\ ~lost'[d]
      /\ \A e \in Drains : Serves(e)' => Serves(e) /\ job'[e] = job[e]
  BY ReturnPlaces, Zenon
<1>2. JobTable' /\ \A J \in Payloads : jobs[J] = "running" => jobs'[J] = "running"
  BY Zenon DEF Inv, JobTable
<1>3. \A e \in Drains : JobOK(e)'
  BY <1>1, <1>2, JobsKept, Zenon
<1>4. DrainOK(d)'
  BY <1>1, Zenon DEF DrainOK, Working
<1>5. LeaseOK(d)'
  BY <1>1, Zenon DEF LeaseOK
<1> QED BY <1>1, <1>2, <1>3, <1>4, <1>5, Assemble, Zenon

\* d goes on with its row in hand.
LEMMA MoveInv ==
    ASSUME Inv, NEW d \in Drains, NEW m \in cur[d], NEW l \in Working, pc' = [pc EXCEPT ![d] = l],
           UNCHANGED <<data, flows, dead, rowVars, jobs, loop, rest, cur, job, served, lost>>, Works',
           read' \in [Drains -> Nat], dirty' \in [Drains -> {"none", "part", "full"}],
           \A e \in Drains \ {d} : read'[e] = read[e] /\ dirty'[e] = dirty[e],
           \/ read'[d] = read[d] /\ l # "synced"
           \/ read'[d] = data[m],
           l = "locked" => dirty'[d] = "none", l = "synced" => dirty'[d] = "full",
           l = "fail" /\ dirty'[d] = "full" => lost[d]
    PROVE  Inv'
<1>0. m \in Matters /\ cur[d] = {m} /\ pc[d] \in Working
  BY InHand, Zenon
<1>1. pc'[d] = l /\ \A e \in Drains \ {d} : pc'[e] = pc[e]
  BY Zenon DEF Inv, Places
<1>2. Places'
  BY Zenon DEF Inv, Places, Working
<1>3. \A e \in Drains \ {d} : Same(e)
  BY <1>1, Zenon DEF Same
<1>4. Rows' /\ (\A k \in Matters : RowOK(k)') /\ \A e \in Drains : Spared(e)
  BY SameRows, Zenon
<1>5. DrainOK(d)'
  <2>1. lost[d] => \A k \in cur[d] : token[k] # d
    BY Zenon DEF Inv, DrainOK
  <2>2. lost'[d] => \A k \in cur'[d] : token'[k] # d
    BY <2>1, Zenon DEF rowVars
  <2>3. \E k \in Matters : cur'[d] = {k}
    BY <1>0, Zenon
  <2>4. lost'[d] <=> lost[d]
    OBVIOUS
  <2> QED BY <1>1, <2>2, <2>3, <2>4, Zenon DEF DrainOK
<1>6. LeaseOK(d)'
  BY Zenon DEF Inv, LeaseOK, rowVars
<1>7. JobTable' /\ \A e \in Drains : JobOK(e)'
  <2>1. pc[d] # "off"
    BY <1>0, Zenon DEF Working
  <2>2. \A e \in Drains : Serves(e)' => Serves(e) /\ job'[e] = job[e]
    BY <1>1, <2>1, Zenon DEF Serves
  <2>3. JobTable' /\ \A J \in Payloads : jobs[J] = "running" => jobs'[J] = "running"
    BY Zenon DEF Inv, JobTable
  <2> QED BY <2>2, <2>3, JobsKept, Zenon
<1>8. \A k \in Matters : FlowOK(k)'
  <2>1. \A k \in Matters : data[k] <= data'[k] /\ dead[k] <= dead'[k]
    BY DEF Inv, Works
  <2>2. \A k \in Matters, e \in Drains : k \in cur'[e] =>
               \/ /\ k \in cur[e] /\ read'[e] = read[e]
                  /\ pc'[e] = "synced" /\ token'[k] = e => pc[e] = "synced" /\ token[k] = e
               \/ read'[e] = data[k]
    BY <1>0, <1>1 DEF rowVars
  <2> QED BY <1>2, <2>1, <2>2, FlowKept, Zenon
<1> QED BY <1>2, <1>3, <1>4, <1>5, <1>6, <1>7, <1>8, Assemble, Zenon

LEMMA SyncInv == ASSUME Inv, NEW d \in Drains, NEW m \in Matters, Sync(d, m) PROVE Inv'
<1>1. /\ m \in cur[d] /\ pc[d] = "locked" /\ read' = [read EXCEPT ![d] = data[m]]
      /\ UNCHANGED <<data, flows, torn, rowVars, dead, jobs, loop, rest, cur, job, served, lost, changes>>
      /\ Fault("db") \/ UNCHANGED faults
      /\ \/ pc' = [pc EXCEPT ![d] = "synced"] /\ dirty' = [dirty EXCEPT ![d] = "full"]
         \/ /\ pc' = [pc EXCEPT ![d] = "fail"]
            /\ \E w \in {"none", "part"} : dirty' = [dirty EXCEPT ![d] = w]
         \/ pc' = [pc EXCEPT ![d] = "broken"] /\ UNCHANGED dirty
  BY Zenon DEF Sync, Goto
<1>2. Works'
  BY <1>1, FaultType, Zenon DEF Inv, Works
<1>3. /\ read' \in [Drains -> Nat] /\ read'[d] = data[m]
      /\ \A e \in Drains \ {d} : read'[e] = read[e]
  BY <1>1, Zenon DEF Inv, Places, Works
<1>4. CASE pc' = [pc EXCEPT ![d] = "synced"] /\ dirty' = [dirty EXCEPT ![d] = "full"]
  <2>1. /\ dirty' \in [Drains -> {"none", "part", "full"}] /\ dirty'[d] = "full"
        /\ \A e \in Drains \ {d} : dirty'[e] = dirty[e]
    BY <1>4, Zenon DEF Inv, Places
  <2>2. "synced" \in Working
    BY Zenon DEF Working
  <2> QED BY <1>1, <1>2, <1>3, <1>4, <2>1, <2>2, MoveInv, Zenon
<1>5. ASSUME pc' = [pc EXCEPT ![d] = "fail"], NEW w \in {"none", "part"}, dirty' = [dirty EXCEPT ![d] = w]
      PROVE  Inv'
  <2>1. /\ dirty' \in [Drains -> {"none", "part", "full"}] /\ dirty'[d] # "full"
        /\ \A e \in Drains \ {d} : dirty'[e] = dirty[e]
    BY <1>5, Zenon DEF Inv, Places
  <2>2. "fail" \in Working
    BY Zenon DEF Working
  <2> QED BY <1>1, <1>2, <1>3, <1>5, <2>1, <2>2, MoveInv, Zenon
<1>6. CASE pc' = [pc EXCEPT ![d] = "broken"] /\ UNCHANGED dirty
  <2>1. dirty' \in [Drains -> {"none", "part", "full"}]
    BY <1>6, Zenon DEF Inv, Places
  <2>2. "broken" \in Working
    BY Zenon DEF Working
  <2> QED BY <1>1, <1>2, <1>3, <1>6, <2>1, <2>2, MoveInv, Zenon
<1> QED BY <1>1, <1>4, <1>5, <1>6, Zenon

LEMMA BeatInv == ASSUME Inv, NEW d \in Drains, NEW m \in Matters, Beat(d, m) PROVE Inv'
<1>1. /\ m \in cur[d] /\ pc[d] \in {"locked", "synced"}
      /\ UNCHANGED <<data, flows, torn, queued, attempts, delay, token, dead, jobs>>
      /\ UNCHANGED <<pc, loop, rest, cur, job, served, read, dirty, changes, faults>>
      /\ \/ token[m] = d /\ lockAge' = [lockAge EXCEPT ![m] = 0] /\ UNCHANGED lost
         \/ token[m] # d /\ lost' = [lost EXCEPT ![d] = TRUE] /\ UNCHANGED lockAge
  BY Zenon DEF Beat
<1>2. cur[d] = {m}
  BY <1>1, InHand, Zenon
<1>3. Rows'
  <2>1. CASE token[m] = d /\ lockAge' = [lockAge EXCEPT ![m] = 0]
    BY <1>1, <2>1, ConstantsAssumption DEF Inv, Rows, NoLock, StaleAge
  <2>2. CASE UNCHANGED lockAge
    BY <1>1, <2>2, Zenon DEF Inv, Rows
  <2> QED BY <1>1, <2>1, <2>2, Zenon
<1>4. Works' /\ JobTable'
  BY <1>1, Zenon DEF Inv, Works, JobTable
<1>5. Places'
  BY <1>1, Zenon DEF Inv, Places
<1>6. \A k \in Matters : RowOK(k)'
  BY <1>1, Zenon DEF Inv, RowOK
<1>7. \A e \in Drains \ {d} : Same(e)
  BY <1>1, Zenon DEF Inv, Places, Same
<1>8. \A e \in Drains \ {d} : Spared(e)
  <2>1. \A k \in Matters : lockAge'[k] = lockAge[k] \/ (k = m /\ token[m] = d)
    BY <1>1, Zenon DEF Inv, Rows
  <2>2. \A e \in Drains, k \in Matters : Timely /\ k \in cur[e] => token[k] = e
    BY Zenon DEF Inv, LeaseOK
  <2> QED BY <1>1, <2>1, <2>2, Zenon DEF Spared
<1>9. DrainOK(d)'
  <2>1. DrainOK(d) /\ lost[d] \in BOOLEAN /\ lost'[d] \in BOOLEAN
    BY <1>5, Zenon DEF Inv, Places
  <2>2. (lost'[d] <=> lost[d]) \/ token[m] # d
    BY <1>1, Zenon
  <2>3. lost'[d] => \A k \in cur'[d] : token'[k] # d
    BY <1>1, <1>2, <2>1, <2>2, Zenon DEF DrainOK
  <2> QED BY <1>1, <2>1, <2>3, Zenon DEF DrainOK, Working
<1>10. LeaseOK(d)'
  <2>1. lockAge'[m] = 0 \/ lockAge'[m] = lockAge[m]
    BY <1>1, Zenon DEF Inv, Rows
  <2>2. Timely => token[m] = d /\ lockAge[m] <= LockTimeout
    BY <1>1, Zenon DEF Inv, LeaseOK
  <2> QED BY <1>1, <1>2, <2>1, <2>2, ConstantsAssumption DEF LeaseOK
<1>11. \A e \in Drains : JobOK(e)'
  BY <1>1, Zenon DEF Inv, JobOK, Serves
<1>12. \A k \in Matters : FlowOK(k)'
  BY <1>1, Zenon DEF Inv, FlowOK
<1> QED BY <1>3, <1>4, <1>5, <1>6, <1>7, <1>8, <1>9, <1>10, <1>11, <1>12, Assemble, Zenon

LEMMA FinalizeInv == ASSUME Inv, NEW d \in Drains, NEW m \in Matters, Finalize(d, m) PROVE Inv'
<1>1. m \in cur[d] /\ pc[d] = "synced" /\ UNCHANGED <<data, dead, jobs, changes>>
  BY Zenon DEF Finalize
<1>2. CASE ~lost[d] /\ token[m] = d /\ RemoveRow(m) /\ CommitWork(d, m) /\ Return(d) /\ UNCHANGED faults
  <2>1. /\ Rows' /\ \A k \in Matters : RowOK(k)'
        /\ \A e \in Drains \ {d} : Spared(e)
        /\ token'[m] = NoToken
    BY <1>2, RemoveRows, Zenon
  <2>2. (\A e \in Drains \ {d} : Same(e)) /\ cur'[d] = {}
    BY <1>1, <1>2, ReturnPlaces, Zenon
  <2>3. dead' \in [Matters -> Nat] /\ \A k \in Matters : dead[k] <= dead'[k]
    BY <1>1 DEF Inv, Works
  <2>4. /\ \A k \in Matters : FlowOK(k)'
        /\ flows' \in [Matters -> Nat] /\ torn' \in [Matters -> BOOLEAN]
    BY <1>1, <1>2, <2>1, <2>2, <2>3, CommitFlows, Zenon
  <2>5. Works'
    BY <1>1, <1>2, <2>4, Zenon DEF Inv, Works
  <2> QED BY <1>1, <1>2, <2>1, <2>4, <2>5, ReturnedInv, Zenon
<1>3. ASSUME NEW l \in {"fail", "broken"}, pc' = [pc EXCEPT ![d] = l],
             UNCHANGED <<flows, torn, rowVars, loop, rest, cur, job, served, read, lost>>,
             Fault("db") \/ UNCHANGED faults,
             \/ dirty' = [dirty EXCEPT ![d] = "none"]
             \/ UNCHANGED dirty /\ (lost[d] \/ l = "broken")
      PROVE  Inv'
  <2>1. Works'
    BY <1>1, <1>3, FaultType, Zenon DEF Inv, Works
  <2>2. read' \in [Drains -> Nat] /\ dirty' \in [Drains -> {"none", "part", "full"}]
    BY <1>3, Zenon DEF Inv, Places
  <2>3. /\ \A e \in Drains \ {d} : read'[e] = read[e] /\ dirty'[e] = dirty[e]
        /\ read'[d] = read[d] /\ l # "synced" /\ l # "locked"
        /\ l = "fail" /\ dirty'[d] = "full" => lost[d]
    BY <1>3, Zenon DEF Inv, Places
  <2>4. l \in Working
    BY Zenon DEF Working
  <2> QED BY <1>1, <1>3, <2>1, <2>2, <2>3, <2>4, MoveInv, Zenon
<1>4. CASE /\ lost[d] /\ Goto(d, "fail")
           /\ UNCHANGED <<flows, torn, rowVars, loop, rest, cur, job, served, read, dirty, lost, faults>>
  BY <1>3, <1>4, Zenon DEF Goto
<1>5. CASE /\ Goto(d, "fail") /\ dirty' = [dirty EXCEPT ![d] = "none"]
           /\ UNCHANGED <<flows, torn, rowVars, loop, rest, cur, job, served, read, lost, faults>>
  BY <1>3, <1>5, Zenon DEF Goto
<1>6. CASE /\ Fault("db") /\ Goto(d, "broken")
           /\ UNCHANGED <<flows, torn, rowVars, loop, rest, cur, job, served, read, dirty, lost>>
  BY <1>3, <1>6, Zenon DEF Goto
<1> QED BY <1>2, <1>4, <1>5, <1>6, Zenon DEF Finalize

\* A drain that comes to its failure path with a whole rebuild in its session
\* has lost its row: only then can the rebuild be committed with a dead letter.
LEMMA FailingIsLost ==
    ASSUME Inv, NEW d \in Drains, NEW m \in cur[d], pc[d] = "fail", dirty[d] = "full"
    PROVE  token[m] # d /\ ~Timely
<1>1. DrainOK(d) /\ LeaseOK(d)
  BY Zenon DEF Inv
<1>2. token[m] # d
  BY <1>1, Zenon DEF DrainOK
<1> QED BY <1>1, <1>2, Zenon DEF LeaseOK

LEMMA RecordFailureInv == ASSUME Inv, NEW d \in Drains, NEW m \in Matters, RecordFailure(d, m) PROVE Inv'
<1>1. m \in cur[d] /\ pc[d] = "fail" /\ pc[d] # "off" /\ Return(d) /\ UNCHANGED <<data, jobs, changes>>
  BY Zenon DEF RecordFailure
<1>2. (\A e \in Drains \ {d} : Same(e)) /\ cur'[d] = {}
  BY <1>1, ReturnPlaces, Zenon
<1>3. CASE /\ dead' = [dead EXCEPT ![m] = @ + 1]
           /\ IF token[m] = d THEN RemoveRow(m) ELSE UNCHANGED rowVars
           /\ CommitWork(d, m) /\ UNCHANGED faults
  <2>1. /\ Rows' /\ \A k \in Matters : RowOK(k)'
        /\ \A e \in Drains \ {d} : Spared(e)
    BY <1>3, RemoveRows, SameRows, Zenon
  <2>2. /\ dead' \in [Matters -> Nat] /\ (\A k \in Matters : dead[k] <= dead'[k]) /\ dead'[m] > 0
    BY <1>3 DEF Inv, Works
  <2>3. dirty[d] = "full" => dead'[m] > 0 /\ ~Timely
    BY <1>1, <2>2, FailingIsLost, Zenon
  <2>4. /\ \A k \in Matters : FlowOK(k)'
        /\ flows' \in [Matters -> Nat] /\ torn' \in [Matters -> BOOLEAN]
    BY <1>1, <1>2, <1>3, <2>1, <2>2, <2>3, CommitFlows, Zenon
  <2>5. Works'
    BY <1>1, <1>3, <2>2, <2>4, Zenon DEF Inv, Works
  <2> QED BY <1>1, <2>1, <2>4, <2>5, ReturnedInv, Zenon
<1>4. CASE /\ token[m] = d
           /\ delay'   = [delay EXCEPT ![m] = BackoffOf(attempts[m])]
           /\ lockAge' = [lockAge EXCEPT ![m] = NoLock]
           /\ token'   = [token EXCEPT ![m] = NoToken]
           /\ CommitWork(d, m) /\ UNCHANGED <<queued, attempts, dead, faults>>
  <2>1. /\ Rows' /\ \A k \in Matters : RowOK(k)'
        /\ \A e \in Drains \ {d} : Spared(e)
        /\ token'[m] = NoToken
    BY <1>4, UnlockRows, Zenon
  <2>2. dead' \in [Matters -> Nat] /\ (\A k \in Matters : dead[k] <= dead'[k])
    BY <1>4 DEF Inv, Works
  <2>4. /\ \A k \in Matters : FlowOK(k)'
        /\ flows' \in [Matters -> Nat] /\ torn' \in [Matters -> BOOLEAN]
    BY <1>1, <1>2, <1>4, <2>1, <2>2, CommitFlows, Zenon
  <2>5. Works'
    BY <1>1, <1>4, <2>2, <2>4, Zenon DEF Inv, Works
  <2> QED BY <1>1, <2>1, <2>4, <2>5, ReturnedInv, Zenon
<1>5. CASE UNCHANGED <<flows, torn, rowVars, dead>> /\ (Fault("db") \/ UNCHANGED faults)
  <2>1. Rows' /\ (\A k \in Matters : RowOK(k)') /\ \A e \in Drains : Spared(e)
    BY <1>5, SameRows, Zenon
  <2>2. Works'
    BY <1>1, <1>5, FaultType, Zenon DEF Inv, Works
  <2>3. /\ Places' /\ \A e \in Drains \ {d} : Same(e)
        /\ pc'[d] = "loop" /\ cur'[d] = {} /\ read'[d] = 0 /\ dirty'[d] = "none" /\ ~lost'[d]
        /\ \A e \in Drains : Serves(e)' => Serves(e) /\ job'[e] = job[e]
    BY <1>1, ReturnPlaces, Zenon
  <2>4. JobTable' /\ \A J \in Payloads : jobs[J] = "running" => jobs'[J] = "running"
    BY <1>1, Zenon DEF Inv, JobTable
  <2>5. \A e \in Drains : JobOK(e)'
    BY <2>3, <2>4, JobsKept, Zenon
  <2> QED BY <1>1, <1>5, <2>2, <2>3, <2>4, <2>5, IdleInv, Zenon
<1> QED BY <1>3, <1>4, <1>5, Zenon DEF RecordFailure

LEMMA InvNext == ASSUME Inv, [Next]_vars PROVE Inv'
<1>1. CASE UNCHANGED vars
  BY <1>1, StutterInv, Zenon
<1>2. CASE Tick
  BY <1>2, TickInv, Zenon
<1>3. CASE \E m \in Matters : Change(m)
  BY <1>3, ChangeInv, Zenon
<1>4. CASE \E J \in Payloads : Listen(J)
  BY <1>4, ListenInv, Zenon
<1>5. ASSUME NEW d \in Drains, Task(d) PROVE Inv'
  BY <1>5, TaskBeginInv, TaskNextInv, TaskEndInv, Zenon DEF Task
<1>6. ASSUME NEW d \in Drains, One(d) PROVE Inv'
  BY <1>6, SyncInv, FinalizeInv, RecordFailureInv, Zenon DEF One
<1>7. ASSUME NEW d \in Drains, Drain(d) PROVE Inv'
  BY <1>5, <1>6, <1>7, SweepInv, SweepEndInv, GiveUpInv, Zenon DEF Drain
<1>8. ASSUME NEW d \in Drains, Crash(d) \/ \E m \in Matters : Beat(d, m) PROVE Inv'
  BY <1>8, CrashInv, BeatInv, Zenon
<1> QED BY <1>1, <1>2, <1>3, <1>4, <1>7, <1>8, Zenon DEF Next

LEMMA Invariant == Spec => []Inv
  BY InvInit, InvNext, PTL DEF Spec

-----------------------------------------------------------------------------
(* What a step can do, apart from the end of a drain's work on a row.      *)

QuietStep ==
    /\ UNCHANGED <<flows, torn, dead>>
    /\ \A m \in Matters : queued[m] => queued'[m]
    /\ \A m \in Matters : Waits(m) => \/ Waits(m)'
                                      \/ \E d \in Drains : pc[d] = "off" /\ pc'[d] = "loop" /\ m \in job'[d]
    /\ \A m \in Matters : token'[m] = token[m] \/ Ready(m) \/ ~queued[m]
    /\ \A m \in Matters, d \in Drains : m \in cur[d] /\ pc[d] # "broken" => m \in cur'[d] \/ faults' > faults

LEMMA WaitsOn ==
    ASSUME \A m \in Matters : queued[m] => queued'[m], UNCHANGED dead,
           \A J \in Payloads : jobs[J] = "queued" => jobs'[J] = "queued"
    PROVE  \A m \in Matters : Waits(m) => Waits(m)'
  BY Zenon DEF Waits

LEMMA FaultCounts == ASSUME Inv, NEW k, Fault(k) PROVE faults' > faults
  BY DEF Inv, Works, Fault

LEMMA QuietTime == ASSUME Inv, Tick \/ UNCHANGED vars PROVE QuietStep
<1>1. UNCHANGED <<flows, torn, dead, queued, token, jobs, cur>>
  BY Zenon DEF Tick, vars, rowVars, drainVars
<1>2. \A m \in Matters : Waits(m) => Waits(m)'
  BY <1>1, WaitsOn, Zenon
<1> QED BY <1>1, <1>2, Zenon DEF QuietStep

LEMMA QuietChange ==
    ASSUME Inv, (\E m \in Matters : Change(m)) \/ (\E J \in Payloads : Listen(J)) PROVE QuietStep
<1>1. UNCHANGED <<flows, torn, dead, token, cur>> /\ \E J \in Payloads : EnqueueJob(J)
  <2>1. \A m \in Matters : {m} \in Payloads
    BY Zenon DEF Payloads
  <2> QED BY <2>1, Zenon DEF Change, Listen, rowVars, drainVars
<1>2. \A m \in Matters : queued[m] => queued'[m]
  BY Zenon DEF Inv, Rows, Change, Listen, rowVars
<1>3. \A J \in Payloads : jobs[J] = "queued" => jobs'[J] = "queued"
  BY <1>1, Zenon DEF Inv, JobTable, EnqueueJob
<1>4. \A m \in Matters : Waits(m) => Waits(m)'
  BY <1>1, <1>2, <1>3, WaitsOn, Zenon
<1> QED BY <1>1, <1>2, <1>4, Zenon DEF QuietStep

\* No row is lost, and none changes hands that is not ready to be locked.
NothingLost ==
    /\ \A k \in Matters : queued[k] => queued'[k]
    /\ \A k \in Matters : token'[k] = token[k] \/ Ready(k) \/ ~queued[k]
    /\ \A k \in Matters, e \in Drains : k \in cur[e] => k \in cur'[e]

LEMMA QuietLock ==
    ASSUME Inv, NEW d \in Drains, NEW m \in Matters, NEW New, pc[d] \in {"off", "loop"},
           Ready(m) \/ ~queued[m], LockRow(d, m, New)
    PROVE  NothingLost
<1>1. \A k \in Matters : queued[k] => queued'[k]
  BY Zenon DEF Inv, Rows, LockRow
<1>2. \A k \in Matters : token'[k] = token[k] \/ Ready(k) \/ ~queued[k]
  <2>1. \A k \in Matters \ {m} : token'[k] = token[k]
    BY Zenon DEF Inv, Rows, LockRow
  <2> QED BY <2>1, Zenon
<1>3. cur[d] = {}
  <2>1. pc[d] \notin Working
    BY Zenon DEF Working
  <2> QED BY <2>1, Zenon DEF Inv, DrainOK
<1>4. \A k \in Matters, e \in Drains : k \in cur[e] => k \in cur'[e]
  BY <1>3, Zenon DEF Inv, Places, LockRow
<1> QED BY <1>1, <1>2, <1>4, Zenon DEF NothingLost

LEMMA QuietTask == ASSUME Inv, NEW d \in Drains, Task(d) PROVE QuietStep
<1>1. CASE \E J \in Payloads : TaskBegin(d, J)
  <2>1. PICK J \in Payloads : TaskBegin(d, J)
    BY <1>1, Zenon
  <2> DEFINE m == Min(J)
  <2>2. m \in J /\ m \in Matters /\ J \in SUBSET Matters
    BY PayloadMin, Zenon
  <2>3. /\ pc[d] = "off" /\ UNCHANGED <<flows, torn, dead>>
        /\ jobs' = [jobs EXCEPT ![J] = "running"] /\ job' = [job EXCEPT ![d] = J]
        /\ \/ (Ready(m) \/ ~queued[m]) /\ LockRow(d, m, J)
           \/ NoRow(d)
    BY <2>1, Zenon DEF TaskBegin
  <2> HIDE DEF m
  <2>4. job'[d] = J /\ \A K \in Payloads \ {J} : jobs'[K] = jobs[K]
    BY <2>3, Zenon DEF Inv, Places, JobTable
  <2>5. CASE (Ready(m) \/ ~queued[m]) /\ LockRow(d, m, J)
    <3>1. NothingLost
      BY <2>2, <2>3, <2>5, QuietLock
    <3>2. \A k \in J : queued'[k]
      BY <2>2, <2>5, Zenon DEF LockRow
    <3>3. \A k \in Matters : Waits(k) => Waits(k)'
      BY <2>3, <2>4, <3>1, <3>2, Zenon DEF Waits, NothingLost
    <3> QED BY <2>3, <3>1, <3>3, Zenon DEF QuietStep, NothingLost
  <2>6. CASE NoRow(d)
    <3>1. UNCHANGED <<queued, token, cur>>
      BY <2>6, Zenon DEF NoRow, rowVars
    <3>2. pc'[d] = "loop"
      BY <2>6, Zenon DEF Inv, Places, NoRow, Goto
    <3>3. \A k \in Matters : Waits(k) => Waits(k)' \/ k \in J
      BY <2>3, <2>4, <3>1, Zenon DEF Waits
    <3> QED BY <2>3, <2>4, <3>1, <3>2, <3>3, Zenon DEF QuietStep
  <2> QED BY <2>3, <2>5, <2>6, Zenon
<1>2. CASE TaskNext(d)
  <2> DEFINE m == Min(rest[d])
  <2>0. m \in Matters
    <3>1. rest[d] \in SUBSET Matters /\ rest[d] # {}
      BY <1>2, Zenon DEF Inv, Places, TaskNext
    <3> QED BY <3>1, MinIn, Zenon
  <2>1. /\ pc[d] = "loop" /\ UNCHANGED <<flows, torn, dead, jobs>>
        /\ (Ready(m) /\ LockRow(d, m, {})) \/ NoRow(d)
    BY <1>2, Zenon DEF TaskNext
  <2> HIDE DEF m
  <2>2. NothingLost
    <3>1. CASE Ready(m) /\ LockRow(d, m, {})
      <4>1. pc[d] \in {"off", "loop"}
        BY <2>1
      <4>2. Ready(m) \/ ~queued[m]
        BY <3>1
      <4>3. PICK New : New = {} /\ LockRow(d, m, New)
        BY <3>1, Zenon
      <4> QED BY <2>0, <4>1, <4>2, <4>3, QuietLock
    <3>2. CASE NoRow(d)
      BY <3>2, Zenon DEF NothingLost, NoRow, rowVars
    <3> QED BY <2>1, <3>1, <3>2, Zenon
  <2>3. \A k \in Matters : Waits(k) => Waits(k)'
    BY <2>1, <2>2, WaitsOn, Zenon DEF NothingLost
  <2> QED BY <2>1, <2>2, <2>3, Zenon DEF QuietStep, NothingLost
<1>3. CASE TaskEnd(d)
  <2>1. /\ UNCHANGED <<flows, torn, dead, queued, token>> /\ Leave(d)
        /\ jobs' = [jobs EXCEPT ![job[d]] = "none"] /\ pc[d] = "loop" /\ Serves(d)
    BY <1>3, Zenon DEF TaskEnd, rowVars, Serves
  <2>2. jobs[job[d]] = "running"
    BY <2>1, Zenon DEF Inv, JobOK
  <2>3. \A K \in Payloads : jobs[K] = "queued" => jobs'[K] = "queued"
    BY <2>1, <2>2, Zenon DEF Inv, JobTable
  <2>4. \A k \in Matters : Waits(k) => Waits(k)'
    BY <2>1, <2>3, WaitsOn, Zenon
  <2>5. cur[d] = {}
    <3>1. pc[d] \notin Working
      BY <2>1, Zenon DEF Working
    <3> QED BY <3>1, Zenon DEF Inv, DrainOK
  <2>6. \A k \in Matters, e \in Drains : k \in cur[e] => k \in cur'[e]
    BY <2>1, <2>5, Zenon DEF Inv, Places, Leave
  <2> QED BY <2>1, <2>4, <2>6, Zenon DEF QuietStep
<1> QED BY <1>1, <1>2, <1>3, Zenon DEF Task

LEMMA QuietDrain ==
    ASSUME Inv, NEW d \in Drains,
           \/ \E m \in Matters : Sweep(d, m) \/ Sync(d, m) \/ Beat(d, m)
           \/ SweepEnd(d) \/ GiveUp(d) \/ Crash(d)
    PROVE  QuietStep
<1>1. ASSUME NEW m \in Matters, Sweep(d, m) PROVE QuietStep
  <2>1. /\ pc[d] \in {"off", "loop"} /\ Ready(m) /\ LockRow(d, m, {})
        /\ UNCHANGED <<flows, torn, dead, jobs>>
    BY <1>1, Zenon DEF Sweep
  <2>2. NothingLost
    BY <2>1, QuietLock
  <2>3. \A k \in Matters : Waits(k) => Waits(k)'
    BY <2>1, <2>2, WaitsOn, Zenon DEF NothingLost
  <2> QED BY <2>1, <2>2, <2>3, Zenon DEF QuietStep, NothingLost
<1>2. ASSUME UNCHANGED <<flows, torn, dead, queued, token>>,
             \A J \in Payloads : jobs[J] = "queued" => jobs'[J] = "queued",
             \A k \in Matters, e \in Drains : k \in cur[e] /\ pc[e] # "broken"
                                               => k \in cur'[e] \/ faults' > faults
      PROVE  QuietStep
  <2>1. \A k \in Matters : Waits(k) => Waits(k)'
    BY <1>2, WaitsOn, Zenon
  <2> QED BY <1>2, <2>1, Zenon DEF QuietStep
<1>3. ASSUME NEW m \in Matters, Sync(d, m) \/ Beat(d, m) PROVE QuietStep
  <2>1. UNCHANGED <<flows, torn, dead, queued, token, jobs, cur>>
    BY <1>3, Zenon DEF Sync, Beat, rowVars
  <2> QED BY <1>2, <2>1, Zenon
<1>4. CASE SweepEnd(d)
  <2>1. UNCHANGED <<flows, torn, dead, queued, token, jobs>> /\ Leave(d) /\ pc[d] \notin Working
    BY <1>4, Zenon DEF SweepEnd, rowVars, Working
  <2>2. cur[d] = {}
    BY <2>1, Zenon DEF Inv, DrainOK
  <2>3. \A k \in Matters, e \in Drains : k \in cur[e] => k \in cur'[e]
    BY <2>1, <2>2, Zenon DEF Inv, Places, Leave
  <2> QED BY <1>2, <2>1, <2>3, Zenon
<1>5. CASE GiveUp(d)
  <2>1. UNCHANGED <<flows, torn, dead, queued, token, jobs>> /\ Return(d) /\ pc[d] = "broken"
    BY <1>5, Zenon DEF GiveUp, rowVars
  <2>2. \A k \in Matters, e \in Drains : k \in cur[e] /\ pc[e] # "broken" => k \in cur'[e]
    BY <2>1, Zenon DEF Inv, Places, Return
  <2> QED BY <1>2, <2>1, <2>2, Zenon
<1>6. CASE Crash(d)
  <2>1. UNCHANGED <<flows, torn, dead, queued, token>> /\ Fault("crash")
    BY <1>6, Zenon DEF Crash, rowVars
  <2>2. faults' > faults
    BY <2>1, FaultCounts, Zenon
  <2>3. \A J \in Payloads : jobs[J] = "queued" => jobs'[J] = "queued"
    BY <1>6, Zenon DEF Crash
  <2> QED BY <1>2, <2>1, <2>2, <2>3, Zenon
<1> QED BY <1>1, <1>3, <1>4, <1>5, <1>6, Zenon

\* The ends of the work on a row, named by what they do.
Completes(d, m) ==
    /\ pc[d] = "synced" /\ ~lost[d] /\ token[m] = d
    /\ RemoveRow(m) /\ CommitWork(d, m) /\ UNCHANGED <<dead, data, jobs, faults>>
Buries(d, m) ==
    /\ pc[d] = "fail" /\ attempts[m] >= MaxAttempts
    /\ dead' = [dead EXCEPT ![m] = @ + 1]
    /\ IF token[m] = d THEN RemoveRow(m) ELSE UNCHANGED rowVars
    /\ CommitWork(d, m) /\ UNCHANGED <<data, jobs, faults>>
PutsOff(d, m) ==
    /\ pc[d] = "fail" /\ attempts[m] < MaxAttempts /\ token[m] = d
    /\ token' = [token EXCEPT ![m] = NoToken]
    /\ CommitWork(d, m) /\ UNCHANGED <<queued, attempts, dead, data, jobs, faults>>
\* Nothing of the rebuild is committed and the row is left as it is.
Stops(d, m) ==
    /\ UNCHANGED <<flows, torn, dead, queued, token, jobs>>
    /\ \/ UNCHANGED cur
       \/ attempts[m] < MaxAttempts /\ token[m] # d
       \/ faults' > faults

LEMMA Ends ==
    ASSUME Inv, NEW d \in Drains, NEW m \in Matters, Finalize(d, m) \/ RecordFailure(d, m)
    PROVE  /\ cur[d] = {m} /\ \A e \in Drains \ {d} : cur'[e] = cur[e]
           /\ Completes(d, m) \/ Buries(d, m) \/ PutsOff(d, m) \/ Stops(d, m)
<1>1. m \in cur[d]
  BY Zenon DEF Finalize, RecordFailure
<1>2. cur[d] = {m}
  BY <1>1, InHand, Zenon
<1>3. \A e \in Drains \ {d} : cur'[e] = cur[e]
  BY Zenon DEF Inv, Places, Finalize, RecordFailure, Return
<1>4. CASE Finalize(d, m)
  <2>1. \/ Completes(d, m)
        \/ UNCHANGED <<flows, torn, rowVars, cur, dead, jobs>>
    BY <1>4, Zenon DEF Finalize, Completes
  <2>2. UNCHANGED <<flows, torn, rowVars, cur, dead, jobs>> => Stops(d, m)
    BY Zenon DEF Stops, rowVars
  <2> QED BY <1>2, <1>3, <2>1, <2>2, Zenon
<1>5. CASE RecordFailure(d, m)
  <2>1. \/ Buries(d, m) \/ PutsOff(d, m)
        \/ UNCHANGED <<flows, torn, rowVars, dead, jobs>> /\ attempts[m] < MaxAttempts /\ token[m] # d
        \/ UNCHANGED <<flows, torn, rowVars, dead, jobs>> /\ Fault("db")
    BY <1>5, Zenon DEF RecordFailure, Buries, PutsOff
  <2>2. Fault("db") => faults' > faults
    BY FaultCounts, Zenon
  <2> QED BY <1>2, <1>3, <2>1, <2>2, Zenon DEF Stops, rowVars
<1> QED BY <1>4, <1>5, Zenon

LEMMA Steps ==
    ASSUME Inv, [Next]_vars
    PROVE  \/ QuietStep
           \/ \E d \in Drains, m \in Matters :
                 /\ cur[d] = {m} /\ \A e \in Drains \ {d} : cur'[e] = cur[e]
                 /\ Completes(d, m) \/ Buries(d, m) \/ PutsOff(d, m) \/ Stops(d, m)
<1> SUFFICES ASSUME ~QuietStep
             PROVE  \E d \in Drains, m \in Matters : Finalize(d, m) \/ RecordFailure(d, m)
  BY Ends, Zenon
<1>1. ~Tick /\ ~UNCHANGED vars
  BY QuietTime, Zenon
<1>2. ~(\E m \in Matters : Change(m)) /\ ~(\E J \in Payloads : Listen(J))
  BY QuietChange, Zenon
<1>3. PICK d \in Drains : Drain(d) \/ Crash(d) \/ \E m \in Matters : Beat(d, m)
  BY <1>1, <1>2, Zenon DEF Next
<1>4. ~Task(d)
  BY QuietTask, Zenon
<1>5. /\ ~\E m \in Matters : Sweep(d, m) \/ Sync(d, m) \/ Beat(d, m)
      /\ ~SweepEnd(d) /\ ~GiveUp(d) /\ ~Crash(d)
  BY QuietDrain, Zenon
<1>6. One(d)
  BY <1>3, <1>4, <1>5, Zenon DEF Drain
<1>7. \E m \in Matters : Finalize(d, m) \/ RecordFailure(d, m)
  BY <1>5, <1>6, Zenon DEF One
<1> QED BY <1>7, Zenon

LEMMA RowGone ==
    ASSUME Inv, NEW m \in Matters, RemoveRow(m)
    PROVE  ~queued'[m] /\ \A k \in Matters \ {m} : (queued'[k] <=> queued[k]) /\ token'[k] = token[k]
  BY Zenon DEF Inv, Rows, RemoveRow

LEMMA Committed ==
    ASSUME Inv, NEW d \in Drains, NEW m \in Matters, CommitWork(d, m)
    PROVE  /\ \A k \in Matters \ {m} : flows'[k] = flows[k] /\ (torn'[k] <=> torn[k])
           /\ flows'[m] = IF dirty[d] = "full" THEN read[d] ELSE flows[m]
           /\ dirty[d] = "full" => ~torn'[m]
  BY Zenon DEF Inv, Works, CommitWork

LEMMA Buried ==
    ASSUME Inv, NEW d \in Drains, NEW m \in Matters, Buries(d, m)
    PROVE  dead'[m] > dead[m] /\ dead'[m] > 0 /\ \A k \in Matters \ {m} : dead'[k] = dead[k]
  BY DEF Inv, Works, Buries

-----------------------------------------------------------------------------
(* Theorems.                                                               *)

\* Rows, jobs, drains and versions keep their types, a row is locked exactly
\* when it carries a token, and no drain counts an attempt beyond the last one.
THEOREM AnnuityTypes == Spec => []TypeOK
<1>1. Inv => TypeOK
  BY Parts, Zenon DEF Inv
<1> QED BY <1>1, Invariant, PTL

\* Workflows that _drain_one left half rebuilt, because its failure path commits
\* without rolling back first, always keep their row or have a dead letter.
THEOREM TornWorkflowsAreKnown == Spec => []TornIsKnown
<1>1. Init => TornIsKnown
  BY Zenon DEF Init, TornIsKnown
<1>2. ASSUME Inv, TornIsKnown, [Next]_vars PROVE TornIsKnown'
  <2> SUFFICES ASSUME NEW k \in Matters, torn'[k] PROVE queued'[k] \/ dead'[k] > 0
    BY Zenon DEF TornIsKnown
  <2>0. torn[k] => queued[k] \/ dead[k] > 0
    BY <1>2, Zenon DEF TornIsKnown
  <2>1. CASE QuietStep
    BY <2>0, <2>1, Zenon DEF QuietStep
  <2>2. ASSUME NEW d \in Drains, NEW m \in Matters, Completes(d, m) PROVE queued'[k] \/ dead'[k] > 0
    <3>1. dirty[d] = "full"
      BY <1>2, <2>2, Zenon DEF Inv, DrainOK, Completes
    <3>2. ~torn'[m] /\ \A j \in Matters \ {m} : torn'[j] <=> torn[j]
      BY <1>2, <2>2, <3>1, Committed, Zenon DEF Completes
    <3>3. k # m /\ torn[k]
      BY <3>2, Zenon
    <3>4. queued'[k] <=> queued[k]
      BY <1>2, <2>2, <3>3, RowGone, Zenon DEF Completes
    <3> QED BY <2>0, <2>2, <3>3, <3>4, Zenon DEF Completes
  <2>3. ASSUME NEW d \in Drains, NEW m \in Matters, Buries(d, m) PROVE queued'[k] \/ dead'[k] > 0
    <3>1. dead'[m] > 0 /\ \A j \in Matters \ {m} : dead'[j] = dead[j]
      BY <1>2, <2>3, Buried, Zenon
    <3>2. CASE k # m
      <4>1. torn[k]
        BY <1>2, <2>3, <3>2, Committed, Zenon DEF Buries
      <4>2. queued'[k] <=> queued[k]
        BY <1>2, <2>3, <3>2, RowGone, Zenon DEF Buries, rowVars
      <4> QED BY <2>0, <3>1, <3>2, <4>1, <4>2, Zenon
    <3> QED BY <3>1, <3>2, Zenon
  <2>4. ASSUME NEW d \in Drains, NEW m \in Matters, PutsOff(d, m) PROVE queued'[k] \/ dead'[k] > 0
    <3>1. queued[m]
      BY <1>2, <2>4, ConstantsAssumption, Zenon DEF PutsOff, Inv, RowOK
    <3>2. k # m => torn[k]
      BY <1>2, <2>4, Committed, Zenon DEF PutsOff
    <3> QED BY <2>0, <2>4, <3>1, <3>2, Zenon DEF PutsOff
  <2>5. ASSUME NEW d \in Drains, NEW m \in Matters, Stops(d, m) PROVE queued'[k] \/ dead'[k] > 0
    BY <2>0, <2>5, Zenon DEF Stops
  <2> QED BY <1>2, <2>1, <2>2, <2>3, <2>4, <2>5, Steps, Zenon
<1> QED BY <1>1, <1>2, Invariant, PTL DEF Spec

\* _move_to_dead_letter is reached with the attempts of an existing row used up,
\* and takes its place, unless the row was taken over from a drain that stalled.
THEOREM DeadLettersReplaceRows == Spec => DeadLetterReplacesRow
<1>1. ASSUME Inv, [Next]_vars, NEW k \in Matters, dead'[k] # dead[k]
      PROVE  /\ queued[k] /\ attempts[k] = MaxAttempts
             /\ \/ ~queued'[k]
                \/ ~Timely /\ \E d \in Drains : cur[d] = {k} /\ pc[d] = "fail" /\ token[k] # d
  <2>1. PICK d \in Drains, m \in Matters : cur[d] = {m} /\ Buries(d, m)
    BY <1>1, Steps, Zenon DEF QuietStep, Completes, PutsOff, Stops
  <2>2. k = m
    BY <1>1, <2>1, Buried, Zenon
  <2>3. attempts[k] = MaxAttempts
    <3>1. attempts[k] >= MaxAttempts
      BY <2>1, <2>2, Zenon DEF Buries
    <3>2. attempts[k] \in 0..MaxAttempts
      BY <1>1, Zenon DEF Inv, Rows
    <3> QED BY <3>1, <3>2, ConstantsAssumption
  <2>4. queued[k]
    BY <1>1, <2>3, ConstantsAssumption, Zenon DEF Inv, RowOK
  <2>5. CASE token[k] = d
    BY <1>1, <2>1, <2>2, <2>3, <2>4, <2>5, RowGone, Zenon DEF Buries
  <2>6. CASE token[k] # d
    <3>1. ~Timely
      BY <1>1, <2>1, <2>2, <2>6, Zenon DEF Inv, LeaseOK
    <3> QED BY <2>1, <2>2, <2>3, <2>4, <2>6, <3>1, Zenon DEF Buries
  <2> QED BY <2>5, <2>6, Zenon
<1>2. Inv /\ [Next]_vars => [\A m \in Matters : dead'[m] # dead[m]
          => /\ queued[m] /\ attempts[m] = MaxAttempts
             /\ \/ ~queued'[m]
                \/ ~Timely /\ \E d \in Drains : cur[d] = {m} /\ pc[d] = "fail" /\ token[m] # d]_vars
  BY <1>1, Zenon
<1> QED BY <1>2, Invariant, PTL DEF Spec, DeadLetterReplacesRow

\* sync_annuity_workflows_for_matter never takes workflows back to older
\* annuities while heartbeats are in time; without them only the commit of a
\* dead letter can.
THEOREM WorkflowsForward == Spec => FlowsForward
<1>1. ASSUME Inv, [Next]_vars, NEW k \in Matters, flows'[k] < flows[k]
      PROVE  ~Timely /\ dead'[k] > 0
  <2>0. flows[k] \in Nat
    BY <1>1, Zenon DEF Inv, Works
  <2>1. flows'[k] # flows[k]
    BY <1>1, <2>0
  <2>2. PICK d \in Drains, m \in Matters :
             cur[d] = {m} /\ (Completes(d, m) \/ Buries(d, m) \/ PutsOff(d, m))
    BY <1>1, <2>1, Steps, Zenon DEF QuietStep, Stops
  <2>3. CommitWork(d, m)
    BY <2>2, Zenon DEF Completes, Buries, PutsOff
  <2>4. k = m /\ dirty[d] = "full" /\ flows'[k] = read[d]
    <3>1. /\ \A j \in Matters \ {m} : flows'[j] = flows[j]
          /\ flows'[m] = IF dirty[d] = "full" THEN read[d] ELSE flows[m]
      BY <1>1, <2>3, Committed, Zenon
    <3>2. k = m
      BY <2>1, <3>1, Zenon
    <3> QED BY <2>1, <3>1, <3>2, Zenon
  <2>5. CASE Completes(d, m)
    <3>1. pc[d] = "synced" /\ token[m] = d /\ dead' = dead
      BY <2>5, Zenon DEF Completes
    <3>2. FlowOK(m) /\ m \in cur[d]
      BY <1>1, <2>2, Zenon DEF Inv
    <3>3. flows[m] <= read[d] \/ (dead[m] > 0 /\ ~Timely)
      BY <3>1, <3>2, Zenon DEF FlowOK
    <3>4. read[d] \in Nat
      BY <1>1, Zenon DEF Inv, Places
    <3>5. ~(flows[m] <= read[d])
      BY <1>1, <2>0, <2>4, <3>4
    <3> QED BY <2>4, <3>1, <3>3, <3>5, Zenon
  <2>6. CASE pc[d] = "fail"
    <3>1. token[m] # d /\ ~Timely
      BY <1>1, <2>2, <2>4, <2>6, FailingIsLost, Zenon
    <3>2. Buries(d, m)
      BY <2>2, <2>6, <3>1, Zenon DEF Completes, PutsOff
    <3> QED BY <1>1, <2>4, <3>1, <3>2, Buried, Zenon
  <2> QED BY <2>2, <2>5, <2>6, Zenon DEF Buries, PutsOff
<1>2. Inv /\ [Next]_vars => [\A m \in Matters : flows'[m] < flows[m] => ~Timely /\ dead'[m] > 0]_vars
  BY <1>1, Zenon
<1> QED BY <1>2, Invariant, PTL DEF Spec, FlowsForward

\* The writes of _drain_one carry the token: a lock that has not timed out is
\* taken off a row by its own drain only, at the end of its work on that row.
THEOREM AnnuityLocksStay == Spec => ForeignLocksStay
<1>1. ASSUME Inv, [Next]_vars, NEW k \in Matters, token[k] # NoToken, token'[k] # token[k],
             lockAge[k] <= LockTimeout
      PROVE  cur[token[k]] = {k} /\ pc[token[k]] \in {"synced", "fail"}
  <2>1. queued[k] /\ lockAge[k] # NoLock /\ lockAge[k] \in NoLock..StaleAge
    BY <1>1, Zenon DEF Inv, RowOK, Rows
  <2>2. ~Ready(k)
    BY <1>1, <2>1, ConstantsAssumption DEF Ready, NoLock, StaleAge
  <2>3. PICK d \in Drains, m \in Matters :
             cur[d] = {m} /\ (Completes(d, m) \/ Buries(d, m) \/ PutsOff(d, m))
    BY <1>1, <2>1, <2>2, Steps, Zenon DEF QuietStep, Stops
  <2>4. CASE RemoveRow(m) /\ token[m] = d
    <3>1. k = m
      BY <1>1, <2>4, RowGone, Zenon
    <3> QED BY <2>3, <2>4, <3>1, Zenon DEF Completes, Buries, PutsOff
  <2>5. CASE PutsOff(d, m)
    <3>1. k = m
      BY <1>1, <2>5, Zenon DEF Inv, Rows, PutsOff
    <3> QED BY <2>3, <2>5, <3>1, Zenon DEF PutsOff
  <2> QED BY <1>1, <2>3, <2>4, <2>5, Zenon DEF Completes, Buries, rowVars
<1>2. Inv /\ [Next]_vars => [\A m \in Matters :
          token[m] # NoToken /\ token'[m] # token[m] /\ lockAge[m] <= LockTimeout
          => cur[token[m]] = {m} /\ pc[token[m]] \in {"synced", "fail"}]_vars
  BY <1>1, Zenon
<1> QED BY <1>2, Invariant, PTL DEF Spec, ForeignLocksStay

\* A drain lets go of a row without attempts left by the dead letter or the
\* deletion of _drain_one, unless the database fails or the process dies.
THEOREM ExhaustedRowsStayHeld == Spec => ExhaustedStaysHeld
<1>1. ASSUME Inv, [Next]_vars, NEW k \in Matters, NEW c \in Drains,
             queued[k], attempts[k] >= MaxAttempts, token[k] = c, k \in cur[c], pc[c] # "broken"
      PROVE  \/ token'[k] = c /\ k \in cur'[c]
             \/ dead'[k] > dead[k] \/ ~queued'[k] \/ faults' > faults
  <2>0. ~(attempts[k] < MaxAttempts)
    BY <1>1, ConstantsAssumption DEF Inv, Rows
  <2>1. CASE QuietStep
    <3>1. ~Ready(k)
      BY <2>0, Zenon DEF Ready
    <3> QED BY <1>1, <2>1, <3>1, Zenon DEF QuietStep
  <2>2. ASSUME NEW d \in Drains, NEW m \in Matters,
               cur[d] = {m}, \A e \in Drains \ {d} : cur'[e] = cur[e],
               Completes(d, m) \/ Buries(d, m) \/ PutsOff(d, m) \/ Stops(d, m)
        PROVE  \/ token'[k] = c /\ k \in cur'[c]
               \/ dead'[k] > dead[k] \/ ~queued'[k] \/ faults' > faults
    <3>1. CASE k # m
      <4>1. c # d /\ k \in cur'[c]
        BY <1>1, <2>2, <3>1, Zenon
      <4>2. RemoveRow(m) \/ PutsOff(d, m) \/ UNCHANGED token
        BY <2>2, Zenon DEF Completes, Buries, Stops, rowVars
      <4>3. RemoveRow(m) => token'[k] = token[k]
        BY <1>1, <3>1, RowGone, Zenon
      <4>4. PutsOff(d, m) => token'[k] = token[k]
        BY <1>1, <3>1, Zenon DEF Inv, Rows, PutsOff
      <4> QED BY <1>1, <4>1, <4>2, <4>3, <4>4, Zenon
    <3>2. CASE k = m /\ Completes(d, m)
      BY <1>1, <3>2, RowGone, Zenon DEF Completes
    <3>3. CASE k = m /\ Buries(d, m)
      BY <1>1, <3>3, Buried, Zenon
    <3>4. CASE k = m /\ PutsOff(d, m)
      BY <2>0, <3>4, Zenon DEF PutsOff
    <3>5. CASE k = m /\ Stops(d, m)
      BY <1>1, <2>0, <3>5, Zenon DEF Stops
    <3> QED BY <2>2, <3>1, <3>2, <3>3, <3>4, <3>5, Zenon
  <2> QED BY <1>1, <2>1, <2>2, Steps, Zenon
<1>2. Inv /\ [Next]_vars => [\A m \in Matters, d \in Drains :
          queued[m] /\ attempts[m] >= MaxAttempts /\ token[m] = d /\ m \in cur[d] /\ pc[d] # "broken"
          => \/ token'[m] = d /\ m \in cur'[d]
             \/ dead'[m] > dead[m] \/ ~queued'[m] \/ faults' > faults]_vars
  BY <1>1, Zenon
<1> QED BY <1>2, Invariant, PTL DEF Spec, ExhaustedStaysHeld

\* A change of the annuities is dropped from row, queued job and dead letter, with
\* the workflows not rebuilt, by _drain_one deleting the row of a change that came
\* after it read, or by the rollback at the start of the job; by nothing else.
THEOREM ChangesStayPending == Spec => ChangeStaysPending
<1>1. ASSUME Inv, [Next]_vars, NEW k \in Matters, Waits(k), flows'[k] < data'[k]
      PROVE  \/ Waits(k)'
             \/ \E d \in Drains : cur[d] = {k} /\ pc[d] = "synced" /\ read[d] < data[k]
             \/ \E d \in Drains : pc[d] = "off" /\ pc'[d] = "loop" /\ k \in job'[d]
  <2>1. CASE QuietStep
    BY <1>1, <2>1, Zenon DEF QuietStep
  <2>2. ASSUME NEW d \in Drains, NEW m \in Matters, cur[d] = {m}, Completes(d, m)
        PROVE  \/ Waits(k)'
               \/ cur[d] = {k} /\ pc[d] = "synced" /\ read[d] < data[k]
    <3>1. CASE k = m
      <4>1. dirty[d] = "full" /\ pc[d] = "synced" /\ data' = data
        BY <1>1, <2>2, Zenon DEF Inv, DrainOK, Completes
      <4>2. flows'[k] = read[d]
        BY <1>1, <2>2, <3>1, <4>1, Committed, Zenon DEF Completes
      <4> QED BY <1>1, <2>2, <3>1, <4>1, <4>2, Zenon
    <3>2. CASE k # m
      <4>1. queued'[k] <=> queued[k]
        BY <1>1, <2>2, <3>2, RowGone, Zenon DEF Completes
      <4> QED BY <1>1, <2>2, <4>1, Zenon DEF Waits, Completes
    <3> QED BY <3>1, <3>2, Zenon
  <2>3. ASSUME NEW d \in Drains, NEW m \in Matters, Buries(d, m) PROVE Waits(k)'
    <3>1. CASE k = m
      BY <1>1, <2>3, <3>1, Buried, Zenon DEF Waits
    <3>2. CASE k # m
      <4>1. queued'[k] <=> queued[k]
        BY <1>1, <2>3, <3>2, RowGone, Zenon DEF Buries, rowVars
      <4>2. dead'[k] = dead[k]
        BY <1>1, <2>3, <3>2, Buried, Zenon
      <4> QED BY <1>1, <2>3, <4>1, <4>2, Zenon DEF Waits, Buries
    <3> QED BY <3>1, <3>2, Zenon
  <2>4. ASSUME NEW d \in Drains, NEW m \in Matters, PutsOff(d, m) \/ Stops(d, m) PROVE Waits(k)'
    BY <1>1, <2>4, Zenon DEF Waits, PutsOff, Stops
  <2> QED BY <1>1, <2>1, <2>2, <2>3, <2>4, Steps, Zenon
<1>2. Inv /\ [Next]_vars => [\A m \in Matters : Waits(m) /\ flows'[m] < data'[m]
          => \/ Waits(m)'
             \/ \E d \in Drains : cur[d] = {m} /\ pc[d] = "synced" /\ read[d] < data[m]
             \/ \E d \in Drains : pc[d] = "off" /\ pc'[d] = "loop" /\ m \in job'[d]]_vars
  BY <1>1, Zenon
<1> QED BY <1>2, Invariant, PTL DEF Spec, ChangeStaysPending
=============================================================================
