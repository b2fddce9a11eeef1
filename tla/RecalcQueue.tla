---------------------------- MODULE RecalcQueue ----------------------------
(***************************************************************************)
(* The matter status recalculation queue                                   *)
(* (app/services/matter/matter_status_recalc_queue.py, its listeners, and  *)
(* services/ops/queue_lock_heartbeat.py).  A transaction that changes the  *)
(* data of a matter upserts one queue row per matter; drains lock rows     *)
(* under a token, recompute the cached status and delete the row.          *)
(*                                                                         *)
(* The data of a matter is its version number.  A payload holds a fresh    *)
(* enqueue_id, so it is the version that was enqueued.  A token is a fresh *)
(* uuid per drain: a member of Drains is used again only when no row       *)
(* carries it.  Timestamps are relative to now, as in DurableQueue.        *)
(***************************************************************************)
EXTENDS Integers, FiniteSets

CONSTANTS
    Matters, Drains, NoToken,
    Deleted,       \* matters whose is_deleted flag is set
    MaxAttempts, LockTimeout, BackoffBase, BackoffCap,
    BatchSize,     \* rows one pick may lock
    Timely,        \* TRUE: heartbeats arrive before a lock times out
    Faults,        \* subset of {"crash", "db", "enqueue"}
    MaxFaults,     \* bound on those
    MaxChanges     \* bound on the changes of the data

VARIABLES
    data, cache,                                  \* version of the data, and the one cached
    queued, req, attempts, delay, lockAge, token, \* matter_status_recalc_queue
    pc, todo, cur,     \* per drain: where it is, rows locked and not begun, row in hand
    locked,            \* locked_payloads
    read,              \* version the status was computed from
    batch, lost,       \* one heartbeat for the whole token; it found no row
    tried,             \* history: version of the payload when the row was last locked
    seen,              \* history: version of the payload when it was compared
    changes, faults

rowVars   == <<queued, req, attempts, delay, lockAge, token>>
drainVars == <<pc, todo, cur, locked, read, batch, lost>>
vars      == <<data, cache, rowVars, drainVars, tried, seen, changes, faults>>

ASSUME ConstantsAssumption ==
    /\ MaxAttempts \in Nat \ {0} /\ LockTimeout \in Nat \ {0} /\ BatchSize \in Nat \ {0}
    /\ BackoffBase \in Nat /\ BackoffCap \in Nat
    /\ MaxFaults \in Nat /\ MaxChanges \in Nat /\ Timely \in BOOLEAN
    /\ NoToken \notin Drains /\ Deleted \subseteq Matters

NoLock   == -1
StaleAge == LockTimeout + 1

Least(x, y) == IF x < y THEN x ELSE y

\* _compute_backoff_seconds.
BackoffOf(n) == Least(BackoffCap, BackoffBase * 2 ^ (IF n > 1 THEN n - 1 ELSE 0))

\* Mutated form: expired locks are not taken over.
ReadyUnlockedOnly(m) ==
    queued[m] /\ delay[m] = 0 /\ attempts[m] < MaxAttempts /\ lockAge[m] = NoLock
\* The condition under which a row is picked.
Ready(m) ==
    /\ queued[m] /\ delay[m] = 0 /\ attempts[m] < MaxAttempts
    /\ lockAge[m] = NoLock \/ lockAge[m] > LockTimeout

Held(d) == {m \in Matters : token[m] = d}

Fault(kind) == kind \in Faults /\ faults < MaxFaults /\ faults' = faults + 1
-----------------------------------------------------------------------------
Init ==
    /\ data = [m \in Matters |-> 0] /\ cache = [m \in Matters |-> 0]
    /\ queued   = [m \in Matters |-> FALSE]
    /\ req      = [m \in Matters |-> 0]
    /\ attempts = [m \in Matters |-> 0]
    /\ delay    = [m \in Matters |-> 0]
    /\ lockAge  = [m \in Matters |-> NoLock]
    /\ token    = [m \in Matters |-> NoToken]
    /\ pc     = [d \in Drains |-> "off"]
    /\ todo   = [d \in Drains |-> {}]
    /\ cur    = [d \in Drains |-> {}]
    /\ locked = [d \in Drains |-> [m \in Matters |-> 0]]
    /\ read   = [d \in Drains |-> 0]
    /\ batch  = [d \in Drains |-> FALSE]
    /\ lost   = [d \in Drains |-> FALSE]
    /\ tried  = [m \in Matters |-> 0]
    /\ seen   = [d \in Drains |-> 0]
    /\ changes = 0 /\ faults = 0
-----------------------------------------------------------------------------
(* enqueue_matter_status_recalc: a lock that has not timed out is kept, with *)
(* its attempts.  An exception rolls back to the savepoint.                   *)
Upsert(m) ==
    \/ LET inUse == token[m] # NoToken /\ lockAge[m] # NoLock /\ lockAge[m] <= LockTimeout
       IN  /\ queued'   = [queued EXCEPT ![m] = TRUE]
           /\ req'      = [req EXCEPT ![m] = data'[m]]
           /\ attempts' = [attempts EXCEPT ![m] = IF inUse THEN @ ELSE 0]
           /\ delay'    = [delay EXCEPT ![m] = 0]
           /\ lockAge'  = [lockAge EXCEPT ![m] = IF inUse THEN @ ELSE NoLock]
           /\ token'    = [token EXCEPT ![m] = IF inUse THEN @ ELSE NoToken]
           /\ UNCHANGED faults
    \/ Fault("enqueue") /\ UNCHANGED rowVars

\* A transaction changes an attribute the status of m depends on; the listener
\* upserts the row after the flush, and both commit together.
Change(m) ==
    /\ changes < MaxChanges
    /\ changes' = changes + 1
    /\ data' = [data EXCEPT ![m] = @ + 1]
    /\ Upsert(m)
    /\ UNCHANGED <<cache, drainVars, tried, seen>>
-----------------------------------------------------------------------------
(* drain_matter_status_recalc_queue. *)

\* _pick_and_lock_ready_items and _lock_specific_items: the UPDATE repeats the
\* conditions of the SELECT, and SKIP LOCKED or the id list may leave rows out.
\* A drain with a limit picks again under the same token.
Lock(d, S) ==
    /\ \/ pc[d] = "off" /\ Held(d) = {}
       \/ pc[d] = "work" /\ todo[d] = {}
    /\ S # {} /\ Cardinality(S) <= BatchSize /\ \A m \in S : Ready(m)
    /\ attempts' = [m \in Matters |-> IF m \in S THEN attempts[m] + 1 ELSE attempts[m]]
    /\ lockAge'  = [m \in Matters |-> IF m \in S THEN 0 ELSE lockAge[m]]
    /\ token'    = [m \in Matters |-> IF m \in S THEN d ELSE token[m]]
    /\ tried'    = [m \in Matters |-> IF m \in S THEN req[m] ELSE tried[m]]
    /\ pc'     = [pc EXCEPT ![d] = "work"]
    /\ todo'   = [todo EXCEPT ![d] = S]
    /\ locked' = [locked EXCEPT ![d] = req]
    /\ batch'  = [batch EXCEPT ![d] = Cardinality(S) > 1]
    /\ lost'   = [lost EXCEPT ![d] = FALSE]
    /\ UNCHANGED <<data, cache, queued, req, delay, cur, read, seen, changes, faults>>

\* Nothing was left to pick, the limit is reached, or the ids were given.
End(d) ==
    /\ pc[d] = "work" /\ todo[d] = {}
    /\ pc' = [pc EXCEPT ![d] = "off"]
    /\ UNCHANGED <<data, cache, rowVars, todo, cur, locked, read, batch, lost, tried, seen, changes, faults>>

\* _drain_one up to the computed status, or an exception out of it.
Work(d, m) ==
    /\ pc[d] = "work" /\ m \in todo[d]
    /\ todo' = [todo EXCEPT ![d] = @ \ {m}]
    /\ cur'  = [cur EXCEPT ![d] = {m}]
    /\ read' = [read EXCEPT ![d] = data[m]]
    /\ lost' = [lost EXCEPT ![d] = batch[d] /\ @]
    /\ \E next \in {"computed", "fail"} : pc' = [pc EXCEPT ![d] = next]
    /\ UNCHANGED <<data, cache, rowVars, locked, batch, tried, seen, changes, faults>>

Goto(d, label) == pc' = [pc EXCEPT ![d] = label]

\* Put down the row in hand.
Done(d) ==
    /\ Goto(d, "work") /\ cur' = [cur EXCEPT ![d] = {}]
    /\ UNCHANGED <<todo, locked, read, batch, lost>>

\* _finalize_success, the SELECT of the payload under our token.
CompareNothing(d, m) ==  \* mutated form: whatever the payload is now
    /\ pc[d] = "computed" /\ m \in cur[d]
    /\ Goto(d, "delete") /\ seen' = [seen EXCEPT ![d] = req[m]]
    /\ UNCHANGED <<data, cache, rowVars, todo, cur, locked, read, batch, lost, tried, changes, faults>>
ComparePayload(d, m) ==
    /\ pc[d] = "computed" /\ m \in cur[d]
    /\ LET gone == ~batch[d] /\ lost[d] /\ m \notin Deleted
       IN \/ (gone \/ token[m] # d) /\ Goto(d, "fail") /\ UNCHANGED <<seen, faults>>
          \/ /\ ~gone /\ token[m] = d
             /\ Goto(d, IF req[m] = locked[d][m] THEN "delete" ELSE "requeue")
             /\ seen' = [seen EXCEPT ![d] = req[m]]
             /\ UNCHANGED faults
          \/ Fault("db") /\ Goto(d, "fail") /\ UNCHANGED seen
    /\ UNCHANGED <<data, cache, rowVars, todo, cur, locked, read, batch, lost, tried, changes>>

\* ... the DELETE under our token, committed with the status; or no row is left.
DeleteUnchecked(d, m) ==  \* mutated form: the row count is not looked at
    /\ pc[d] = "delete" /\ m \in cur[d] /\ Done(d)
    /\ queued' = [queued EXCEPT ![m] = @ /\ token[m] # d]
    /\ token'  = [token EXCEPT ![m] = IF @ = d THEN NoToken ELSE @]
    /\ cache'  = [cache EXCEPT ![m] = IF m \in Deleted THEN @ ELSE read[d]]
    /\ UNCHANGED <<data, req, attempts, delay, lockAge, tried, seen, changes, faults>>
DeleteRow(d, m) ==
    /\ pc[d] = "delete" /\ m \in cur[d]
    /\ \/ /\ token[m] = d
          /\ queued'   = [queued EXCEPT ![m] = FALSE]
          /\ req'      = [req EXCEPT ![m] = 0]
          /\ attempts' = [attempts EXCEPT ![m] = 0]
          /\ delay'    = [delay EXCEPT ![m] = 0]
          /\ lockAge'  = [lockAge EXCEPT ![m] = NoLock]
          /\ token'    = [token EXCEPT ![m] = NoToken]
          /\ cache'    = [cache EXCEPT ![m] = IF m \in Deleted THEN @ ELSE read[d]]
          /\ Done(d) /\ UNCHANGED faults
       \/ /\ token[m] # d /\ UNCHANGED faults
          /\ Goto(d, "fail") /\ UNCHANGED <<cache, rowVars, todo, cur, locked, read, batch, lost>>
       \/ /\ Fault("db")
          /\ Goto(d, "fail") /\ UNCHANGED <<cache, rowVars, todo, cur, locked, read, batch, lost>>
    /\ UNCHANGED <<data, tried, seen, changes>>

\* ... or the UPDATE that makes a row with a newer payload ready again.  How
\* many rows it changed is not looked at.
RequeueRow(d, m) ==
    /\ pc[d] = "requeue" /\ m \in cur[d]
    /\ \/ /\ attempts' = [attempts EXCEPT ![m] = IF token[m] = d THEN 0 ELSE @]
          /\ delay'    = [delay EXCEPT ![m] = IF token[m] = d THEN 0 ELSE @]
          /\ lockAge'  = [lockAge EXCEPT ![m] = IF token[m] = d THEN NoLock ELSE @]
          /\ token'    = [token EXCEPT ![m] = IF @ = d THEN NoToken ELSE @]
          /\ cache'    = [cache EXCEPT ![m] = IF m \in Deleted THEN @ ELSE read[d]]
          /\ Done(d) /\ UNCHANGED <<queued, req, faults>>
       \/ /\ Fault("db")
          /\ Goto(d, "fail") /\ UNCHANGED <<cache, rowVars, todo, cur, locked, read, batch, lost>>
    /\ UNCHANGED <<data, tried, seen, changes>>

\* _record_failure: back off, or, after the last attempt, never again.
RecordUnlocked(d, m) ==  \* mutated form: without the condition on the token
    /\ pc[d] = "fail" /\ m \in cur[d] /\ Done(d)
    /\ lockAge' = [lockAge EXCEPT ![m] = NoLock]
    /\ token'   = [token EXCEPT ![m] = NoToken]
    /\ UNCHANGED <<data, cache, queued, req, attempts, delay, tried, seen, changes, faults>>
RecordFailure(d, m) ==
    /\ pc[d] = "fail" /\ m \in cur[d] /\ Done(d)
    /\ \/ /\ token[m] = d
          /\ delay'   = [delay EXCEPT ![m] = IF attempts[m] \in 1..(MaxAttempts - 1)
                                             THEN BackoffOf(attempts[m]) ELSE 0]
          /\ lockAge' = [lockAge EXCEPT ![m] = NoLock]
          /\ token'   = [token EXCEPT ![m] = NoToken]
          /\ UNCHANGED <<queued, req, attempts, faults>>
       \/ token[m] # d /\ UNCHANGED <<rowVars, faults>>
       \/ Fault("db") /\ UNCHANGED rowVars
    /\ UNCHANGED <<data, cache, tried, seen, changes>>

\* QueueLockHeartbeat: one row, or every row of the token.  It ends when it
\* finds none; after an exception it tries again.
Beat(d) ==
    /\ ~lost[d]
    /\ IF batch[d] THEN pc[d] # "off" ELSE pc[d] \in {"computed", "delete", "requeue"}
    /\ LET rows == IF batch[d] THEN Held(d) ELSE Held(d) \intersect cur[d]
       IN  /\ lockAge' = [m \in Matters |-> IF m \in rows THEN 0 ELSE lockAge[m]]
           /\ lost' = [lost EXCEPT ![d] = rows = {}]
    /\ UNCHANGED <<data, cache, queued, req, attempts, delay, token, pc, todo, cur, locked, read, batch>>
    /\ UNCHANGED <<tried, seen, changes, faults>>

Crash(d) ==
    /\ pc[d] # "off" /\ Fault("crash")
    /\ Goto(d, "off")
    /\ todo' = [todo EXCEPT ![d] = {}] /\ cur' = [cur EXCEPT ![d] = {}]
    /\ UNCHANGED <<data, cache, rowVars, locked, read, batch, lost, tried, seen, changes>>

Tick ==
    /\ Timely => \A d \in Drains : \A m \in (cur[d] \union todo[d]) \intersect Held(d) : lockAge[m] < LockTimeout
    /\ delay'   = [m \in Matters |-> IF delay[m] > 0 THEN delay[m] - 1 ELSE 0]
    /\ lockAge' = [m \in Matters |-> IF lockAge[m] = NoLock THEN NoLock ELSE Least(lockAge[m] + 1, StaleAge)]
    /\ UNCHANGED <<data, cache, queued, req, attempts, token, drainVars, tried, seen, changes, faults>>

Pick(d)   == \E S \in SUBSET Matters : Lock(d, S)
Finish(d) == \E m \in Matters : \/ ComparePayload(d, m) \/ DeleteRow(d, m)
                                \/ RequeueRow(d, m) \/ RecordFailure(d, m)
Drain(d)  == Pick(d) \/ (\E m \in Matters : Work(d, m)) \/ Finish(d)

Next ==
    \/ Tick
    \/ \E m \in Matters : Change(m)
    \/ \E d \in Drains : Drain(d) \/ End(d) \/ Beat(d) \/ Crash(d)

Spec == Init /\ [][Next]_vars

\* The scheduler and the job worker drain again and again; a drain goes on.
FairSpec == Spec /\ WF_vars(Tick) /\ \A d \in Drains : WF_vars(Drain(d) \/ End(d))
-----------------------------------------------------------------------------
(* Properties. *)

\* Rows, drains and history have their types; a row without a token is unlocked.
TypeOK ==
    /\ data \in [Matters -> Nat] /\ cache \in [Matters -> Nat]
    /\ queued   \in [Matters -> BOOLEAN]
    /\ req      \in [Matters -> Nat]
    /\ attempts \in [Matters -> 0..MaxAttempts]
    /\ delay    \in [Matters -> Nat]
    /\ lockAge  \in [Matters -> NoLock..StaleAge]
    /\ token    \in [Matters -> Drains \union {NoToken}]
    /\ pc     \in [Drains -> {"off", "work", "computed", "delete", "requeue", "fail"}]
    /\ todo   \in [Drains -> SUBSET Matters]
    /\ cur    \in [Drains -> SUBSET Matters]
    /\ locked \in [Drains -> [Matters -> Nat]]
    /\ read   \in [Drains -> Nat]
    /\ batch  \in [Drains -> BOOLEAN] /\ lost \in [Drains -> BOOLEAN]
    /\ tried  \in [Matters -> Nat] /\ seen \in [Drains -> Nat]
    /\ changes \in Nat /\ faults \in Nat

\* A row is removed only if the status was computed from everything that had
\* been enqueued when _finalize_success compared the payloads.
RemovalCoversSeen ==
    [][\A m \in Matters : queued[m] /\ ~queued'[m]
          => \E d \in Drains : /\ cur[d] = {m} /\ read[d] >= seen[d]
                               /\ m \in Deleted \/ cache'[m] = read[d]]_vars

\* A drain never unlocks or removes a row that another drain holds and whose
\* lock has not timed out.
ForeignLocksStay ==
    [][\A m \in Matters : token[m] # NoToken /\ token'[m] # token[m] /\ lockAge[m] <= LockTimeout
          => cur[token[m]] = {m} /\ pc[token[m]] \in {"delete", "requeue", "fail"}]_vars

\* However long a drain stalls, the cached status goes back to older data only where
\* _finalize_success requeues a row it no longer holds: the row count of that
\* UPDATE is the one that is not looked at.
CacheForward ==
    [][\A m \in Matters : cache'[m] < cache[m]
          => \E d \in Drains : cur[d] = {m} /\ pc[d] = "requeue" /\ token[m] # d]_vars

\* A matter whose status is older than its data has a queue row.
ChangeIsQueued == \A m \in Matters \ Deleted : cache[m] < data[m] => queued[m]

\* A row that no drain will pick again asks for nothing newer than was tried.
DeadRowsWereTried ==
    \A m \in Matters : queued[m] /\ attempts[m] >= MaxAttempts /\ token[m] = NoToken
                        => req[m] = tried[m]

\* Every row is processed, or its attempts are used up.
RowsSettle == \A m \in Matters : queued[m] ~> (~queued[m] \/ attempts[m] >= MaxAttempts)
=============================================================================
