------------------------- MODULE DeferredSyncProofs -------------------------
(***************************************************************************)
(* What holds of the deferred sync for any number of items, requests, pool *)
(* threads and workers, and for any faults: a committed change stays       *)
(* covered, and derived rows do not go back to an older version.           *)
(***************************************************************************)
EXTENDS DeferredSync, SequenceTheorems, TLAPS

RequestType == [pc : {"idle", "open", "submit", "enqueue"}, nested : BOOLEAN,
                edits : SUBSET Items, inner : SUBSET Items,
                queue : SUBSET Items, dropped : SUBSET Items]
JobType == [status : {"none", "queued", "running"}, attempts : Nat]
RunType == [pc : {"idle", "loop", "loaded"}, job : SUBSET Items,
            todo : SUBSET Items, item : SUBSET Items,
            seen : Nat, alone : BOOLEAN, failed : BOOLEAN]

\* A session: savepoints are opened in a transaction, and what the transaction
\* changed is in the queue or was dropped.
SessionOK(s) ==
    /\ s.nested => s.pc = "open"
    /\ s.pc \in {"submit", "enqueue"} => s.queue # {}
    /\ s.edits \cup s.inner \subseteq s.queue \cup s.dropped

\* A run: it has at most one item in hand, from the ids still to visit.
RunOK(c) ==
    /\ c.pc # "loaded" => c.item = {}
    /\ c.pc = "loaded" => \E i \in c.todo : c.item = {i}
    /\ c.pc = "idle" => c.job = {}

\* A busy worker has a job that is running, and no other worker has it.
BusyOK(w) ==
    /\ run[w].pc # "idle" => run[w].job \in Payloads /\ jobs[run[w].job].status = "running"
    /\ \A v \in Workers : run[v].job = run[w].job /\ run[v].job # {} => v = w

Rows == source \in [Items -> Nat] /\ mirror \in [Items -> Nat] /\ pool \in Seq(SUBSET Items)
Sessions == req \in [Requests -> RequestType] /\ \A r \in Requests : SessionOK(req[r])
Runs == run \in [Runners -> RunType] /\ \A x \in Runners : RunOK(run[x])
Jobs == jobs \in [Payloads -> JobType] /\ \A w \in Workers : BusyOK(w)
Types == Rows /\ Sessions /\ Runs /\ Jobs

\* A run that holds the item i has loaded a committed version of it; alone, it
\* has the item to itself and nothing newer was derived; together with others
\* it is on record.
HoldOK(x, i) ==
    run[x].item = {i} =>
        /\ run[x].seen <= source[i]
        /\ run[x].alone => /\ run[x].seen >= mirror[i]
                           /\ \A y \in Runners : run[y].item = {i} => y = x
        /\ ~run[x].alone => i \in raced

HoldInv ==
    /\ \A i \in Items : mirror[i] <= source[i]
    /\ \A x \in Runners, i \in Items : HoldOK(x, i)

Sure(i) == Covered(i) \/ i \in weak

\* What a run alone with its item leaves behind is the last version, or there
\* is somebody else to see it.
Lasts(x, i) == run[x].item = {i} /\ run[x].alone => run[x].seen = source[i] \/ Sure(i)

CoverInv ==
    /\ \A i \in Items : mirror[i] = source[i] \/ Sure(i) \/ i \in raced
    /\ \A x \in Runners, i \in Items : Lasts(x, i)

-----------------------------------------------------------------------------
(* Types.                                                                  *)

LEMMA NoRequestOK == NoRequest \in RequestType /\ SessionOK(NoRequest)
  BY Zenon DEF NoRequest, RequestType, SessionOK

LEMMA NoRunOK == NoRun \in RunType /\ RunOK(NoRun)
  BY Zenon DEF NoRun, RunType, RunOK

LEMMA TypesInit == Init => Types
<1> SUFFICES ASSUME Init PROVE Types
  OBVIOUS
<1>1. Rows
  BY DEF Init, Rows
<1>2. Sessions
  BY NoRequestOK, Zenon DEF Init, Sessions
<1>3. Runs
  BY NoRunOK, Zenon DEF Init, Runs
<1>4. Jobs
  <2>1. NoJob \in JobType
    BY Zenon DEF NoJob, JobType
  <2>2. ASSUME NEW w \in Workers PROVE BusyOK(w)
    BY Zenon DEF Init, BusyOK, NoRun, Runners
  <2> QED BY <2>1, <2>2, Zenon DEF Init, Jobs
<1> QED BY <1>1, <1>2, <1>3, <1>4, Zenon DEF Types

\* One session changes.
LEMMA SessionSet ==
    ASSUME Sessions, NEW r \in Requests, NEW s \in RequestType, SessionOK(s),
           req' = [req EXCEPT ![r] = s]
    PROVE  Sessions'
<1>1. req' \in [Requests -> RequestType]
  BY Zenon DEF Sessions
<1>2. ASSUME NEW q \in Requests PROVE SessionOK(req'[q])
  BY Zenon DEF Sessions
<1> QED BY <1>1, <1>2, Zenon DEF Sessions

\* One run changes.
LEMMA RunSet ==
    ASSUME Runs, NEW x \in Runners, NEW c \in RunType, RunOK(c),
           run' = [run EXCEPT ![x] = c]
    PROVE  Runs'
<1>1. run' \in [Runners -> RunType]
  BY Zenon DEF Runs
<1>2. ASSUME NEW y \in Runners PROVE RunOK(run'[y])
  BY Zenon DEF Runs
<1> QED BY <1>1, <1>2, Zenon DEF Runs

\* The jobs of busy workers, when runs keep their job or end.
LEMMA JobsKept ==
    ASSUME Jobs, jobs' \in [Payloads -> JobType],
           \A w \in Workers : \/ run'[w].pc = "idle" /\ run'[w].job = {}
                              \/ /\ run'[w].job = run[w].job /\ run[w].pc # "idle"
                                 /\ jobs'[run[w].job].status = "running"
    PROVE  Jobs'
<1>1. ASSUME NEW w \in Workers PROVE BusyOK(w)'
  <2>1. BusyOK(w)
    BY Zenon DEF Jobs
  <2> QED BY <2>1, Zenon DEF BusyOK
<1> QED BY <1>1, Zenon DEF Jobs

LEMMA EditTypes ==
    ASSUME Types, NEW r \in Requests, NEW i \in Items, Edit(r, i) PROVE Types'
<1> DEFINE s == [req[r] EXCEPT !.pc = "open",
                               !.edits = IF req[r].nested THEN @ ELSE @ \cup {i},
                               !.inner = IF req[r].nested THEN @ \cup {i} ELSE @,
                               !.queue = @ \cup {i}]
<1>1. req[r] \in RequestType /\ SessionOK(req[r])
  BY Zenon DEF Types, Sessions
<1>2. s \in RequestType
  BY <1>1, Zenon DEF RequestType
<1>3. SessionOK(s)
  BY <1>1 DEF RequestType, SessionOK
<1>4. req' = [req EXCEPT ![r] = s]
  BY Zenon DEF Edit
<1> HIDE DEF s
<1>5. Sessions'
  BY <1>2, <1>3, <1>4, SessionSet, Zenon DEF Types
<1> QED BY <1>5, Zenon DEF Types, Edit, Rows, Runs, Jobs, BusyOK

LEMMA NestedTypes ==
    ASSUME Types, NEW r \in Requests, BeginNested(r) \/ Release(r) \/ RollbackNested(r)
    PROVE  Types'
<1>1. req[r] \in RequestType /\ SessionOK(req[r])
  BY Zenon DEF Types, Sessions
<1>2. UNCHANGED <<source, mirror, pool, jobs, run>>
  BY Zenon DEF BeginNested, Release, RollbackNested
<1> SUFFICES Sessions'
  BY <1>2, Zenon DEF Types, Rows, Runs, Jobs, BusyOK
<1>3. CASE BeginNested(r)
  <2> DEFINE s == [req[r] EXCEPT !.nested = TRUE]
  <2>1. s \in RequestType /\ SessionOK(s)
    BY <1>1, <1>3, Zenon DEF BeginNested, RequestType, SessionOK
  <2>2. req' = [req EXCEPT ![r] = s]
    BY <1>3, Zenon DEF BeginNested
  <2> HIDE DEF s
  <2> QED BY <2>1, <2>2, SessionSet, Zenon DEF Types
<1>4. CASE Release(r)
  <2> DEFINE s == [req[r] EXCEPT !.nested = FALSE, !.edits = @ \cup req[r].inner, !.inner = {}]
  <2>1. s \in RequestType
    BY <1>1, Zenon DEF RequestType
  <2>2. SessionOK(s)
    BY <1>1, Zenon DEF RequestType, SessionOK
  <2>3. req' = [req EXCEPT ![r] = s]
    BY <1>4, Zenon DEF Release
  <2> HIDE DEF s
  <2> QED BY <2>1, <2>2, <2>3, SessionSet, Zenon DEF Types
<1>5. CASE RollbackNested(r)
  <2> DEFINE s == [req[r] EXCEPT !.nested = FALSE, !.inner = {}, !.queue = {},
                                 !.dropped = @ \cup req[r].queue]
  <2>1. s \in RequestType
    BY <1>1, Zenon DEF RequestType
  <2>2. req[r].pc \notin {"submit", "enqueue"}
    BY <1>1, <1>5, Zenon DEF RollbackNested, SessionOK
  <2>3. SessionOK(s)
    BY <1>1, <2>2, Zenon DEF RequestType, SessionOK
  <2>4. req' = [req EXCEPT ![r] = s]
    BY <1>5, Zenon DEF RollbackNested
  <2> HIDE DEF s
  <2> QED BY <2>1, <2>3, <2>4, SessionSet DEF Types
<1> QED BY <1>3, <1>4, <1>5, Zenon

LEMMA CommitTypes ==
    ASSUME Types, NEW r \in Requests, Commit(r) PROVE Types'
<1> DEFINE s == IF req[r].queue = {} THEN NoRequest
                ELSE [NoRequest EXCEPT !.pc = "submit", !.queue = req[r].queue]
<1>1. req[r] \in RequestType
  BY Zenon DEF Types, Sessions
<1>2. s \in RequestType /\ SessionOK(s)
  BY <1>1, Zenon DEF RequestType, SessionOK, NoRequest
<1>3. req' = [req EXCEPT ![r] = s]
  BY Zenon DEF Commit
<1> HIDE DEF s
<1>4. Sessions'
  BY <1>2, <1>3, SessionSet, Zenon DEF Types
<1>5. Rows'
  BY DEF Types, Rows, Commit
<1> QED BY <1>4, <1>5, Zenon DEF Types, Commit, Runs, Jobs, BusyOK

LEMMA Appended ==
    ASSUME NEW p \in SUBSET Items, Rows PROVE Append(pool, p) \in Seq(SUBSET Items)
<1>1. pool \in Seq(SUBSET Items)
  BY Zenon DEF Rows
<1> HIDE DEF Rows
<1> QED BY <1>1, AppendProperties, Zenon

LEMMA HookTypes ==
    ASSUME Types, NEW r \in Requests, Rollback(r) \/ Submit(r) \/ Enqueue(r) PROVE Types'
<1>1. req[r] \in RequestType /\ SessionOK(req[r])
  BY DEF Types, Sessions
<1>2. UNCHANGED <<source, mirror, run>>
  BY Zenon DEF Rollback, Submit, Enqueue
<1>3. Runs'
  BY <1>2, Zenon DEF Types, Runs
<1>4. CASE Rollback(r)
  <2>1. Sessions'
    BY <1>4, NoRequestOK, SessionSet, Zenon DEF Types, Rollback
  <2> QED BY <1>3, <1>4, <2>1, Zenon DEF Types, Rollback, Rows, Jobs, BusyOK
<1>5. CASE Submit(r)
  <2> DEFINE s == [req[r] EXCEPT !.pc = "enqueue"]
  <2>1. s \in RequestType
    BY <1>1, Zenon DEF RequestType
  <2>2. SessionOK(s)
    BY <1>1, <1>5, Zenon DEF RequestType, SessionOK, Submit
  <2>3. req' = [req EXCEPT ![r] = s]
    BY <1>5, Zenon DEF Submit
  <2> HIDE DEF s
  <2>4. Sessions'
    BY <2>1, <2>2, <2>3, SessionSet DEF Types
  <2>5. pool' \in Seq(SUBSET Items)
    <3>1. req[r].queue \in SUBSET Items
      BY <1>1, Zenon DEF RequestType
    <3>2. pool' = Append(pool, req[r].queue) \/ pool' = pool
      BY <1>5, Zenon DEF Submit
    <3>3. Rows /\ pool \in Seq(SUBSET Items)
      BY Zenon DEF Types, Rows
    <3> QED BY <3>1, <3>2, <3>3, Appended, Zenon
  <2> QED BY <1>2, <1>3, <1>5, <2>4, <2>5, Zenon DEF Types, Submit, Rows, Jobs, BusyOK
<1>6. CASE Enqueue(r)
  <2>1. Sessions'
    BY <1>6, NoRequestOK, SessionSet, Zenon DEF Types, Enqueue
  <2>2. req[r].queue \in Payloads
    BY <1>1, <1>6, Zenon DEF RequestType, SessionOK, Enqueue, Payloads
  <2>3. pool' \in Seq(SUBSET Items)
    <3>1. req[r].queue \in SUBSET Items
      BY <1>1 DEF RequestType
    <3>2. pool' = Append(pool, req[r].queue) \/ pool' = pool
      BY <1>6, Zenon DEF Enqueue
    <3>3. Rows /\ pool \in Seq(SUBSET Items)
      BY DEF Types, Rows
    <3> QED BY <3>1, <3>2, <3>3, Appended, Zenon
  <2>4. /\ jobs' \in [Payloads -> JobType]
        /\ \A p \in Payloads : jobs[p].status = "running" => jobs'[p].status = "running"
    <3> DEFINE q == req[r].queue
               j == IF jobs[q].status = "none" THEN [status |-> "queued", attempts |-> 0] ELSE jobs[q]
    <3>1. jobs[q] \in JobType
      BY <2>2, Zenon DEF Types, Jobs
    <3>2. j \in JobType /\ (jobs[q].status = "running" => j.status = "running")
      BY <3>1, Zenon DEF JobType
    <3>3. jobs' = [jobs EXCEPT ![q] = j] \/ jobs' = jobs
      BY <1>6, Zenon DEF Enqueue
    <3>4. q \in Payloads
      BY <2>2, Zenon
    <3> HIDE DEF j, q
    <3> QED BY <3>2, <3>3, <3>4, Zenon DEF Types, Jobs
  <2>5. Jobs'
    <3>1. ASSUME NEW w \in Workers PROVE BusyOK(w)'
      <4>1. BusyOK(w)
        BY Zenon DEF Types, Jobs
      <4> QED BY <4>1, <1>2, <2>4, Zenon DEF BusyOK
    <3> QED BY <2>4, <3>1, Zenon DEF Jobs
  <2> QED BY <1>2, <1>3, <2>1, <2>3, <2>5, Zenon DEF Types, Rows
<1> QED BY <1>4, <1>5, <1>6, Zenon

LEMMA CrashTypes ==
    ASSUME Types, Crash PROVE Types'
<1>1. Rows'
  BY DEF Types, Rows, Crash
<1>2. Sessions'
  BY NoRequestOK, Zenon DEF Types, Sessions, Crash
<1>3. run' \in [Runners -> RunType] /\ \A x \in Runners : run'[x] \in {NoRun, run[x]}
  BY NoRunOK, Zenon DEF Types, Runs, Crash
<1>4. Runs'
  BY <1>3, NoRunOK, Zenon DEF Types, Runs
<1>5. \A w \in Workers : run'[w] = run[w]
  BY ConstantsAssumption, Zenon DEF Crash, Runners
<1>6. Jobs'
  BY <1>5 DEF Types, Jobs, BusyOK, Crash
<1> QED BY <1>1, <1>2, <1>4, <1>6, Zenon DEF Types

\* What one step of the run x leaves of it.
LEMMA RunStep ==
    ASSUME Types, NEW x \in Runners, NEW c \in RunType, RunOK(c),
           run' = [run EXCEPT ![x] = c],
           UNCHANGED <<source, req, jobs>>, mirror' \in [Items -> Nat],
           pool' \in Seq(SUBSET Items),
           x \in Threads \/ c = NoRun \/ (run[x].pc # "idle" /\ c.pc # "idle" /\ c.job = run[x].job)
    PROVE  Types'
<1>1. Rows'
  BY Zenon DEF Types, Rows
<1>2. Sessions'
  BY Zenon DEF Types, Sessions
<1>3. Runs'
  BY RunSet, Zenon DEF Types
<1>4. Jobs'
  <2>1. jobs' \in [Payloads -> JobType]
    BY Zenon DEF Types, Jobs
  <2>2. DOMAIN run = Runners
    BY Zenon DEF Types, Runs
  <2>3. ASSUME NEW w \in Workers
        PROVE  \/ run'[w].pc = "idle" /\ run'[w].job = {}
               \/ /\ run'[w].job = run[w].job /\ run[w].pc # "idle"
                  /\ jobs'[run[w].job].status = "running"
    <3>1. BusyOK(w) /\ w \in Runners /\ RunOK(run[w])
      BY Zenon DEF Types, Jobs, Runners, Runs
    <3>2. CASE w = x
      <4>1. x \notin Threads /\ run'[w] = c
        BY <2>2, <3>2, ConstantsAssumption, Zenon
      <4> QED BY <3>1, <3>2, <4>1 DEF BusyOK, NoRun
    <3>3. CASE w # x
      <4>1. run'[w] = run[w]
        BY <3>1, <3>3
      <4> QED BY <3>1, <4>1, Zenon DEF BusyOK, RunOK
    <3> QED BY <3>2, <3>3, Zenon
  <2> QED BY <2>1, <2>3, JobsKept, Zenon DEF Types
<1> QED BY <1>1, <1>2, <1>3, <1>4, Zenon DEF Types

LEMMA TakeTypes ==
    ASSUME Types, NEW t \in Threads, Take(t) PROVE Types'
<1> DEFINE c == [NoRun EXCEPT !.pc = "loop", !.todo = Head(pool)]
<1>1. pool \in Seq(SUBSET Items) /\ pool # <<>>
  BY Zenon DEF Types, Rows, Take
<1>2. Head(pool) \in SUBSET Items /\ Tail(pool) \in Seq(SUBSET Items)
  BY <1>1, HeadTailProperties, Zenon
<1>3. c \in RunType /\ RunOK(c)
  BY <1>2, Zenon DEF RunType, RunOK, NoRun
<1>4. run' = [run EXCEPT ![t] = c] /\ t \in Runners
  BY Zenon DEF Take, Runners
<1> HIDE DEF c
<1> QED BY <1>2, <1>3, <1>4, RunStep, Zenon DEF Types, Rows, Take

LEMMA EndTypes ==
    ASSUME Types, NEW x \in Runners, ThreadEnds(x) \/ WorkerDies(x) PROVE Types'
<1>1. run' = [run EXCEPT ![x] = NoRun] /\ UNCHANGED <<source, mirror, req, pool, jobs>>
  BY Zenon DEF ThreadEnds, WorkerDies
<1> QED BY <1>1, NoRunOK, RunStep, Zenon DEF Types, Rows

LEMMA VisitTypes ==
    ASSUME Types, NEW x \in Runners, LoadFails(x) \/ Sync(x) \/ SyncFails(x) PROVE Types'
<1>1. run \in [Runners -> RunType] /\ run[x] \in RunType /\ RunOK(run[x])
  BY Zenon DEF Types, Runs
<1>2. UNCHANGED <<source, req, pool, jobs>> /\ pool' \in Seq(SUBSET Items)
  BY Zenon DEF LoadFails, Sync, SyncFails, Types, Rows
<1>3. CASE LoadFails(x)
  <2> DEFINE c == [run[x] EXCEPT !.todo = {}, !.failed = TRUE]
  <2>1. c \in RunType /\ RunOK(c) /\ c.job = run[x].job /\ run[x].pc # "idle" /\ c.pc # "idle"
    BY <1>1, <1>3, Zenon DEF LoadFails, RunType, RunOK
  <2>2. run' = [run EXCEPT ![x] = c] /\ mirror' \in [Items -> Nat]
    BY <1>1, <1>3, Zenon DEF LoadFails, Types, Rows
  <2> HIDE DEF c
  <2> QED BY <1>2, <2>1, <2>2, RunStep, Zenon
<1>4. ASSUME NEW ok \in BOOLEAN, run[x].pc = "loaded", run' = Visited(x, ok), mirror' \in [Items -> Nat]
      PROVE  Types'
  <2> DEFINE c == [run[x] EXCEPT !.pc = "loop", !.todo = @ \ run[x].item, !.item = {},
                                 !.seen = 0, !.alone = TRUE, !.failed = @ \/ ~ok]
  <2>1. c \in RunType
    BY <1>1, Zenon DEF RunType
  <2>2. RunOK(c) /\ c.job = run[x].job /\ run[x].pc # "idle" /\ c.pc # "idle"
    BY <1>1, <1>4, Zenon DEF RunType, RunOK
  <2>3. run' = [run EXCEPT ![x] = c]
    BY <1>1, <1>4, Zenon DEF Visited
  <2> HIDE DEF c
  <2> QED BY <1>2, <1>4, <2>1, <2>2, <2>3, RunStep, Zenon
<1>5. CASE Sync(x)
  <2>1. mirror' \in [Items -> Nat]
    BY <1>1, <1>5, Zenon DEF Sync, Derived, Types, Rows, RunType
  <2> QED BY <1>4, <1>5, <2>1, Zenon DEF Sync
<1>6. CASE SyncFails(x)
  BY <1>4, <1>6, Zenon DEF SyncFails, Types, Rows
<1> QED BY <1>3, <1>5, <1>6, Zenon

LEMMA LoadTypes ==
    ASSUME Types, NEW x \in Runners, NEW i \in Items, Load(x, i) PROVE Types'
<1>1. run \in [Runners -> RunType] /\ \A y \in Runners : run[y] \in RunType /\ RunOK(run[y])
  BY Zenon DEF Types, Runs
<1> DEFINE c == [run[x] EXCEPT !.pc = "loaded", !.item = {i}, !.seen = source[i],
                               !.alone = Holding(i) = {}]
<1>2. run[x].pc = "loop" /\ i \in run[x].todo /\ source[i] \in Nat
  BY Zenon DEF Load, Types, Rows
<1>3. c \in RunType /\ RunOK(c) /\ c.job = run[x].job /\ c.pc = "loaded"
  BY <1>1, <1>2 DEF RunType, RunOK
<1>4. ASSUME NEW y \in Runners
      PROVE  /\ run'[y] \in RunType /\ RunOK(run'[y])
             /\ run'[y].job = run[y].job
             /\ run[y].pc = "idle" <=> run'[y].pc = "idle"
  <2>1. CASE y = x
    <3>1. run'[y] = c
      BY <2>1, Zenon DEF Load, Loaded
    <3> HIDE DEF c
    <3> QED BY <1>2, <1>3, <2>1, <3>1, Zenon
  <2>2. CASE y # x
    <3> DEFINE b == [run[y] EXCEPT !.alone = @ /\ y \notin Holding(i)]
    <3>1. run'[y] = b
      BY <2>2, Zenon DEF Load, Loaded
    <3>2. run[y] \in RunType /\ RunOK(run[y])
      BY <1>1, Zenon
    <3>3. b \in RunType /\ RunOK(b) /\ b.job = run[y].job /\ b.pc = run[y].pc
      BY <3>2, Zenon DEF RunType, RunOK
    <3> HIDE DEF b
    <3> QED BY <3>1, <3>3, Zenon
  <2> QED BY <2>1, <2>2, Zenon
<1>5. run' = [y \in Runners |-> run'[y]]
  BY Zenon DEF Load, Loaded
<1>6. Runs'
  BY <1>4, <1>5, Zenon DEF Runs
<1>7. Jobs'
  <2>1. jobs' = jobs /\ jobs' \in [Payloads -> JobType]
    BY Zenon DEF Load, Types, Jobs
  <2>2. \A w \in Workers : BusyOK(w) /\ w \in Runners
    BY Zenon DEF Types, Jobs, Runners
  <2>3. \A w \in Workers : run[w].pc # "idle" => jobs'[run[w].job].status = "running"
    BY <2>1, <2>2, Zenon DEF BusyOK
  <2>4. \A w \in Workers : run[w].pc = "idle" => run[w].job = {}
    BY <1>1, <2>2, Zenon DEF RunOK
  <2> QED BY <1>4, <2>1, <2>2, <2>3, <2>4, JobsKept, Zenon DEF Types
<1> QED BY <1>6, <1>7, Zenon DEF Types, Load, Rows, Sessions

\* A job that ends or is recovered has a type again.
LEMMA RetryTypes ==
    ASSUME Types, NEW p \in Payloads, Retry(p, MaxAttempts)
    PROVE  /\ jobs' \in [Payloads -> JobType]
           /\ \A q \in Payloads \ {p} : jobs'[q] = jobs[q]
<1> DEFINE j == IF jobs[p].attempts < MaxAttempts THEN [jobs[p] EXCEPT !.status = "queued"] ELSE NoJob
<1>1. jobs \in [Payloads -> JobType] /\ jobs[p] \in JobType
  BY Zenon DEF Types, Jobs
<1>2. j \in JobType
  BY <1>1, Zenon DEF JobType, NoJob
<1>3. jobs' = [jobs EXCEPT ![p] = j]
  BY Zenon DEF Retry
<1> HIDE DEF j
<1> QED BY <1>1, <1>2, <1>3, Zenon

LEMMA WorkerEndsTypes ==
    ASSUME Types, NEW w \in Workers, WorkerEnds(w) PROVE Types'
<1>1. w \in Runners /\ run[w].job \in Payloads /\ run' = [run EXCEPT ![w] = NoRun]
  BY Zenon DEF Types, Jobs, BusyOK, WorkerEnds, Runners
<1>2. /\ jobs' \in [Payloads -> JobType]
      /\ \A q \in Payloads \ {run[w].job} : jobs'[q] = jobs[q]
  <2>1. CASE run[w].failed
    BY <1>1, <2>1, RetryTypes, Zenon DEF WorkerEnds
  <2>2. CASE ~run[w].failed
    <3>1. NoJob \in JobType
      BY Zenon DEF NoJob, JobType
    <3> QED BY <1>1, <2>2, <3>1, Zenon DEF WorkerEnds, Types, Jobs
  <2> QED BY <2>1, <2>2, Zenon
<1>3. Runs'
  BY <1>1, NoRunOK, RunSet, Zenon DEF Types
<1>4. ASSUME NEW v \in Workers
      PROVE  \/ run'[v].pc = "idle" /\ run'[v].job = {}
             \/ /\ run'[v].job = run[v].job /\ run[v].pc # "idle"
                /\ jobs'[run[v].job].status = "running"
  <2>1. BusyOK(v) /\ BusyOK(w) /\ v \in Runners /\ RunOK(run[v]) /\ DOMAIN run = Runners
    BY Zenon DEF Types, Jobs, Runs, Runners
  <2>2. CASE v = w
    BY <1>1, <2>1, <2>2, Zenon DEF NoRun
  <2>3. CASE v # w
    <3>1. run'[v] = run[v]
      BY <1>1, <2>1, <2>3, Zenon
    <3>2. CASE run[v].pc = "idle"
      BY <2>1, <3>1, <3>2, Zenon DEF RunOK
    <3>3. CASE run[v].pc # "idle"
      <4>1. run[v].job \in Payloads /\ jobs[run[v].job].status = "running"
        BY <2>1, <3>3, Zenon DEF BusyOK
      <4>2. run[v].job # run[w].job
        BY <2>1, <2>3, <4>1, Zenon DEF BusyOK, Payloads
      <4> QED BY <1>2, <3>1, <3>3, <4>1, <4>2, Zenon
    <3> QED BY <3>2, <3>3, Zenon
  <2> QED BY <2>2, <2>3, Zenon
<1>5. Jobs'
  BY <1>2, <1>4, JobsKept, Zenon DEF Types
<1> QED BY <1>3, <1>5, Zenon DEF Types, WorkerEnds, Rows, Sessions

LEMMA RecoverTypes ==
    ASSUME Types, NEW p \in Payloads, Recover(p) PROVE Types'
<1>1. run' = run /\ ~Held(p)
  BY Zenon DEF Recover
<1>2. jobs' \in [Payloads -> JobType] /\ \A q \in Payloads \ {p} : jobs'[q] = jobs[q]
  BY RetryTypes, Zenon DEF Recover
<1>3. ASSUME NEW w \in Workers
      PROVE  \/ run'[w].pc = "idle" /\ run'[w].job = {}
             \/ /\ run'[w].job = run[w].job /\ run[w].pc # "idle"
                /\ jobs'[run[w].job].status = "running"
  <2>1. BusyOK(w) /\ RunOK(run[w])
    BY Zenon DEF Types, Jobs, Runs, Runners
  <2> QED BY <1>1, <1>2, <2>1, Zenon DEF BusyOK, RunOK, Held
<1>4. Jobs'
  BY <1>2, <1>3, JobsKept, Zenon DEF Types
<1> QED BY <1>1, <1>4, Zenon DEF Types, Recover, Rows, Sessions, Runs

LEMMA ClaimTypes ==
    ASSUME Types, NEW w \in Workers, NEW p \in Payloads, Claim(w, p) PROVE Types'
<1> DEFINE c == [NoRun EXCEPT !.pc = "loop", !.job = p, !.todo = p]
           j == [status |-> "running", attempts |-> jobs[p].attempts + 1]
<1>1. c \in RunType /\ RunOK(c) /\ c.job = p
  BY Zenon DEF RunType, RunOK, NoRun, Payloads
<1>2. j \in JobType /\ j.status = "running"
  BY DEF Types, Jobs, JobType
<1>3. /\ run' = [run EXCEPT ![w] = c] /\ jobs' = [jobs EXCEPT ![p] = j]
      /\ jobs[p].status = "queued" /\ w \in Runners
  BY Zenon DEF Claim, Runners
<1> HIDE DEF c, j
<1>4. Runs'
  BY <1>1, <1>3, RunSet, Zenon DEF Types
<1>5. jobs' \in [Payloads -> JobType]
  BY <1>2, <1>3, Zenon DEF Types, Jobs
<1>6. \A v \in Workers : v \in Runners /\ BusyOK(v) /\ RunOK(run[v])
  BY Zenon DEF Types, Jobs, Runs, Runners
<1>7. \A v \in Workers : run[v].job # p
  BY <1>3, <1>6, Zenon DEF BusyOK, RunOK, Payloads
<1>8. \A v \in Workers : IF v = w THEN run'[v] = c ELSE run'[v] = run[v]
  BY <1>3, <1>6, Zenon DEF Types, Runs
<1>9. \A q \in Payloads : IF q = p THEN jobs'[q] = j ELSE jobs'[q] = jobs[q]
  BY <1>3, Zenon DEF Types, Jobs
<1>10. ASSUME NEW v \in Workers PROVE BusyOK(v)'
  <2>1. run'[v].pc # "idle" => run'[v].job \in Payloads /\ jobs'[run'[v].job].status = "running"
    BY <1>1, <1>2, <1>6, <1>8, <1>9 DEF BusyOK
  <2>2. ASSUME NEW u \in Workers, run'[u].job = run'[v].job, run'[u].job # {} PROVE u = v
    BY <1>1, <1>6, <1>7, <1>8, <2>2, Zenon DEF BusyOK
  <2> QED BY <2>1, <2>2, Zenon DEF BusyOK
<1>11. Jobs'
  BY <1>5, <1>10, Zenon DEF Jobs
<1> QED BY <1>4, <1>11, Zenon DEF Types, Claim, Rows, Sessions

LEMMA TypesStep == Types /\ [Next]_vars => Types'
<1> SUFFICES ASSUME Types, [Next]_vars PROVE Types'
  OBVIOUS
<1>1. CASE UNCHANGED vars
  BY <1>1, Zenon DEF vars, Types, Rows, Sessions, Runs, Jobs, BusyOK
<1>2. CASE Next
  <2>1. ASSUME NEW r \in Requests,
               \/ \E i \in Items : Edit(r, i)
               \/ BeginNested(r) \/ Release(r) \/ RollbackNested(r)
               \/ Commit(r) \/ Rollback(r) \/ Submit(r) \/ Enqueue(r)
        PROVE  Types'
    BY <2>1, EditTypes, NestedTypes, CommitTypes, HookTypes, Zenon
  <2>2. ASSUME NEW t \in Threads, Take(t) \/ ThreadEnds(t) PROVE Types'
    BY <2>2, TakeTypes, EndTypes, Zenon DEF Runners
  <2>3. ASSUME NEW w \in Workers,
               (\E p \in Payloads : Claim(w, p)) \/ WorkerEnds(w) \/ WorkerDies(w)
        PROVE  Types'
    BY <2>3, ClaimTypes, WorkerEndsTypes, EndTypes, Zenon DEF Runners
  <2>4. ASSUME NEW x \in Runners,
               (\E i \in Items : Load(x, i)) \/ LoadFails(x) \/ Sync(x) \/ SyncFails(x)
        PROVE  Types'
    BY <2>4, LoadTypes, VisitTypes, Zenon
  <2> QED BY <1>2, <2>1, <2>2, <2>3, <2>4, CrashTypes, RecoverTypes, Zenon DEF Next
<1> QED BY <1>1, <1>2, Zenon

-----------------------------------------------------------------------------
(* Who holds an item, and which version of it.                             *)

\* The run x keeps what it holds, or holds nothing.
Calm(x) ==
    \/ run'[x].item = {}
    \/ /\ run'[x].item = run[x].item /\ run'[x].seen = run[x].seen
       /\ run'[x].alone <=> run[x].alone

\* Only a load and a sync change who holds what and what was derived.
Quiet ==
    /\ mirror' = mirror /\ raced' = raced
    /\ \A i \in Items : source[i] <= source'[i]
    /\ \A x \in Runners : Calm(x)

LEMMA RequestsQuiet ==
    ASSUME Types, NEW r \in Requests,
           \/ \E i \in Items : Edit(r, i)
           \/ BeginNested(r) \/ Release(r) \/ RollbackNested(r)
           \/ Commit(r) \/ Rollback(r) \/ Submit(r) \/ Enqueue(r)
    PROVE  Quiet /\ run' = run
<1>1. source \in [Items -> Nat]
  BY Zenon DEF Types, Rows
<1>2. UNCHANGED <<mirror, raced, run>>
  BY Zenon DEF Edit, BeginNested, Release, RollbackNested, Commit, Rollback, Submit, Enqueue
<1>3. \A i \in Items : source[i] <= source'[i]
  <2>1. CASE Commit(r)
    BY <1>1, <2>1 DEF Commit
  <2>2. CASE source' = source
    BY <1>1, <2>2
  <2>3. Commit(r) \/ source' = source
    BY Zenon DEF Edit, BeginNested, Release, RollbackNested, Rollback, Submit, Enqueue
  <2> QED BY <2>1, <2>2, <2>3, Zenon
<1> QED BY <1>2, <1>3, Zenon DEF Quiet, Calm

LEMMA CrashQuiet ==
    ASSUME Types, Crash PROVE Quiet
<1>1. source \in [Items -> Nat] /\ UNCHANGED <<source, mirror, raced>>
  BY Zenon DEF Types, Rows, Crash
<1>2. \A x \in Runners : run'[x] \in {NoRun, run[x]}
  BY Zenon DEF Crash
<1> QED BY <1>1, <1>2 DEF Quiet, Calm, NoRun

LEMMA RunsQuiet ==
    ASSUME Types, NEW x \in Runners,
           \/ Take(x) \/ ThreadEnds(x) \/ (\E p \in Payloads : Claim(x, p)) \/ WorkerEnds(x)
           \/ WorkerDies(x) \/ LoadFails(x) \/ SyncFails(x)
    PROVE  Quiet
<1>1. run \in [Runners -> RunType] /\ run[x] \in RunType
  BY Zenon DEF Types, Runs
<1>3. UNCHANGED <<source, mirror, raced>>
  BY Zenon DEF Take, ThreadEnds, Claim, WorkerEnds, WorkerDies, LoadFails, SyncFails
<1>4. \A y \in Runners \ {x} : run'[y] = run[y]
  BY <1>1, Zenon DEF Take, ThreadEnds, Claim, WorkerEnds, WorkerDies, LoadFails, SyncFails, Visited
<1>5. \/ run'[x].item = {}
      \/ run'[x].item = run[x].item /\ run'[x].seen = run[x].seen /\ run'[x].alone = run[x].alone
  <2>1. CASE LoadFails(x)
    BY <1>1, <2>1, Zenon DEF LoadFails, RunType
  <2>2. CASE SyncFails(x)
    BY <1>1, <2>2, Zenon DEF SyncFails, RunType, Visited
  <2>3. CASE Take(x) \/ \E p \in Payloads : Claim(x, p)
    <3>1. ASSUME NEW c, run' = [run EXCEPT ![x] = c], c.item = {} PROVE run'[x].item = {}
      BY <1>1, <3>1, Zenon
    <3>2. CASE Take(x)
      <4> DEFINE c == [NoRun EXCEPT !.pc = "loop", !.todo = Head(pool)]
      <4>1. c.item = {}
        BY DEF NoRun
      <4>2. run' = [run EXCEPT ![x] = c]
        BY <3>2, Zenon DEF Take
      <4> HIDE DEF c
      <4> QED BY <3>1, <4>1, <4>2, Zenon
    <3>3. ASSUME NEW p \in Payloads, Claim(x, p) PROVE run'[x].item = {}
      <4> DEFINE c == [NoRun EXCEPT !.pc = "loop", !.job = p, !.todo = p]
      <4>1. c.item = {}
        BY DEF NoRun
      <4>2. run' = [run EXCEPT ![x] = c]
        BY <3>3, Zenon DEF Claim
      <4> HIDE DEF c
      <4> QED BY <3>1, <4>1, <4>2, Zenon
    <3> QED BY <2>3, <3>2, <3>3, Zenon
  <2>4. CASE ThreadEnds(x) \/ WorkerEnds(x) \/ WorkerDies(x)
    BY <1>1, <2>4 DEF ThreadEnds, WorkerEnds, WorkerDies, NoRun
  <2> QED BY <2>1, <2>2, <2>3, <2>4, Zenon
<1>6. \A y \in Runners : Calm(y)
  BY <1>4, <1>5, Zenon DEF Calm
<1>7. source \in [Items -> Nat]
  BY Zenon DEF Types, Rows
<1> QED BY <1>3, <1>6, <1>7 DEF Quiet

LEMMA QuietHolds ==
    ASSUME Types, Types', HoldInv, Quiet PROVE HoldInv'
<1>1. source \in [Items -> Nat] /\ mirror \in [Items -> Nat] /\ source' \in [Items -> Nat]
  BY Zenon DEF Types, Rows
<1>2. \A i \in Items : mirror'[i] <= source'[i]
  BY <1>1 DEF HoldInv, Quiet
<1>3. ASSUME NEW x \in Runners, NEW i \in Items PROVE HoldOK(x, i)'
  <2> SUFFICES ASSUME run'[x].item = {i}
               PROVE  /\ run'[x].seen <= source'[i]
                      /\ run'[x].alone => /\ run'[x].seen >= mirror'[i]
                                          /\ \A y \in Runners : run'[y].item = {i} => y = x
                      /\ ~run'[x].alone => i \in raced'
    BY Zenon DEF HoldOK
  <2>1. HoldOK(x, i) /\ run[x].seen \in Nat
    BY Zenon DEF HoldInv, Types, Runs, RunType
  <2>2. run[x].item = {i} /\ run'[x].seen = run[x].seen /\ (run'[x].alone <=> run[x].alone)
    BY Zenon DEF Quiet, Calm
  <2>3. source[i] <= source'[i] /\ source[i] \in Nat /\ source'[i] \in Nat
    BY <1>1, Zenon DEF Quiet
  <2>4. mirror' = mirror /\ raced' = raced
    BY Zenon DEF Quiet
  <2>5. run'[x].seen <= source'[i]
    BY <2>1, <2>2, <2>3 DEF HoldOK
  <2>6. ASSUME NEW y \in Runners, run'[y].item = {i} PROVE run[y].item = {i}
    BY <2>6, Zenon DEF Quiet, Calm
  <2> QED BY <2>1, <2>2, <2>4, <2>5, <2>6, Zenon DEF HoldOK
<1> QED BY <1>2, <1>3, Zenon DEF HoldInv

\* What a load does to the runs.
LEMMA LoadRuns ==
    ASSUME Types, NEW x \in Runners, NEW i \in Items, Load(x, i)
    PROVE  /\ run[x].pc = "loop" /\ run[x].item = {} /\ i \in run[x].todo
           /\ run'[x].item = {i} /\ run'[x].seen = source[i]
           /\ run'[x].todo = run[x].todo /\ run'[x].job = run[x].job
           /\ run'[x].failed = run[x].failed
           /\ run'[x].alone <=> \A y \in Runners : run[y].item # {i}
           /\ \A y \in Runners \ {x} :
                /\ run'[y].item = run[y].item /\ run'[y].seen = run[y].seen
                /\ run'[y].todo = run[y].todo /\ run'[y].job = run[y].job
                /\ run'[y].failed = run[y].failed
                /\ run'[y].alone <=> run[y].alone /\ run[y].item # {i}
<1>1. \A y \in Runners : run[y] \in RunType /\ RunOK(run[y])
  BY Zenon DEF Types, Runs
<1>2. run[x].pc = "loop" /\ run[x].item = {} /\ i \in run[x].todo
  BY <1>1, Zenon DEF Load, RunOK
<1>3. /\ run'[x].item = {i} /\ run'[x].seen = source[i]
      /\ run'[x].todo = run[x].todo /\ run'[x].job = run[x].job
      /\ run'[x].failed = run[x].failed /\ run'[x].alone = (Holding(i) = {})
  BY <1>1, Zenon DEF Load, Loaded, RunType
<1>4. ASSUME NEW y \in Runners \ {x}
      PROVE  /\ run'[y].item = run[y].item /\ run'[y].seen = run[y].seen
             /\ run'[y].todo = run[y].todo /\ run'[y].job = run[y].job
             /\ run'[y].failed = run[y].failed
             /\ run'[y].alone = (run[y].alone /\ y \notin Holding(i))
  BY <1>1, Zenon DEF Load, Loaded, RunType
<1>5. \A y \in Runners : y \in Holding(i) <=> run[y].item = {i}
  BY Zenon DEF Holding
<1>6. Holding(i) \subseteq Runners
  BY Zenon DEF Holding
<1> QED BY <1>2, <1>3, <1>4, <1>5, <1>6, Zenon

LEMMA LoadHolds ==
    ASSUME Types, HoldInv, NEW x \in Runners, NEW i \in Items, Load(x, i) PROVE HoldInv'
<1>1. UNCHANGED <<source, mirror>> /\ source \in [Items -> Nat] /\ mirror \in [Items -> Nat]
  BY Zenon DEF Load, Types, Rows
<1>2. raced' = IF Holding(i) = {} THEN raced ELSE raced \cup {i}
  BY Zenon DEF Load, Loaded
<1>3. raced \subseteq raced' /\ ((\E y \in Runners : run[y].item = {i}) => i \in raced')
  BY <1>2, Zenon DEF Holding
<1>4. ASSUME NEW j \in Items PROVE HoldOK(x, j)'
  <2> SUFFICES ASSUME run'[x].item = {j}
               PROVE  /\ run'[x].seen <= source'[j]
                      /\ run'[x].alone => /\ run'[x].seen >= mirror'[j]
                                          /\ \A y \in Runners : run'[y].item = {j} => y = x
                      /\ ~run'[x].alone => j \in raced'
    BY Zenon DEF HoldOK
  <2>1. j = i /\ run'[x].seen = source[i]
    BY LoadRuns
  <2>2. mirror[i] <= source[i] /\ mirror[i] \in Nat /\ source[i] \in Nat
    BY <1>1, Zenon DEF HoldInv
  <2>3. run'[x].seen <= source'[j] /\ run'[x].seen >= mirror'[j]
    BY <1>1, <2>1, <2>2
  <2> QED BY <1>3, <2>1, <2>3, LoadRuns
<1>5. ASSUME NEW y \in Runners, y # x, NEW j \in Items PROVE HoldOK(y, j)'
  <2>1. HoldOK(y, j)
    BY Zenon DEF HoldInv
  <2> SUFFICES ASSUME run'[y].item = {j}
               PROVE  /\ run'[y].seen <= source'[j]
                      /\ run'[y].alone => /\ run'[y].seen >= mirror'[j]
                                          /\ \A z \in Runners : run'[z].item = {j} => z = y
                      /\ ~run'[y].alone => j \in raced'
    BY DEF HoldOK
  <2>2. /\ run[y].item = {j} /\ run'[y].seen = run[y].seen
        /\ run'[y].alone <=> run[y].alone /\ run[y].item # {i}
    BY <1>5, LoadRuns
  <2>3. run'[x].item = {i} /\ \A z \in Runners \ {x} : run'[z].item = run[z].item
    BY LoadRuns
  <2>4. run'[y].seen <= source'[j] /\ (run[y].alone => run'[y].seen >= mirror'[j])
    BY <1>1, <2>1, <2>2, Zenon DEF HoldOK
  <2>5. run'[y].alone => \A z \in Runners : run'[z].item = {j} => z = y
    <3> SUFFICES ASSUME run'[y].alone, NEW z \in Runners, run'[z].item = {j} PROVE z = y
      BY Zenon
    <3>1. z # x /\ run[z].item = {j} /\ run[y].alone
      BY <2>2, <2>3, Zenon
    <3> QED BY <2>1, <2>2, <3>1, Zenon DEF HoldOK
  <2>6. ~run'[y].alone => j \in raced'
    <3>1. CASE ~run[y].alone
      BY <1>3, <2>1, <2>2, <3>1, Zenon DEF HoldOK
    <3>2. CASE run[y].item = {i}
      <4>1. j \in {i} /\ i \in raced'
        BY <1>3, <2>2, <3>2, Zenon
      <4> QED BY <4>1, Zenon
    <3> QED BY <2>2, <3>1, <3>2, Zenon
  <2> QED BY <2>2, <2>4, <2>5, <2>6, Zenon
<1> QED BY <1>1, <1>4, <1>5, Zenon DEF HoldInv

\* What a sync does to the runs.
LEMMA SyncRuns ==
    ASSUME Types, NEW x \in Runners, Sync(x)
    PROVE  /\ run'[x].item = {} /\ run'[x].todo = run[x].todo \ run[x].item
           /\ run'[x].job = run[x].job /\ (run[x].failed => run'[x].failed)
           /\ \A y \in Runners \ {x} : run'[y] = run[y]
           /\ \E i \in Items :
                /\ run[x].item = {i} /\ i \in run[x].todo
                /\ mirror' = [mirror EXCEPT ![i] = run[x].seen]
                /\ raced' = IF run[x].alone THEN raced \ {i} ELSE raced
<1>1. run \in [Runners -> RunType] /\ run[x] \in RunType /\ RunOK(run[x])
  BY Zenon DEF Types, Runs
<1>2. PICK i \in run[x].todo : run[x].item = {i}
  BY <1>1, Zenon DEF Sync, RunOK
<1>3. i \in Items
  BY <1>1, <1>2, Zenon DEF RunType
<1>4. mirror' = [mirror EXCEPT ![i] = run[x].seen]
  BY <1>2, <1>3, Zenon DEF Sync, Derived, Types, Rows
<1>5. raced' = IF run[x].alone THEN raced \ {i} ELSE raced
  BY <1>2, Zenon DEF Sync
<1>6. /\ run'[x].item = {} /\ run'[x].todo = run[x].todo \ run[x].item
      /\ run'[x].job = run[x].job /\ (run[x].failed => run'[x].failed)
      /\ \A y \in Runners \ {x} : run'[y] = run[y]
  BY <1>1 DEF Sync, Visited, RunType
<1> QED BY <1>2, <1>3, <1>4, <1>5, <1>6, Zenon

LEMMA SyncHolds ==
    ASSUME Types, HoldInv, NEW x \in Runners, Sync(x) PROVE HoldInv'
<1>1. PICK i \in Items : /\ run[x].item = {i}
                         /\ mirror' = [mirror EXCEPT ![i] = run[x].seen]
                         /\ raced' = IF run[x].alone THEN raced \ {i} ELSE raced
  BY SyncRuns, Zenon
<1>2. run'[x].item = {} /\ \A y \in Runners \ {x} : run'[y] = run[y]
  BY SyncRuns, Zenon
<1>3. source' = source /\ mirror \in [Items -> Nat] /\ HoldOK(x, i)
  BY Zenon DEF Sync, Types, Rows, HoldInv
<1>4. ASSUME NEW j \in Items PROVE mirror'[j] <= source'[j]
  BY <1>1, <1>3, Zenon DEF HoldOK, HoldInv
<1>5. ASSUME NEW y \in Runners, NEW j \in Items PROVE HoldOK(y, j)'
  <2>1. CASE y = x
    BY <1>2, <2>1, Zenon DEF HoldOK
  <2>2. CASE y # x /\ j # i
    <3>1. HoldOK(y, j) /\ mirror'[j] = mirror[j] /\ (j \in raced => j \in raced')
      BY <1>1, <1>3, <2>2, Zenon DEF HoldInv
    <3> QED BY <1>2, <1>3, <2>2, <3>1, Zenon DEF HoldOK
  <2>3. CASE y # x /\ j = i
    <3>1. HoldOK(y, i) /\ run'[y] = run[y]
      BY <1>2, <2>3, Zenon DEF HoldInv
    <3>2. run[y].item = {i} => ~run[y].alone /\ ~run[x].alone /\ i \in raced
      BY <1>1, <1>3, <2>3, <3>1, Zenon DEF HoldOK
    <3> QED BY <1>1, <1>3, <2>3, <3>1, <3>2, Zenon DEF HoldOK
  <2> QED BY <2>1, <2>2, <2>3, Zenon
<1> QED BY <1>4, <1>5, Zenon DEF HoldInv

\* Every step is quiet, a load or a sync.
LEMMA StepKinds ==
    ASSUME Types, [Next]_vars
    PROVE  \/ Quiet
           \/ \E x \in Runners : Sync(x) \/ \E i \in Items : Load(x, i)
<1>1. CASE UNCHANGED vars
  BY <1>1 DEF vars, Quiet, Calm, Types, Rows
<1>2. ASSUME NEW p \in Payloads, Recover(p) PROVE Quiet
  BY <1>2 DEF Recover, Quiet, Calm, Types, Rows
<1>3. ASSUME NEW t \in Threads, Take(t) \/ ThreadEnds(t) PROVE Quiet
  BY <1>3, RunsQuiet, Zenon DEF Runners
<1>4. ASSUME NEW w \in Workers,
             (\E p \in Payloads : Claim(w, p)) \/ WorkerEnds(w) \/ WorkerDies(w)
      PROVE  Quiet
  BY <1>4, RunsQuiet, Zenon DEF Runners
<1> QED BY <1>1, <1>2, <1>3, <1>4, RequestsQuiet, RunsQuiet, CrashQuiet, Zenon DEF Next

LEMMA HoldInit == Init => HoldInv
<1> SUFFICES ASSUME Init PROVE HoldInv
  OBVIOUS
<1>1. \A x \in Runners : run[x].item = {}
  BY Zenon DEF Init, NoRun
<1>2. \A x \in Runners, i \in Items : HoldOK(x, i)
  BY <1>1, Zenon DEF HoldOK
<1> QED BY <1>2 DEF Init, HoldInv

LEMMA HoldStep == Types /\ HoldInv /\ [Next]_vars => HoldInv'
  BY TypesStep, StepKinds, QuietHolds, LoadHolds, SyncHolds, Zenon

\* The derived rows of an item go back to an older version only when two runs
\* held the item at once: _run_deferred_sync loads the row anew for every id
\* and commits before it loads the next.
THEOREM DerivedRowsForward == Spec => NeverBackwards
<1>1. ASSUME Types, HoldInv, [Next]_vars
      PROVE  [\A i \in Items : i \in raced \/ mirror'[i] >= mirror[i]]_vars
  <2>1. \A i \in Items : mirror[i] \in Nat
    BY <1>1, Zenon DEF Types, Rows
  <2>2. CASE mirror' = mirror
    BY <2>1, <2>2
  <2>3. ASSUME NEW x \in Runners, Sync(x), NEW j \in Items PROVE j \in raced \/ mirror'[j] >= mirror[j]
    <3>1. PICK i \in Items : run[x].item = {i} /\ mirror' = [mirror EXCEPT ![i] = run[x].seen]
      BY <1>1, <2>3, SyncRuns, Zenon
    <3>2. HoldOK(x, i) /\ mirror \in [Items -> Nat]
      BY <1>1, Zenon DEF HoldInv, Types, Rows
    <3> QED BY <2>1, <3>1, <3>2 DEF HoldOK
  <2>4. mirror' = mirror \/ \E x \in Runners : Sync(x)
    BY <1>1, StepKinds, Zenon DEF Quiet, Load
  <2> QED BY <2>2, <2>3, <2>4, Zenon
<1>2. Spec => [](Types /\ HoldInv)
  <2>1. Init => Types /\ HoldInv
    BY TypesInit, HoldInit, Zenon
  <2>2. Types /\ HoldInv /\ [Next]_vars => Types' /\ HoldInv'
    BY TypesStep, HoldStep, Zenon
  <2> QED BY <2>1, <2>2, PTL DEF Spec
<1>3. Types /\ HoldInv /\ [Next]_vars => [\A i \in Items : i \in raced \/ mirror'[i] >= mirror[i]]_vars
  BY <1>1, Zenon
<1> QED BY <1>2, <1>3, PTL DEF Spec, NeverBackwards

-----------------------------------------------------------------------------
(* Who will see a committed change.                                        *)

Hooked(i) == \E r \in Requests : InHook(r) /\ i \in req[r].queue

\* The job p stands for the last change of i.
Stands(p, i) ==
    /\ i \in p
    /\ \/ jobs[p].status = "queued"
       \/ /\ jobs[p].status = "running"
          /\ ~Held(p) \/ \E w \in Workers : WillSee(w, p, i)

LEMMA SureForms ==
    ASSUME NEW i \in Items
    PROVE  /\ Sure(i) <=> Hooked(i) \/ (\E p \in Payloads : Stands(p, i)) \/ i \in weak
           /\ Sure(i)' <=> Hooked(i)' \/ (\E p \in Payloads : Stands(p, i)') \/ i \in weak'
  BY Zenon DEF Sure, Covered, Hooked, Stands

\* A job goes on standing for i when neither it nor a worker's view of i changes.
LEMMA StandsKept ==
    ASSUME NEW p \in Payloads, NEW i \in Items, Stands(p, i), jobs'[p] = jobs[p],
           \A w \in Workers : run'[w].job = p => run[w].job = p,
           \A w \in Workers : WillSee(w, p, i) => WillSee(w, p, i)'
    PROVE  Stands(p, i)'
  BY Zenon DEF Stands, Held

\* Whatever stands for the last change of i goes on doing so.
Standing(i) == \A p \in Payloads : Stands(p, i) => Stands(p, i)' \/ i \in weak'

LEMMA StandingKept ==
    ASSUME Types, NEW i \in Items, UNCHANGED <<jobs, run>>, source'[i] = source[i]
    PROVE  Standing(i)
  BY Zenon DEF Standing, Stands, Held, WillSee

\* The step loses nobody who will see the last change of i, and a new change
\* has somebody.
Passes(i) == (Sure(i) => Sure(i)') /\ (source'[i] # source[i] => Sure(i)')

LEMMA OpenPasses ==
    ASSUME Types, NEW r \in Requests, NEW i \in Items,
           \/ \E j \in Items : Edit(r, j)
           \/ BeginNested(r) \/ Release(r) \/ RollbackNested(r) \/ Rollback(r)
    PROVE  Passes(i)
<1>1. UNCHANGED <<source, jobs, run, weak>>
  BY Zenon DEF Edit, BeginNested, Release, RollbackNested, Rollback
<1>2. req[r].pc \in {"idle", "open"}
  BY Zenon DEF Types, Sessions, SessionOK, Edit, BeginNested, Release, RollbackNested, Rollback
<1>3. \A q \in Requests \ {r} : req'[q] = req[q]
  BY Zenon DEF Types, Sessions, Edit, BeginNested, Release, RollbackNested, Rollback
<1>4. Hooked(i) => Hooked(i)'
  BY <1>2, <1>3, Zenon DEF Hooked, InHook
<1>5. Standing(i)
  BY <1>1, StandingKept, Zenon
<1> QED BY <1>1, <1>4, <1>5, SureForms, Zenon DEF Passes, Standing

LEMMA CommitPasses ==
    ASSUME Types, NEW r \in Requests, NEW i \in Items, Commit(r) PROVE Passes(i)
<1>1. UNCHANGED <<jobs, run>> /\ req[r].pc = "open" /\ req \in [Requests -> RequestType]
  BY Zenon DEF Commit, Types, Sessions
<1>2. i \notin req[r].edits => source'[i] = source[i]
  BY DEF Commit, Types, Rows
<1>3. i \in req[r].queue => Hooked(i)'
  BY <1>1, Zenon DEF Commit, Hooked, InHook, NoRequest
<1>4. i \notin req[r].queue /\ i \in req[r].edits => i \in weak'
  BY Zenon DEF Commit, Types, Sessions, SessionOK
<1>5. i \notin req[r].queue /\ i \in weak => i \in weak'
  BY Zenon DEF Commit
<1>6. \A q \in Requests \ {r} : req'[q] = req[q]
  BY <1>1, Zenon DEF Commit
<1>7. Hooked(i) => Hooked(i)'
  BY <1>1, <1>6, Zenon DEF Hooked, InHook
<1>8. i \notin req[r].edits => Standing(i)
  BY <1>1, <1>2, StandingKept, Zenon
<1> QED BY <1>2, <1>3, <1>4, <1>5, <1>7, <1>8, SureForms, Zenon DEF Passes, Standing

LEMMA HookPasses ==
    ASSUME Types, NEW r \in Requests, NEW i \in Items, Submit(r) \/ Enqueue(r) PROVE Passes(i)
<1>1. UNCHANGED <<source, run>> /\ InHook(r) /\ req \in [Requests -> RequestType]
  BY Zenon DEF Submit, Enqueue, InHook, Types, Sessions
<1>2. \A q \in Requests \ {r} : req'[q] = req[q]
  BY <1>1, Zenon DEF Submit, Enqueue
<1>3. CASE Submit(r)
  <2>1. UNCHANGED <<jobs, weak>> /\ req'[r].queue = req[r].queue /\ InHook(r)'
    BY <1>1, <1>3, Zenon DEF Submit, InHook, RequestType
  <2>2. Hooked(i) => Hooked(i)'
    BY <1>2, <2>1, Zenon DEF Hooked, InHook
  <2>3. Standing(i)
    BY <1>1, <2>1, StandingKept, Zenon
  <2> QED BY <1>1, <2>1, <2>2, <2>3, SureForms, Zenon DEF Passes, Standing
<1>4. CASE Enqueue(r)
  <2>0. PICK q : q = req[r].queue
    OBVIOUS
  <2>1. q \in Payloads
    BY <1>1, <1>4, <2>0, Zenon DEF Types, Sessions, SessionOK, RequestType, InHook, Payloads
  <2>2. weak \subseteq weak'
    BY <1>4, Zenon DEF Enqueue
  <2>3. ASSUME NEW p \in Payloads, Stands(p, i) PROVE Stands(p, i)'
    <3>1. jobs'[p] = jobs[p]
      BY <1>4, <2>0, <2>1, <2>3, Zenon DEF Enqueue, Stands, Types, Jobs
    <3> QED BY <1>1, <2>3, <3>1, Zenon DEF Stands, Held, WillSee
  <2>4. i \in q => i \in weak' \/ Stands(q, i)'
    <3>1. jobs \in [Payloads -> JobType] /\ jobs[q] \in JobType
      BY <2>1, Zenon DEF Types, Jobs
    <3>2. CASE weak' = weak \cup q
      BY <3>2, Zenon
    <3>3. CASE jobs[q].status \in {"none", "queued"} /\ jobs'[q].status = "queued"
      BY <3>3, Zenon DEF Stands
    <3>4. weak' = weak \cup q \/ (jobs[q].status \in {"none", "queued"} /\ jobs'[q].status = "queued")
      <4> DEFINE j == IF jobs[q].status = "none" THEN [status |-> "queued", attempts |-> 0] ELSE jobs[q]
      <4>1. CASE weak' = weak \cup q
        BY <4>1, Zenon
      <4>2. CASE /\ jobs' = [jobs EXCEPT ![q] = j]
                 /\ weak' = IF jobs[q].status = "running" THEN weak \cup q ELSE weak
        <5>1. jobs'[q] = j
          BY <2>1, <3>1, <4>2, Zenon
        <5> QED BY <3>1, <4>2, <5>1 DEF JobType
      <4> QED BY <1>4, <2>0, <4>1, <4>2, Zenon DEF Enqueue
    <3> QED BY <3>2, <3>3, <3>4, Zenon
  <2>5. Hooked(i) => Hooked(i)' \/ i \in q
    BY <1>2, <2>0, Zenon DEF Hooked, InHook
  <2> QED BY <1>1, <2>1, <2>2, <2>3, <2>4, <2>5, SureForms, Zenon DEF Passes
<1> QED BY <1>3, <1>4, Zenon

LEMMA CrashPasses ==
    ASSUME Types, NEW i \in Items, Crash PROVE Passes(i)
<1>1. UNCHANGED <<source, jobs>> /\ \A w \in Workers : run'[w] = run[w]
  BY ConstantsAssumption, Zenon DEF Crash, Runners
<1>2. Hooked(i) => i \in weak'
  BY Zenon DEF Crash, Hooked
<1>3. i \in weak => i \in weak'
  BY Zenon DEF Crash
<1>4. ASSUME NEW p \in Payloads, Stands(p, i) PROVE Stands(p, i)'
  BY <1>1, <1>4, Zenon DEF Stands, Held, WillSee
<1> QED BY <1>1, <1>2, <1>3, <1>4, SureForms, Zenon DEF Passes

\* The hooks are as they were and every job goes on standing for i.
LEMMA StandingPasses ==
    ASSUME NEW i \in Items, UNCHANGED <<source, req>>, weak \subseteq weak', Standing(i)
    PROVE  Passes(i)
<1>1. Hooked(i) => Hooked(i)'
  BY Zenon DEF Hooked, InHook
<1> QED BY <1>1, SureForms, Zenon DEF Passes, Standing

\* Runs that go on: a worker's job stays its own, and what it would have seen
\* of i it will still see.
LEMMA RunsPass ==
    ASSUME NEW i \in Items, UNCHANGED <<source, req, jobs, weak>>,
           \A w \in Workers : run'[w].job = run[w].job,
           \A w \in Workers : \A p \in Payloads : WillSee(w, p, i) => WillSee(w, p, i)'
    PROVE  Passes(i)
<1>1. ASSUME NEW p \in Payloads, Stands(p, i) PROVE Stands(p, i)'
  BY <1>1, StandsKept, Zenon
<1> QED BY <1>1, StandingPasses, Zenon DEF Standing

LEMMA ThreadPasses ==
    ASSUME Types, NEW t \in Threads, NEW i \in Items, Take(t) \/ ThreadEnds(t) PROVE Passes(i)
<1>1. \A w \in Workers : run'[w] = run[w]
  BY ConstantsAssumption, Zenon DEF Types, Runs, Runners, Take, ThreadEnds
<1>2. UNCHANGED <<source, req, jobs, weak>>
  BY Zenon DEF Take, ThreadEnds
<1>3. \A w \in Workers : \A p \in Payloads : WillSee(w, p, i) => WillSee(w, p, i)'
  BY <1>1, <1>2, Zenon DEF WillSee
<1> QED BY <1>1, <1>2, <1>3, RunsPass, Zenon

LEMMA LoadPasses ==
    ASSUME Types, NEW x \in Runners, NEW j \in Items, NEW i \in Items, Load(x, j) PROVE Passes(i)
<1>1. UNCHANGED <<source, req, jobs, weak>>
  BY Zenon DEF Load
<1>2. \A w \in Workers : w \in Runners
  BY Zenon DEF Runners
<1>3. \A w \in Workers : run'[w].job = run[w].job
  BY <1>2, LoadRuns, Zenon
<1>4. ASSUME NEW w \in Workers, NEW p \in Payloads, WillSee(w, p, i) PROVE WillSee(w, p, i)'
  <2>1. CASE w = x
    BY <1>1, <1>4, <2>1, LoadRuns DEF WillSee
  <2>2. CASE w # x
    BY <1>1, <1>2, <1>4, <2>2, LoadRuns DEF WillSee
  <2> QED BY <2>1, <2>2, Zenon
<1> QED BY <1>1, <1>3, <1>4, RunsPass, Zenon

LEMMA FailuresPass ==
    ASSUME Types, NEW x \in Runners, NEW i \in Items, LoadFails(x) \/ SyncFails(x) PROVE Passes(i)
<1>1. UNCHANGED <<source, req, jobs, weak>>
  BY Zenon DEF LoadFails, SyncFails
<1>2. run \in [Runners -> RunType] /\ run[x] \in RunType /\ \A w \in Workers : w \in Runners
  BY Zenon DEF Types, Runs, Runners
<1>3. run'[x].job = run[x].job /\ run'[x].failed
  BY <1>2 DEF LoadFails, SyncFails, Visited, RunType
<1>4. \A y \in Runners \ {x} : run'[y] = run[y]
  BY <1>2, Zenon DEF LoadFails, SyncFails, Visited
<1>5. \A w \in Workers : run'[w].job = run[w].job
  BY <1>2, <1>3, <1>4, Zenon
<1>6. \A w \in Workers : \A p \in Payloads : WillSee(w, p, i) => WillSee(w, p, i)'
  BY <1>1, <1>2, <1>3, <1>4, Zenon DEF WillSee
<1> QED BY <1>1, <1>5, <1>6, RunsPass, Zenon

LEMMA ClaimPasses ==
    ASSUME Types, NEW w \in Workers, NEW q \in Payloads, NEW i \in Items, Claim(w, q)
    PROVE  Passes(i)
<1>1. UNCHANGED <<source, req, weak>>
  BY Zenon DEF Claim
<1>2. w \in Runners /\ run[w].job = {} /\ run \in [Runners -> RunType]
  BY Zenon DEF Types, Runs, RunOK, Runners, Claim
<1>3. run'[w].job = q /\ run'[w].todo = q /\ run'[w].item = {}
  BY <1>2, Zenon DEF Claim, NoRun
<1>4. \A v \in Workers \ {w} : run'[v] = run[v]
  BY <1>2, Zenon DEF Claim, Runners
<1>5. jobs'[q].status = "running" /\ \A p \in Payloads \ {q} : jobs'[p] = jobs[p]
  BY Zenon DEF Claim, Types, Jobs
<1>6. ASSUME NEW p \in Payloads, Stands(p, i) PROVE Stands(p, i)'
  <2>1. CASE p = q
    <3>1. WillSee(w, q, i)'
      BY <1>3, <1>6, <2>1, Zenon DEF WillSee, Stands
    <3> QED BY <1>5, <1>6, <2>1, <3>1, Zenon DEF Stands
  <2>2. CASE p # q
    <3>1. jobs'[p] = jobs[p] /\ p # {}
      BY <1>5, <2>2, Zenon DEF Payloads
    <3>2. \A v \in Workers : run'[v].job = p => run[v].job = p
      BY <1>3, <1>4, <2>2, Zenon
    <3>3. \A v \in Workers : WillSee(v, p, i) => WillSee(v, p, i)'
      BY <1>1, <1>2, <1>4, <3>1, Zenon DEF WillSee
    <3> QED BY <1>6, <3>1, <3>2, <3>3, StandsKept, Zenon
  <2> QED BY <2>1, <2>2, Zenon
<1> QED BY <1>1, <1>6, StandingPasses, Zenon DEF Standing

\* A job that is not done is queued again, or is dead and on record.
LEMMA RetryStands ==
    ASSUME Types, NEW p \in Payloads, NEW i \in Items, i \in p, Retry(p, MaxAttempts)
    PROVE  Stands(p, i)' \/ i \in weak'
<1>1. jobs \in [Payloads -> JobType] /\ jobs[p] \in JobType
  BY Zenon DEF Types, Jobs
<1>2. CASE jobs[p].attempts < MaxAttempts
  <2>1. jobs'[p].status = "queued"
    BY <1>1, <1>2, Zenon DEF Retry, JobType
  <2> QED BY <2>1, Zenon DEF Stands
<1>3. CASE ~(jobs[p].attempts < MaxAttempts)
  BY <1>3, Zenon DEF Retry
<1> QED BY <1>2, <1>3, Zenon

LEMMA RecoverPasses ==
    ASSUME Types, NEW q \in Payloads, NEW i \in Items, Recover(q) PROVE Passes(i)
<1>1. UNCHANGED <<source, req, run>> /\ Retry(q, MaxAttempts) /\ weak \subseteq weak'
  BY Zenon DEF Recover, Retry
<1>2. ASSUME NEW p \in Payloads, Stands(p, i) PROVE Stands(p, i)' \/ i \in weak'
  <2>1. CASE p = q
    BY <1>1, <1>2, <2>1, RetryStands, Zenon DEF Stands
  <2>2. CASE p # q
    <3>1. jobs'[p] = jobs[p]
      BY <1>1, <2>2, RetryTypes, Zenon
    <3> QED BY <1>1, <1>2, <3>1, Zenon DEF Stands, Held, WillSee
  <2> QED BY <2>1, <2>2, Zenon
<1> QED BY <1>1, <1>2, StandingPasses, Zenon DEF Standing

LEMMA WorkerEndsPasses ==
    ASSUME Types, NEW w \in Workers, NEW i \in Items, WorkerEnds(w) PROVE Passes(i)
<1>1. PICK q : q = run[w].job
  OBVIOUS
<1>2. /\ w \in Runners /\ q \in Payloads /\ run \in [Runners -> RunType]
      /\ run[w].item = {} /\ run[w].todo = {} /\ BusyOK(w)
  BY <1>1, Zenon DEF Types, Runs, RunOK, Jobs, BusyOK, Runners, WorkerEnds
<1>3. UNCHANGED <<source, req>> /\ weak \subseteq weak' /\ run' = [run EXCEPT ![w] = NoRun]
  BY Zenon DEF WorkerEnds, Retry
<1>4. \A v \in Workers \ {w} : run'[v] = run[v] /\ run[v].job # q
  BY <1>1, <1>2, <1>3, Zenon DEF Runners, BusyOK, Payloads
<1>5. run'[w].job = {}
  BY <1>2, <1>3, Zenon DEF NoRun
<1>6. \A p \in Payloads \ {q} : jobs'[p] = jobs[p]
  <2>1. CASE run[w].failed
    BY <1>1, <1>2, <2>1, RetryTypes, Zenon DEF WorkerEnds
  <2>2. CASE ~run[w].failed
    BY <1>1, <2>2, Zenon DEF WorkerEnds, Types, Jobs
  <2> QED BY <2>1, <2>2, Zenon
<1>7. ASSUME NEW p \in Payloads, Stands(p, i) PROVE Stands(p, i)' \/ i \in weak'
  <2>1. CASE p = q /\ run[w].failed
    BY <1>1, <1>2, <1>7, <2>1, RetryStands, Zenon DEF WorkerEnds, Stands
  <2>2. CASE p = q /\ ~run[w].failed
    <3>1. Held(q) /\ jobs[q].status = "running"
      BY <1>1, <1>2, Zenon DEF Held, BusyOK, WorkerEnds
    <3>2. ~WillSee(w, q, i) /\ \A v \in Workers \ {w} : ~WillSee(v, q, i)
      BY <1>2, <1>4, <2>2, Zenon DEF WillSee
    <3> QED BY <1>7, <2>2, <3>1, <3>2, Zenon DEF Stands
  <2>3. CASE p # q
    <3>1. jobs'[p] = jobs[p] /\ p # {}
      BY <1>6, <2>3, Zenon DEF Payloads
    <3>2. \A v \in Workers : run'[v].job = p => run[v].job = p
      BY <1>4, <1>5, <3>1, Zenon
    <3>3. \A v \in Workers : WillSee(v, p, i) => WillSee(v, p, i)'
      BY <1>1, <1>3, <1>4, <2>3, Zenon DEF WillSee
    <3> QED BY <1>7, <3>1, <3>2, <3>3, StandsKept, Zenon
  <2> QED BY <2>1, <2>2, <2>3, Zenon
<1> QED BY <1>3, <1>7, StandingPasses, Zenon DEF Standing

LEMMA WorkerDiesPasses ==
    ASSUME Types, NEW w \in Workers, NEW i \in Items, WorkerDies(w) PROVE Passes(i)
<1>1. /\ w \in Runners /\ run[w].job \in Payloads /\ run \in [Runners -> RunType] /\ BusyOK(w)
      /\ jobs[run[w].job].status = "running"
  BY Zenon DEF Types, Runs, Jobs, BusyOK, Runners, WorkerDies
<1>2. UNCHANGED <<source, req, jobs, weak>> /\ run' = [run EXCEPT ![w] = NoRun]
  BY Zenon DEF WorkerDies
<1>3. \A v \in Workers \ {w} : run'[v] = run[v] /\ run[v].job # run[w].job
  BY <1>1, <1>2, Zenon DEF Runners, BusyOK, Payloads
<1>4. run'[w].job = {}
  BY <1>1, <1>2, Zenon DEF NoRun
<1>5. ASSUME NEW p \in Payloads, Stands(p, i) PROVE Stands(p, i)'
  <2>1. CASE p = run[w].job
    <3>1. ~Held(p)'
      BY <1>1, <1>3, <1>4, <2>1, Zenon DEF Held, Payloads
    <3> QED BY <1>1, <1>2, <1>5, <2>1, <3>1, Zenon DEF Stands
  <2>2. CASE p # run[w].job
    <3>1. \A v \in Workers : run'[v].job = p => run[v].job = p
      BY <1>3, <1>4, Zenon DEF Payloads
    <3>2. \A v \in Workers : WillSee(v, p, i) => WillSee(v, p, i)'
      BY <1>2, <1>3, <2>2, Zenon DEF WillSee
    <3> QED BY <1>2, <1>5, <3>1, <3>2, StandsKept, Zenon
  <2> QED BY <2>1, <2>2, Zenon
<1> QED BY <1>2, <1>5, StandingPasses, Zenon DEF Standing

\* A sync drops an item from what will be seen only when it has just shown
\* the item's last version.
LEMMA SyncStands ==
    ASSUME Types, NEW x \in Runners, NEW i \in Items, Sync(x), Sure(i),
           ~(run[x].item = {i} /\ run[x].seen = source[i])
    PROVE  Sure(i)'
<1>1. UNCHANGED <<source, req, jobs, weak>> /\ \A w \in Workers : w \in Runners
  BY Zenon DEF Sync, Runners
<1>2. Hooked(i) => Hooked(i)'
  BY <1>1, Zenon DEF Hooked, InHook
<1>3. \A w \in Workers : run'[w].job = run[w].job
  BY <1>1, SyncRuns, Zenon
<1>4. ASSUME NEW w \in Workers, NEW p \in Payloads, WillSee(w, p, i) PROVE WillSee(w, p, i)'
  <2>1. CASE w = x
    BY <1>1, <1>4, <2>1, SyncRuns, Zenon DEF WillSee
  <2>2. CASE w # x
    BY <1>1, <1>4, <2>2, SyncRuns, Zenon DEF WillSee
  <2> QED BY <2>1, <2>2, Zenon
<1>5. ASSUME NEW p \in Payloads, Stands(p, i) PROVE Stands(p, i)'
  BY <1>1, <1>3, <1>4, <1>5, StandsKept, Zenon
<1> QED BY <1>1, <1>2, <1>5, SureForms, Zenon

LEMMA QuietPasses ==
    ASSUME Types, [Next]_vars, NEW i \in Items, \A x \in Runners : ~Sync(x) PROVE Passes(i)
<1>1. CASE UNCHANGED vars
  <2>1. Standing(i) /\ UNCHANGED <<source, req, weak>>
    BY <1>1, StandingKept, Zenon DEF vars
  <2> QED BY <2>1, StandingPasses, Zenon
<1>2. ASSUME NEW w \in Workers,
             (\E p \in Payloads : Claim(w, p)) \/ WorkerEnds(w) \/ WorkerDies(w)
      PROVE  Passes(i)
  BY <1>2, ClaimPasses, WorkerEndsPasses, WorkerDiesPasses, Zenon
<1>3. ASSUME NEW x \in Runners, (\E j \in Items : Load(x, j)) \/ LoadFails(x) \/ SyncFails(x)
      PROVE  Passes(i)
  BY <1>3, LoadPasses, FailuresPass, Zenon
<1>4. ASSUME NEW r \in Requests,
             \/ \E j \in Items : Edit(r, j)
             \/ BeginNested(r) \/ Release(r) \/ RollbackNested(r)
             \/ Commit(r) \/ Rollback(r) \/ Submit(r) \/ Enqueue(r)
      PROVE  Passes(i)
  BY <1>4, OpenPasses, CommitPasses, HookPasses, Zenon
<1> QED BY <1>1, <1>2, <1>3, <1>4, CrashPasses, ThreadPasses, RecoverPasses, Zenon DEF Next

LEMMA QuietCovers ==
    ASSUME Types, CoverInv, Quiet, \A i \in Items : Passes(i) PROVE CoverInv'
<1>1. ASSUME NEW i \in Items PROVE mirror'[i] = source'[i] \/ Sure(i)' \/ i \in raced'
  BY Zenon DEF CoverInv, Quiet, Passes
<1>2. ASSUME NEW x \in Runners, NEW i \in Items PROVE Lasts(x, i)'
  <2>1. Lasts(x, i) /\ Calm(x) /\ Passes(i)
    BY Zenon DEF CoverInv, Quiet
  <2> QED BY <2>1, Zenon DEF Lasts, Calm, Passes
<1> QED BY <1>1, <1>2, Zenon DEF CoverInv

LEMMA LoadCovers ==
    ASSUME Types, CoverInv, NEW x \in Runners, NEW j \in Items, Load(x, j) PROVE CoverInv'
<1>1. \A i \in Items : Sure(i) => Sure(i)'
  BY LoadPasses, Zenon DEF Passes
<1>2. UNCHANGED <<source, mirror>> /\ raced \subseteq raced'
  BY Zenon DEF Load, Loaded
<1>3. ASSUME NEW y \in Runners, NEW i \in Items PROVE Lasts(y, i)'
  <2>1. CASE y = x
    BY <1>2, <2>1, LoadRuns DEF Lasts
  <2>2. CASE y # x
    <3>1. Lasts(y, i) /\ (Sure(i) => Sure(i)')
      BY <1>1, Zenon DEF CoverInv
    <3> QED BY <1>2, <2>2, <3>1, LoadRuns DEF Lasts
  <2> QED BY <2>1, <2>2, Zenon
<1> QED BY <1>1, <1>2, <1>3, Zenon DEF CoverInv

LEMMA SyncCovers ==
    ASSUME Types, HoldInv, CoverInv, NEW x \in Runners, Sync(x) PROVE CoverInv'
<1>1. PICK j \in Items : /\ run[x].item = {j}
                         /\ mirror' = [mirror EXCEPT ![j] = run[x].seen]
                         /\ raced' = IF run[x].alone THEN raced \ {j} ELSE raced
  BY SyncRuns, Zenon
<1>2. run'[x].item = {} /\ \A y \in Runners \ {x} : run'[y] = run[y]
  BY SyncRuns, Zenon
<1>3. source' = source /\ mirror \in [Items -> Nat]
  BY Zenon DEF Sync, Types, Rows
<1>4. \A i \in Items : Sure(i) => Sure(i)' \/ (run[x].item = {i} /\ run[x].seen = source[i])
  BY SyncStands, Zenon
<1>5. ASSUME NEW i \in Items PROVE mirror'[i] = source'[i] \/ Sure(i)' \/ i \in raced'
  <2>1. CASE i # j
    BY <1>1, <1>3, <1>4, <2>1, Zenon DEF CoverInv
  <2>2. CASE i = j
    <3>1. mirror'[j] = run[x].seen
      BY <1>1, <1>3, Zenon
    <3>2. HoldOK(x, j) /\ Lasts(x, j)
      BY Zenon DEF HoldInv, CoverInv
    <3> QED BY <1>1, <1>3, <1>4, <2>2, <3>1, <3>2, Zenon DEF HoldOK, Lasts
  <2> QED BY <2>1, <2>2, Zenon
<1>6. ASSUME NEW y \in Runners, NEW i \in Items PROVE Lasts(y, i)'
  <2>1. CASE y = x
    BY <1>2, <2>1, Zenon DEF Lasts
  <2>2. CASE y # x
    <3>1. Lasts(y, i) /\ HoldOK(y, i) /\ run'[y] = run[y]
      BY <1>2, <2>2, Zenon DEF CoverInv, HoldInv
    <3> QED BY <1>1, <1>3, <1>4, <2>2, <3>1, Zenon DEF Lasts, HoldOK
  <2> QED BY <2>1, <2>2, Zenon
<1> QED BY <1>5, <1>6, Zenon DEF CoverInv

LEMMA CoverInit == Init => CoverInv
<1> SUFFICES ASSUME Init PROVE CoverInv
  OBVIOUS
<1>1. \A x \in Runners : run[x].item = {}
  BY DEF Init, NoRun
<1>2. \A x \in Runners, i \in Items : Lasts(x, i)
  BY <1>1, Zenon DEF Lasts
<1> QED BY <1>2, Zenon DEF Init, CoverInv

LEMMA CoverStep == Types /\ HoldInv /\ CoverInv /\ [Next]_vars => CoverInv'
<1> SUFFICES ASSUME Types, HoldInv, CoverInv, [Next]_vars PROVE CoverInv'
  OBVIOUS
<1>1. CASE \E x \in Runners : Sync(x)
  BY <1>1, SyncCovers, Zenon
<1>2. CASE \E x \in Runners, i \in Items : Load(x, i)
  BY <1>2, LoadCovers, Zenon
<1>3. CASE Quiet /\ \A x \in Runners : ~Sync(x)
  BY <1>3, QuietPasses, QuietCovers, Zenon
<1> QED BY <1>1, <1>2, <1>3, StepKinds, Zenon

\* A committed change whose derived rows are out of date is covered by the
\* hook or by a durable job, or is one of those the code gives up, for any
\* number of items, requests, threads and workers and any faults.
THEOREM ChangeCovered == Spec => []ChangeIsCovered
<1>1. Init => Types /\ HoldInv /\ CoverInv
  BY TypesInit, HoldInit, CoverInit, Zenon
<1>2. Types /\ HoldInv /\ CoverInv /\ [Next]_vars => Types' /\ HoldInv' /\ CoverInv'
  BY TypesStep, HoldStep, CoverStep, Zenon
<1>3. CoverInv => ChangeIsCovered
  BY Zenon DEF CoverInv, Sure, ChangeIsCovered
<1> QED BY <1>1, <1>2, <1>3, PTL DEF Spec
=============================================================================
