----------------------------- MODULE FileAssets -----------------------------
(***************************************************************************)
(* Uploaded files: the file_asset rows, the objects in the store, the      *)
(* links from memos and letters, the asynchronous virus scan and the       *)
(* purge of assets nobody links (file_asset_service.py,                    *)
(* file_asset_scan_service.py, file_asset_scan_queue.py, case/detail.py).  *)
(*                                                                         *)
(* A row is found by the hash of its content, so a content has at most one *)
(* row; an asset is a content together with the id its row was given.  An  *)
(* upload writes the object before its transaction commits, and session    *)
(* hooks remove it after a rollback.  Virus scanning is in async mode.     *)
(***************************************************************************)
EXTENDS Naturals

CONSTANTS
    Contents,     \* what can be uploaded (its hash)
    Requests,     \* uploads, each followed by the deletion of what it linked
    Workers,      \* durable-queue workers that run file_asset.virus_scan
    Sweep,        \* the housekeeping purge
    FailOpen,     \* a scanner timeout or error counts as clean
    MaxIds,       \* bound on the rows a content is given
    MaxAttempts,  \* of a scan job
    Faults,       \* kinds of faults that may happen ("io": a call of database or store fails)
    MaxFaults

ASSUME ConstantsAssumption ==
    /\ Sweep \notin Requests /\ {"none", "queued"} \cap Workers = {}
    /\ FailOpen \in BOOLEAN /\ MaxIds \in Nat /\ MaxAttempts \in Nat /\ MaxFaults \in Nat

Ids    == 1..MaxIds
Assets == Contents \X Ids
Places == {"home", "quarantine"}
Paths  == Places \X Contents

VARIABLES
    infected, \* the contents the scanner rejects
    row,      \* the committed row of each content; id 0: none
    ids,      \* ids given to each content so far
    files,    \* objects in the store
    links,    \* committed links <<request, asset>>
    pc, tx,   \* each request and its session
    purge,    \* what each purger has read of the asset it is purging
    job, att, \* the durable job of each asset, by its dedupe key, and its attempts
    scan,     \* what each worker is doing
    torn,     \* contents that were being deleted or moved while a transaction used them
    lost,     \* assets whose scan request was dropped
    left,     \* contents whose object a dead process left behind
    faults

storeVars == <<row, ids, files, links>>
procVars  == <<pc, tx>>
jobVars   == <<job, att>>
histVars  == <<lost, left>>
vars == <<infected, storeVars, procVars, purge, jobVars, scan, histVars, torn, faults>>

NoRow == [id |-> 0, place |-> "home", scan |-> "disabled"]

\* The session: hashes it has locked, assets it will link, contents it has inserted, rows it has set
\* to pending_scan, the asset it is saving, objects it has saved
\* (_file_asset_pending_uploads), scans it will enqueue (after-commit specs),
\* the object its clean-up is about to delete, and where it goes on after that.
NoTx == [held |-> {}, assets |-> {}, fresh |-> {}, upd |-> {}, cur |-> {}, trk |-> {}, enq |-> {},
         cut |-> {}, after |-> "done"]

Init ==
    /\ infected \in SUBSET Contents
    /\ row = [c \in Contents |-> NoRow] /\ ids = [c \in Contents |-> 0]
    /\ files = {} /\ links = {}
    /\ pc = [r \in Requests |-> "idle"] /\ tx = [r \in Requests |-> NoTx]
    /\ purge = [p \in Requests \union {Sweep} |-> {}]
    /\ job = [a \in Assets |-> "none"] /\ att = [a \in Assets |-> 0]
    /\ scan = [w \in Workers |-> {}]
    /\ torn = {} /\ lost = {} /\ left = {} /\ faults = 0

AssetOf(c) == <<c, row[c].id>>
HasRow(a)  == row[a[1]].id = a[2]
Linked(a)  == \E r \in Requests : <<r, a>> \in links
Uses(r, c) == \E i \in Ids : <<c, i>> \in tx[r].assets
RowLocked(a) == \E r \in Requests : a \in tx[r].upd

Fault(kind) == kind \in Faults /\ faults < MaxFaults /\ faults' = faults + 1

Goto(r, label) == pc' = [pc EXCEPT ![r] = label]
-----------------------------------------------------------------------------
(* stage_upload, once per file of a request. *)

\* _upsert_file_asset under the advisory lock of the hash, which is held until
\* the transaction ends, and ensure_file_asset_scan_pending: an infected row
\* rejects the file, a failed or unscanned one is set to pending_scan.
Stage(r, a, place, more) ==
    /\ tx' = [tx EXCEPT ![r] = [more EXCEPT !.held = @ \union {a[1]}, !.assets = @ \union {a},
                                            !.cur = {[asset |-> a, place |-> place]}]]
    /\ Goto(r, "saving")

UpsertNew(r, c) ==
    LET a == <<c, ids[c] + 1>>
    IN  /\ row[c].id = 0 /\ ids[c] < MaxIds
        /\ ids' = [ids EXCEPT ![c] = @ + 1]
        /\ Stage(r, a, "home", [tx[r] EXCEPT !.fresh = @ \union {c}, !.enq = @ \union {a}])

\* (Mutated form: a failed scan is to be repeated, but nothing is enqueued.)
UpsertWithoutScan(r, c) ==
    /\ row[c].id # 0 /\ UNCHANGED ids
    /\ Stage(r, AssetOf(c), row[c].place, [tx[r] EXCEPT !.upd = @ \union {AssetOf(c)}])
UpsertExisting(r, c) ==
    LET a == AssetOf(c)
    IN  /\ row[c].id # 0 /\ UNCHANGED ids
        /\ \/ /\ row[c].scan = "infected"
              /\ tx' = [tx EXCEPT ![r].held = @ \union {c}]
              /\ Goto(r, "open")
           \/ /\ row[c].scan = "clean"
              /\ Stage(r, a, row[c].place, tx[r])
           \/ /\ row[c].scan \in {"pending_scan", "scanning"}
              /\ Stage(r, a, row[c].place, [tx[r] EXCEPT !.enq = @ \union {a}])
           \/ /\ row[c].scan \in {"disabled", "scan_error"}
              /\ Stage(r, a, row[c].place, [tx[r] EXCEPT !.enq = @ \union {a}, !.upd = @ \union {a}])

Upsert(r, c) ==
    /\ pc[r] \in {"idle", "open"}
    /\ \A q \in Requests : c \notin tx[q].held
    /\ UpsertNew(r, c) \/ UpsertExisting(r, c)
    /\ UNCHANGED <<row, files, links, purge, jobVars, scan, histVars, faults>>

\* The object is written if the row is new or its object is missing, and tracked.
Save(r) ==
    /\ pc[r] = "saving"
    /\ \E s \in tx[r].cur :
         LET path == <<s.place, s.asset[1]>>
             save == s.asset[1] \in tx[r].fresh \/ path \notin files
         IN  /\ files' = IF save THEN files \union {path} ELSE files
             /\ tx' = [tx EXCEPT ![r].cur = {}, ![r].trk = IF save THEN @ \union {path} ELSE @]
    /\ Goto(r, "open")
    /\ UNCHANGED <<row, ids, links, purge, jobVars, scan, histVars, faults>>
-----------------------------------------------------------------------------
(* The end of the transaction and its session hooks. *)

\* After the hooks _cleanup_request_db rolls the session back once more.
AfterHooks(r, enq) == Goto(r, IF enq = {} THEN "cleaning" ELSE "hooks")

\* Rows, pending_scan marks and links become visible.  In the after_commit hook
\* the session still reports a transaction, and
\* _clear_pending_file_asset_uploads keeps the saved objects.
Commit(r) ==
    /\ pc[r] = "open"
    /\ row' = [c \in Contents |->
                 IF c \in tx[r].fresh
                 THEN [id |-> CHOOSE i \in Ids : <<c, i>> \in tx[r].assets,
                       place |-> "home", scan |-> "pending_scan"]
                 ELSE IF AssetOf(c) \in tx[r].upd THEN [row[c] EXCEPT !.scan = "pending_scan"]
                 ELSE row[c]]
    /\ links' = links \union ({r} \X tx[r].assets)
    /\ tx' = [tx EXCEPT ![r] = [NoTx EXCEPT !.trk = tx[r].trk, !.enq = tx[r].enq, !.after = "linked"]]
    /\ AfterHooks(r, tx[r].enq)
    /\ UNCHANGED <<ids, files, purge, jobVars, scan, histVars, faults>>

\* _drain_after_commit_enqueues: an active job with the dedupe key is kept, and
\* an exception is swallowed.
\* (Mutated form: the specs are dropped.)
EnqueueNothing(r, a) ==
    /\ pc[r] = "hooks" /\ a \in tx[r].enq
    /\ tx' = [tx EXCEPT ![r].enq = @ \ {a}] /\ AfterHooks(r, tx[r].enq \ {a})
    /\ UNCHANGED <<storeVars, purge, jobVars, scan, histVars, faults>>
EnqueueScan(r, a) ==
    /\ pc[r] = "hooks" /\ a \in tx[r].enq
    /\ tx' = [tx EXCEPT ![r].enq = @ \ {a}] /\ AfterHooks(r, tx[r].enq \ {a})
    /\ \/ /\ job' = [job EXCEPT ![a] = IF @ = "none" THEN "queued" ELSE @]
          /\ lost' = lost \ {a} /\ UNCHANGED faults
       \/ Fault("io") /\ UNCHANGED job /\ lost' = lost \union {a}
    /\ UNCHANGED <<storeVars, purge, att, scan, left>>

\* An exception, a rejected form or a deadlock ends the transaction.
\* (Mutated form: the tracked objects are forgotten.)
RollbackUntracked(r) ==
    /\ pc[r] \in {"open", "saving"}
    /\ tx' = [tx EXCEPT ![r] = NoTx]
    /\ Goto(r, "cleaning")
    /\ UNCHANGED <<storeVars, purge, jobVars, scan, histVars, faults>>
Rollback(r) ==
    /\ pc[r] \in {"open", "saving"}
    /\ tx' = [tx EXCEPT ![r] = [NoTx EXCEPT !.trk = tx[r].trk]]
    /\ Goto(r, "cleaning")
    /\ UNCHANGED <<storeVars, purge, jobVars, scan, histVars, faults>>

\* A savepoint after the upload is rolled back and the error swallowed
\* (_try_save_notice_citations_and_ids): the after_rollback hooks run although
\* the transaction goes on.
SavepointFails(r) ==
    /\ pc[r] = "open" /\ tx[r].assets # {} /\ Fault("savepoint")
    /\ tx' = [tx EXCEPT ![r].enq = {}, ![r].after = "open"]
    /\ lost' = lost \union tx[r].enq
    /\ Goto(r, "cleaning")
    /\ UNCHANGED <<storeVars, purge, jobVars, scan, left>>

\* _cleanup_pending_file_asset_uploads, on a connection of its own: is there a
\* committed row with this path?
\* (Mutated form: the check is left out.)
CleanUnchecked(r, path) ==
    /\ pc[r] = "cleaning" /\ path \in tx[r].trk /\ tx[r].cut = {}
    /\ tx' = [tx EXCEPT ![r].trk = @ \ {path}, ![r].cut = {path}]
    /\ UNCHANGED <<storeVars, pc, purge, jobVars, scan, histVars, faults>>
CleanCheck(r, path) ==
    /\ pc[r] = "cleaning" /\ path \in tx[r].trk /\ tx[r].cut = {}
    /\ LET used == row[path[2]].id # 0 /\ row[path[2]].place = path[1]
       IN  tx' = [tx EXCEPT ![r].trk = @ \ {path}, ![r].cut = IF used THEN {} ELSE {path}]
    /\ UNCHANGED <<storeVars, pc, purge, jobVars, scan, histVars, faults>>

CleanDelete(r, path) ==
    /\ pc[r] = "cleaning" /\ path \in tx[r].cut
    /\ tx' = [tx EXCEPT ![r].cut = {}]
    /\ \/ files' = files \ {path} /\ UNCHANGED <<left, faults>>
       \/ Fault("io") /\ UNCHANGED files /\ left' = left \union {path[2]}
    /\ UNCHANGED <<row, ids, links, pc, purge, jobVars, scan, lost>>

CleanEnd(r) ==
    /\ pc[r] = "cleaning" /\ tx[r].trk = {} /\ tx[r].cut = {}
    /\ Goto(r, tx[r].after)
    /\ UNCHANGED <<storeVars, tx, purge, jobVars, scan, histVars, faults>>

\* The web process dies: the database rolls back, no hook runs.
Crash(r) ==
    /\ pc[r] \in {"open", "saving", "hooks", "cleaning"} /\ Fault("crash")
    /\ LET committed == pc[r] = "hooks" \/ tx[r].after = "linked"
       IN  /\ Goto(r, IF committed THEN "linked" ELSE "done")
           /\ lost' = IF committed THEN lost \union {a \in tx[r].enq : job[a] = "none"} ELSE lost
           /\ left' = IF committed THEN left ELSE left \union {path[2] : path \in tx[r].trk \union tx[r].cut}
    /\ tx' = [tx EXCEPT ![r] = NoTx]
    /\ UNCHANGED <<storeVars, purge, jobVars, scan>>
-----------------------------------------------------------------------------
(* Deleting a memo or letter, and the purge of assets nobody links. *)

\* What a deletion has still to purge.
ToPurge(r, A) ==
    /\ tx' = [tx EXCEPT ![r] = [NoTx EXCEPT !.enq = A]]
    /\ Goto(r, IF A = {} THEN "done" ELSE "purging")

\* memo_delete: the links go with the memo, then each asset is purged if orphaned.
Unlink(r) ==
    /\ pc[r] = "linked"
    /\ ToPurge(r, {a \in Assets : <<r, a>> \in links})
    /\ links' = {l \in links : l[1] # r}
    /\ UNCHANGED <<row, ids, files, purge, jobVars, scan, histVars, faults>>

MayPurge(p, a) == p # Sweep => pc[p] = "purging" /\ a \in tx[p].enq

Forget(p, a) == IF p = Sweep THEN UNCHANGED procVars ELSE ToPurge(p, tx[p].enq \ {a})

\* purge_if_orphan, up to backend.exists: the row, the four link tables, the object.
PurgeCheck(p, a) ==
    /\ purge[p] = {} /\ MayPurge(p, a)
    /\ \/ /\ HasRow(a) /\ ~Linked(a)
          /\ LET path == <<row[a[1]].place, a[1]>>
             IN  purge' = [purge EXCEPT ![p] = {[asset |-> a, path |-> path, del |-> path \in files]}]
          /\ UNCHANGED procVars
       \/ /\ ~HasRow(a) \/ Linked(a)
          /\ p # Sweep /\ Forget(p, a) /\ UNCHANGED purge
    /\ UNCHANGED <<storeVars, jobVars, scan, histVars, faults>>

\* The object is deleted first; if that fails the purge ends ...
PurgeFile(p) ==
    /\ \E s \in purge[p] :
         /\ s.del
         /\ \/ /\ files' = files \ {s.path}
               /\ purge' = [purge EXCEPT ![p] = {[s EXCEPT !.del = FALSE]}]
               /\ UNCHANGED <<procVars, faults>>
            \/ /\ Fault("io") /\ UNCHANGED files
               /\ purge' = [purge EXCEPT ![p] = {}] /\ Forget(p, s.asset)
    /\ UNCHANGED <<row, ids, links, jobVars, scan, histVars>>

\* ... then the row, by id; the DELETE waits for a transaction that updated it,
\* and may fail.
PurgeRow(p) ==
    /\ \E s \in purge[p] :
         /\ ~s.del /\ ~RowLocked(s.asset)
         /\ \/ HasRow(s.asset) /\ row' = [row EXCEPT ![s.asset[1]] = NoRow] /\ UNCHANGED faults
            \/ ~HasRow(s.asset) /\ UNCHANGED <<row, faults>>
            \/ Fault("io") /\ UNCHANGED row
         /\ Forget(p, s.asset)
    /\ purge' = [purge EXCEPT ![p] = {}]
    /\ UNCHANGED <<ids, files, links, jobVars, scan, histVars>>
-----------------------------------------------------------------------------
(* run_file_asset_virus_scan, the handler of the scan job; s is the worker's *)
(* progress: the asset, the place it read from the row, and the next step.  *)

At(w, s, step) == scan' = [scan EXCEPT ![w] = {[s EXCEPT !.step = step]}]

\* The queue hands the job to a worker: what DurableQueue promises of its claim.
Claim(w, a) ==
    /\ scan[w] = {} /\ job[a] = "queued"
    /\ job' = [job EXCEPT ![a] = w] /\ att' = [att EXCEPT ![a] = @ + 1]
    /\ scan' = [scan EXCEPT ![w] = {[asset |-> a, place |-> "home", step |-> "read"]}]
    /\ UNCHANGED <<storeVars, procVars, purge, histVars, faults>>

\* A missing or infected row ends the job; otherwise it will be marked as scanning.
\* (Mutated form: an infected row is scanned again.)
ScanReadAny(w, s) ==
    /\ s.step = "read"
    /\ IF HasRow(s.asset) THEN At(w, [s EXCEPT !.place = row[s.asset[1]].place], "start") ELSE At(w, s, "succeed")
    /\ UNCHANGED <<storeVars, procVars, purge, jobVars, histVars, faults>>
ScanRead(w, s) ==
    /\ s.step = "read"
    /\ LET r == row[s.asset[1]]
       IN  \/ HasRow(s.asset) /\ r.scan # "infected" /\ At(w, [s EXCEPT !.place = r.place], "start")
           \/ (~HasRow(s.asset) \/ r.scan = "infected") /\ At(w, s, "succeed")
    /\ UNCHANGED <<storeVars, procVars, purge, jobVars, histVars, faults>>

\* An UPDATE by id that does not look at the status (_set_scan_status).
SetRow(a, place, status) ==
    /\ ~RowLocked(a)
    /\ row' = IF HasRow(a) THEN [row EXCEPT ![a[1]] = [id |-> a[2], place |-> place, scan |-> status]]
              ELSE row

ScanStart(w, s) ==
    /\ s.step = "start"
    /\ SetRow(s.asset, row[s.asset[1]].place, "scanning")
    /\ At(w, s, "scanning")
    /\ UNCHANGED <<ids, files, links, procVars, purge, jobVars, histVars, faults>>

\* The scanner is given the object at the path the row has now; it may fail.
Readable(a) == HasRow(a) /\ <<row[a[1]].place, a[1]>> \in files

\* (Mutated form: a missing object passes.)
VerdictMissingPasses(w, s) ==
    /\ s.step = "scanning"
    /\ At(w, s, IF Readable(s.asset) /\ s.asset[1] \in infected THEN "move" ELSE "clean")
    /\ UNCHANGED <<storeVars, procVars, purge, jobVars, histVars, faults>>
Verdict(w, s) ==
    /\ s.step = "scanning"
    /\ \/ Readable(s.asset) /\ s.asset[1] \in infected /\ At(w, s, "move") /\ UNCHANGED faults
       \/ Readable(s.asset) /\ s.asset[1] \notin infected /\ At(w, s, "clean") /\ UNCHANGED faults
       \/ Readable(s.asset) /\ Fault("scanner") /\ At(w, s, IF FailOpen THEN "clean" ELSE "scan_error")
       \/ ~Readable(s.asset) /\ At(w, s, "scan_error") /\ UNCHANGED faults
    /\ UNCHANGED <<storeVars, procVars, purge, jobVars, histVars>>

\* After an error the exception goes on to the queue.
WriteStatus(w, s) ==
    /\ s.step \in {"clean", "scan_error"}
    /\ SetRow(s.asset, row[s.asset[1]].place, s.step)
    /\ At(w, s, IF s.step = "clean" THEN "succeed" ELSE "fail")
    /\ UNCHANGED <<ids, files, links, procVars, purge, jobVars, histVars, faults>>

\* _quarantine_infected_asset: the object is moved from the path read at the
\* start, then the row follows.
MoveAway(w, s) ==
    /\ s.step = "move"
    /\ \/ /\ <<s.place, s.asset[1]>> \in files
          /\ files' = (files \ {<<s.place, s.asset[1]>>}) \union {<<"quarantine", s.asset[1]>>}
          /\ At(w, [s EXCEPT !.place = "quarantine"], "infected")
       \/ <<s.place, s.asset[1]>> \notin files /\ UNCHANGED files /\ At(w, s, "infected")
    /\ UNCHANGED <<row, ids, links, procVars, purge, jobVars, histVars, faults>>

WriteInfected(w, s) ==
    /\ s.step = "infected"
    /\ SetRow(s.asset, s.place, "infected")
    /\ At(w, s, "succeed")
    /\ UNCHANGED <<ids, files, links, procVars, purge, jobVars, histVars, faults>>

Unscanned(a) == HasRow(a) /\ row[a[1]].scan \in {"pending_scan", "scanning"}

\* A transaction has set the row to pending_scan, and a savepoint rollback has
\* dropped its request for the scan.
Dropped(a) == \E r \in Requests : a \in tx[r].upd \ tx[r].enq

\* mark_succeeded and mark_failed, refused unless the job is the worker's.
Settle(w, s) ==
    LET a == s.asset
        retry == s.step = "fail" /\ att[a] < MaxAttempts
    IN  /\ s.step \in {"succeed", "fail"}
        /\ scan' = [scan EXCEPT ![w] = {}]
        /\ \/ job[a] # w /\ UNCHANGED <<jobVars, lost>>
           \/ /\ job[a] = w
              /\ job' = [job EXCEPT ![a] = IF retry THEN "queued" ELSE "none"]
              /\ att' = [att EXCEPT ![a] = IF retry THEN @ ELSE 0]
              /\ lost' = IF ~retry /\ (Unscanned(a) \/ Dropped(a)) THEN lost \union {a} ELSE lost
        /\ UNCHANGED <<storeVars, procVars, purge, left, faults>>

\* A worker dies, or only its lock is lost; the job is recovered.
Recover(w, s) ==
    /\ job[s.asset] = w
    /\ job' = [job EXCEPT ![s.asset] = "queued"]
    /\ \/ Fault("worker") /\ scan' = [scan EXCEPT ![w] = {}]
       \/ Fault("overlap") /\ UNCHANGED scan
    /\ UNCHANGED <<storeVars, procVars, purge, att, histVars>>
-----------------------------------------------------------------------------
Request(r) ==
    \/ Save(r) \/ CleanEnd(r)
    \/ \E a \in Assets : EnqueueScan(r, a)
    \/ \E path \in Paths : CleanCheck(r, path) \/ CleanDelete(r, path)

Choice(r) == Commit(r) \/ Rollback(r)

Purge(p) == PurgeFile(p) \/ PurgeRow(p) \/ \E a \in Assets : PurgeCheck(p, a)

Scan(w) == \/ \E a \in Assets : Claim(w, a)
           \/ \E s \in scan[w] : \/ ScanRead(w, s) \/ ScanStart(w, s) \/ Verdict(w, s) \/ WriteStatus(w, s)
                                 \/ MoveAway(w, s) \/ WriteInfected(w, s) \/ Settle(w, s)

\* A purge, a clean-up or a quarantine is deleting or moving what a transaction uses.
Overlap(c) ==
    /\ \E r \in Requests : Uses(r, c)
    /\ \/ \E p \in Requests \union {Sweep} : \E s \in purge[p] : s.asset[1] = c
       \/ \E q \in Requests : \E path \in tx[q].cut : path[2] = c
       \/ \E w \in Workers : \E s \in scan[w] : s.asset[1] = c /\ s.step = "infected"

Step ==
    \/ \E r \in Requests : \/ Request(r) \/ Choice(r) \/ Unlink(r) \/ SavepointFails(r) \/ Crash(r)
                           \/ \E c \in Contents : Upsert(r, c)
    \/ \E p \in Requests \union {Sweep} : Purge(p)
    \/ \E w \in Workers : Scan(w) \/ \E s \in scan[w] : Recover(w, s)

NoteOverlap ==
    /\ torn' = torn \union {c \in Contents : Overlap(c)'}
    /\ UNCHANGED infected

Next == Step /\ NoteOverlap

Spec == Init /\ [][Next]_vars

\* Requests and queue workers run to their end; whether a handler commits is
\* its choice, and no deletion need go on.
FairSpec ==
    /\ Spec
    /\ \A r \in Requests : WF_vars((Request(r) \/ Choice(r)) /\ NoteOverlap)
    /\ \A w \in Workers : WF_vars(Scan(w) /\ NoteOverlap)
-----------------------------------------------------------------------------
(* Properties. *)

TxType == [held : SUBSET Contents, assets : SUBSET Assets, fresh : SUBSET Contents, upd : SUBSET Assets,
           cur : SUBSET [asset : Assets, place : Places], trk : SUBSET Paths, enq : SUBSET Assets,
           cut : SUBSET Paths, after : {"done", "open", "linked"}]

Statuses == {"disabled", "pending_scan", "scanning", "clean", "infected", "scan_error"}

Steps == {"read", "start", "scanning", "clean", "scan_error", "move", "infected", "succeed", "fail"}

RowType  == [id : 0..MaxIds, place : Places, scan : Statuses]
ScanType == [asset : Assets, place : Places, step : Steps]

\* Rows, sessions, jobs and workers have their types.
TypeOK ==
    /\ infected \subseteq Contents
    /\ row \in [Contents -> RowType]
    /\ ids \in [Contents -> 0..MaxIds]
    /\ files \subseteq Paths /\ links \subseteq Requests \X Assets
    /\ pc \in [Requests -> {"idle", "saving", "open", "hooks", "cleaning", "linked", "purging", "done"}]
    /\ tx \in [Requests -> TxType]
    /\ purge \in [Requests \union {Sweep} -> SUBSET [asset : Assets, path : Paths, del : BOOLEAN]]
    /\ job \in [Assets -> {"none", "queued"} \union Workers]
    /\ att \in [Assets -> Nat]
    /\ scan \in [Workers -> SUBSET ScanType]
    /\ torn \subseteq Contents /\ lost \subseteq Assets /\ left \subseteq Contents
    /\ faults \in Nat

\* What a memo or letter links is there, row and object, through any order of
\* duplicate uploads, rollbacks, deletions, purges and scans, unless a
\* purge, clean-up or quarantine that had begun overlapped with an upload.
LinkedHasFile ==
    \A r \in Requests, a \in Assets :
        <<r, a>> \in links /\ a[1] \notin torn
            => HasRow(a) /\ \E place \in Places : <<place, a[1]>> \in files

\* "race-safe operations" taken literally: whatever overlaps.
LinkedAlwaysHasFile ==
    \A r \in Requests, a \in Assets :
        <<r, a>> \in links => HasRow(a) /\ \E place \in Places : <<place, a[1]>> \in files

\* No object is left in the store without a row, except by a process that died
\* or under an overlap: the after_rollback hook finds every object that the
\* rolled-back transaction had written.
NoOrphans ==
    \A c \in Contents : <<"home", c>> \in files /\ row[c].id = 0 =>
        \/ c \in torn \union left
        \/ \E r \in Requests : Uses(r, c) \/ <<"home", c>> \in tx[r].trk \union tx[r].cut

\* An asset waiting for its scan has an active job, a request that will enqueue
\* it or a worker that is at it; the job is lost only when its process dies,
\* when a savepoint rollback drops it, when it cannot be inserted, or when it was
\* taken for granted while the last attempt of an older job was ending.
PendingIsQueued ==
    \A a \in Assets : Unscanned(a) =>
        \/ job[a] # "none" \/ a \in lost
        \/ \E r \in Requests : pc[r] = "hooks" /\ a \in tx[r].enq
        \/ \E w \in Workers : \E s \in scan[w] :
              s.asset = a /\ s.step \in {"scanning", "clean", "scan_error", "move", "infected"}

\* An infected content can never be read, whatever scans overlap, fail or are
\* repeated, and however often it is uploaded again.
InfectedIsBlocked ==
    ~FailOpen => \A c \in infected : row[c].id # 0 => row[c].scan \notin {"clean", "disabled"}

\* An infected verdict is final while the row exists: no late or repeated scan
\* and no new upload overwrites it (as long as the queue does not run the job
\* twice at a time).
InfectedIsFinal ==
    [][\A c \in Contents : row[c].scan = "infected" /\ row'[c].id = row[c].id
          => row'[c].scan = "infected"]_vars

Waits(c) == Unscanned(AssetOf(c)) /\ AssetOf(c) \notin lost

\* A content that waits for its scan gets a verdict or is purged, unless the
\* job was lost.
ScanSettles == \A c \in Contents : Waits(c) ~> ~Waits(c)
=============================================================================
