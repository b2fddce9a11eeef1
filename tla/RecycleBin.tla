----------------------------- MODULE RecycleBin -----------------------------
(***************************************************************************)
(* The recycle bin (services/deletion_manager.py and the deletion routes   *)
(* of blueprints/admin/routes.py).                                         *)
(*                                                                         *)
(* A before_flush hook writes a DeletionLog with the columns of every      *)
(* supported row that a flush deletes or marks as deleted.  An admin       *)
(* restores a log: restored_at and the preview's blockers are checked, the *)
(* row is written and committed, and then the log is marked and committed  *)
(* on its own.  Logs are removed by the retention clean-up and by admins.  *)
(*                                                                         *)
(* Entities are of three kinds.  Keyed ones (deadlines, annuities, file    *)
(* links, parties, billing rows) come back under their primary key and may *)
(* be deleted softly.  Coded ones are workflows with a business_code,      *)
(* which is unique; plain ones are workflows without one.  A workflow is   *)
(* deleted for good and comes back as a new row.  The content of a row is  *)
(* a version number.  The other blockers of the preview (a missing or      *)
(* deleted matter) only refuse, which changes nothing.                     *)
(***************************************************************************)
EXTENDS Integers, Sequences

CONSTANTS
    Entities,       \* what is deleted and restored
    Admins,         \* requests to the restore routes
    MaxVersion,     \* bound: changes of a row's content
    MaxLogs,        \* bound: deletion logs
    Faults,         \* the kinds of fault that may happen
    MaxFaults       \* bound: how many of them

ASSUME ConstantsAssumption ==
    MaxVersion \in Nat /\ MaxLogs \in Nat /\ MaxFaults \in Nat

VARIABLES
    kind,       \* the kind of each entity, which never changes
    row,        \* the rows of each entity
    logs,       \* the deletion logs, in the order of their ids
    adm,        \* the restores in progress
    raced,      \* history: restores whose entity others changed after the check
    redo,       \* history: logs restored by such a restore, or left unmarked
    missing,    \* history: entities deleted without a log, or whose log was removed
    faults      \* how many faults happened

vars == <<kind, row, logs, adm, raced, redo, missing, faults>>

Kinds == {"keyed", "coded", "plain"}
Absent == -1

\* live: live rows; soft: the row is there, marked as deleted;
\* last (history): the content when the entity was last deleted.
NewRow == [live |-> 1, soft |-> FALSE, version |-> 0, last |-> 0]
\* seen, soft: the version and the mark of the row as the restore loaded it.
NoRestore == [pc |-> "idle", log |-> 0, seen |-> Absent, soft |-> FALSE]

Init ==
    /\ kind \in [Entities -> Kinds]
    /\ row = [e \in Entities |-> NewRow]
    /\ logs = <<>>
    /\ adm = [a \in Admins |-> NoRestore]
    /\ raced = {}
    /\ redo = {}
    /\ missing = {}
    /\ faults = 0

Fault(name) ==
    /\ name \in Faults
    /\ faults < MaxFaults
    /\ faults' = faults + 1

\* The admins restoring a log of e.
Restoring(e) == {a \in Admins : adm[a].pc # "idle" /\ logs[adm[a].log].entity = e}

\* There is a row, live or marked as deleted.
Exists(e) == row[e].live > 0 \/ row[e].soft

Disturbs(e) == raced' = raced \cup Restoring(e)

-----------------------------------------------------------------------------
(* Rows.                                                                   *)

\* Somebody edits a live row.
Edit(e) ==
    /\ row[e].live > 0 /\ row[e].version < MaxVersion
    /\ row' = [row EXCEPT ![e].version = @ + 1]
    /\ UNCHANGED <<kind, logs, adm, raced, redo, missing, faults>>

\* The task sync writes to a row that is marked as deleted (done_date), or
\* takes the mark away.
Stamp(e) ==
    /\ row[e].soft /\ row[e].version < MaxVersion
    /\ row' = [row EXCEPT ![e].version = @ + 1]
    /\ UNCHANGED <<kind, logs, adm, raced, redo, missing, faults>>

Revive(e) ==
    /\ row[e].soft
    /\ row' = [row EXCEPT ![e].live = 1, ![e].soft = FALSE]
    /\ Disturbs(e)
    /\ UNCHANGED <<kind, logs, adm, redo, missing, faults>>

\* The task sync creates the workflow of a docket item anew, with its code.
Recreate(e) ==
    /\ kind[e] = "coded" /\ row[e].live = 0 /\ row[e].version < MaxVersion
    /\ row' = [row EXCEPT ![e].live = 1, ![e].version = @ + 1]
    /\ Disturbs(e)
    /\ UNCHANGED <<kind, logs, adm, redo, missing, faults>>

\* A flush deletes the row or marks it as deleted.  The hook adds a log to the
\* same flush; an error in it is swallowed and the row goes without a log.
DeleteUnlogged(e, softly) ==
    /\ row[e].live > 0
    /\ softly => kind[e] = "keyed"
    /\ row' = [row EXCEPT ![e].live = @ - 1, ![e].soft = softly, ![e].last = row[e].version]
    /\ Disturbs(e)
    /\ UNCHANGED <<kind, logs, missing, adm, redo, faults>>

Delete(e, softly) ==
    /\ row[e].live > 0
    /\ softly => kind[e] = "keyed"
    /\ row' = [row EXCEPT ![e].live = @ - 1, ![e].soft = softly, ![e].last = row[e].version]
    /\ Disturbs(e)
    /\ \/ /\ Len(logs) < MaxLogs
          /\ logs' = Append(logs, [entity |-> e, version |-> row[e].version,
                                   restored |-> FALSE, gone |-> FALSE, made |-> 0])
          /\ missing' = missing \ {e}
          /\ UNCHANGED faults
       \/ /\ Fault("archive")
          /\ missing' = missing \cup {e}
          /\ UNCHANGED logs
    /\ UNCHANGED <<kind, adm, redo>>

-----------------------------------------------------------------------------
(* Logs.                                                                   *)

\* cleanup, or an admin's bulk delete, whether or not the log was restored.
Remove(l) ==
    /\ l \in DOMAIN logs /\ ~logs[l].gone
    /\ Fault("remove")
    /\ logs' = [logs EXCEPT ![l].gone = TRUE]
    /\ missing' = missing \cup {logs[l].entity}
    /\ UNCHANGED <<kind, row, adm, raced, redo>>

\* The preview's blockers: the row is live, or the business_code is taken.
Blocked(e) == kind[e] # "plain" /\ row[e].live > 0

\* A restore that passed its checks.  That of a workflow loads no row.
Checked(e, l) ==
    [NoRestore EXCEPT !.pc = IF kind[e] = "keyed" THEN "checked" ELSE "loaded", !.log = l]

\* restore_log up to the restore: the log is unrestored and nothing blocks it.
CheckUnmarked(a, l) ==
    /\ adm[a].pc = "idle"
    /\ l \in DOMAIN logs /\ ~logs[l].gone
    /\ LET e == logs[l].entity IN
       /\ ~Blocked(e)
       /\ adm' = [adm EXCEPT ![a] = Checked(e, l)]
       /\ raced' = IF Restoring(e) = {} THEN raced \ {a} ELSE raced \cup Restoring(e) \cup {a}
    /\ UNCHANGED <<kind, row, logs, redo, missing, faults>>

CheckUnblocked(a, l) ==
    /\ adm[a].pc = "idle"
    /\ l \in DOMAIN logs /\ ~logs[l].gone /\ ~logs[l].restored
    /\ LET e == logs[l].entity IN
       /\ adm' = [adm EXCEPT ![a] = Checked(e, l)]
       /\ raced' = IF Restoring(e) = {} THEN raced \ {a} ELSE raced \cup Restoring(e) \cup {a}
    /\ UNCHANGED <<kind, row, logs, redo, missing, faults>>

Check(a, l) ==
    /\ adm[a].pc = "idle"
    /\ l \in DOMAIN logs /\ ~logs[l].gone /\ ~logs[l].restored
    /\ LET e == logs[l].entity IN
       /\ ~Blocked(e)
       /\ adm' = [adm EXCEPT ![a] = Checked(e, l)]
       /\ raced' = IF Restoring(e) = {} THEN raced \ {a} ELSE raced \cup Restoring(e) \cup {a}
    /\ UNCHANGED <<kind, row, logs, redo, missing, faults>>

\* The restore looks the row up: the one the preview saw is no longer held, so
\* it is read anew, deleted or not.
Load(a) ==
    LET e == logs[adm[a].log].entity IN
    /\ adm[a].pc = "checked"
    /\ adm' = [adm EXCEPT ![a].pc = "loaded",
                          ![a].seen = IF Exists(e) THEN row[e].version ELSE Absent,
                          ![a].soft = row[e].soft]
    /\ UNCHANGED <<kind, row, logs, raced, redo, missing, faults>>

\* The row is inserted, or updated where it is to differ from what was loaded.
Upserted(e, l, x) ==
    [row EXCEPT ![e].live = IF x.seen = Absent \/ x.soft THEN 1 ELSE @,
                ![e].soft = @ /\ ~x.soft,
                ![e].version = IF x.seen = logs[l].version THEN @ ELSE logs[l].version]

\* A restored workflow is a new row.
Inserted(e, l) ==
    [row EXCEPT ![e].live = @ + 1, ![e].version = logs[l].version]

\* The flush finds the row to update, or no row where it inserts one: the
\* primary key and the business_code are unique.
Writable(e, x) ==
    \/ kind[e] = "keyed" /\ (Exists(e) <=> x.seen # Absent)
    \/ kind[e] = "coded" /\ ~Exists(e)
    \/ kind[e] = "plain"

\* _restore_deadline and its siblings: the row is written and committed.
Restore(a) ==
    LET l == adm[a].log  e == logs[l].entity IN
    /\ adm[a].pc = "loaded"
    /\ Writable(e, adm[a])
    /\ row' = IF kind[e] = "keyed" THEN Upserted(e, l, adm[a]) ELSE Inserted(e, l)
    /\ logs' = [logs EXCEPT ![l].made = @ + 1]
    /\ adm' = [adm EXCEPT ![a].pc = "written"]
    /\ redo' = IF a \in raced THEN redo \cup {l} ELSE redo
    /\ UNCHANGED <<kind, raced, missing, faults>>

\* The row to update is gone, or the key or the code is taken: the flush raises
\* and the route rolls back.
Refused(a) ==
    /\ adm[a].pc = "loaded"
    /\ ~Writable(logs[adm[a].log].entity, adm[a])
    /\ adm' = [adm EXCEPT ![a] = NoRestore]
    /\ UNCHANGED <<kind, row, logs, raced, redo, missing, faults>>

\* The log is marked in a transaction of its own; when it was removed, the
\* flush raises.
Mark(a) ==
    LET l == adm[a].log IN
    /\ adm[a].pc = "written"
    /\ logs' = IF logs[l].gone THEN logs ELSE [logs EXCEPT ![l].restored = TRUE]
    /\ adm' = [adm EXCEPT ![a] = NoRestore]
    /\ UNCHANGED <<kind, row, raced, redo, missing, faults>>

\* The request ends early: its process dies or the database fails.
Stop(a) ==
    /\ adm[a].pc # "idle"
    /\ Fault("stop")
    /\ redo' = IF adm[a].pc = "written" THEN redo \cup {adm[a].log} ELSE redo
    /\ adm' = [adm EXCEPT ![a] = NoRestore]
    /\ UNCHANGED <<kind, row, logs, raced, missing>>

-----------------------------------------------------------------------------
Next ==
    \/ \E e \in Entities :
          \/ Edit(e) \/ Stamp(e) \/ Revive(e) \/ Recreate(e)
          \/ \E softly \in BOOLEAN : Delete(e, softly)
    \/ \E l \in 1..MaxLogs : Remove(l) \/ \E a \in Admins : Check(a, l)
    \/ \E a \in Admins : Load(a) \/ Restore(a) \/ Refused(a) \/ Mark(a) \/ Stop(a)

Spec == Init /\ [][Next]_vars

-----------------------------------------------------------------------------
RowType == [live : Nat, soft : BOOLEAN, version : 0..MaxVersion, last : 0..MaxVersion]

LogType == [entity : Entities, version : 0..MaxVersion, restored : BOOLEAN,
            gone : BOOLEAN, made : Nat]

RestoreType == [pc : {"idle", "checked", "loaded", "written"}, log : 0..MaxLogs,
                seen : Absent..MaxVersion, soft : BOOLEAN]

\* Every variable has its type; in particular a keyed or coded entity has at
\* most one row.
TypeOK ==
    /\ kind \in [Entities -> Kinds]
    /\ row \in [Entities -> RowType]
    /\ \A e \in Entities : row[e].soft => kind[e] = "keyed" /\ row[e].live = 0
    /\ \A e \in Entities : kind[e] = "plain" \/ row[e].live <= 1
    /\ logs \in Seq(LogType)
    /\ Len(logs) <= MaxLogs
    /\ adm \in [Admins -> RestoreType]
    /\ \A a \in Admins : adm[a].pc # "idle" => adm[a].log \in DOMAIN logs
    /\ raced \in SUBSET Admins
    /\ redo \in SUBSET (1..MaxLogs)
    /\ missing \in SUBSET Entities
    /\ faults \in 0..MaxFaults

\* What was deleted can be got back as it was: an entity without a live row has
\* an unrestored log with the content it was last deleted with, however
\* deletions, restores and their two commits interleave.  Only an error in the
\* hook or the removal of the log takes it away.
DeletedIsArchived ==
    \A e \in Entities :
        \/ row[e].live > 0 \/ e \in missing
        \/ \E l \in DOMAIN logs :
              /\ logs[l].entity = e /\ logs[l].version = row[e].last
              /\ ~logs[l].restored /\ ~logs[l].gone

\* A log brings its row back once, unless its restore was interleaved with
\* another change of the entity or stopped before the log was marked.
RestoredOnce ==
    \A l \in DOMAIN logs : logs[l].made <= 1 \/ l \in redo

\* A restore never replaces the content of a live row, unless the entity was
\* changed by others after the restore's check.
EditsSurvive ==
    [][\A e \in Entities :
           kind[e] = "keyed" /\ row[e].live > 0 /\ Restoring(e) \cap raced = {}
               => row'[e].version >= row[e].version]_vars
=============================================================================
