-------------------------- MODULE RecycleBinProofs --------------------------
(***************************************************************************)
(* The recycle bin for any entities, admins and bounds, with any of the    *)
(* faults: what was deleted stays archived, a log brings its row back once *)
(* and a restore does not overwrite a live row, with the exceptions the    *)
(* history variables name.                                                 *)
(***************************************************************************)
EXTENDS RecycleBin, SequenceTheorems, TLAPS

\* a restores the log l.
Busy(a, l) == adm[a].pc # "idle" /\ adm[a].log = l

\* The log l has what e was last deleted with, and no restore of l will mark
\* it without having made e live.
Archives(l, e) ==
    /\ logs[l].entity = e /\ logs[l].version = row[e].last
    /\ ~logs[l].restored /\ ~logs[l].gone
    /\ \A a \in Admins : Busy(a, l) =>
          /\ adm[a].pc # "written"
          /\ adm[a].pc = "loaded" /\ kind[e] = "keyed" => adm[a].seen = Absent \/ adm[a].soft

ArchiveOf(e) == row[e].live > 0 \/ e \in missing \/ \E l \in DOMAIN logs : Archives(l, e)

\* Two restores of one entity know that they race.
Meet(a, b) ==
    a # b /\ adm[a].pc # "idle" /\ adm[b].pc # "idle"
          /\ logs[adm[a].log].entity = logs[adm[b].log].entity => a \in raced /\ b \in raced

\* A restore that does not race, and has not written yet: its row is still
\* away and its log was not used before.
Lone(a) ==
    adm[a].pc \in {"checked", "loaded"} /\ a \notin raced =>
        /\ kind[logs[adm[a].log].entity] # "plain" => row[logs[adm[a].log].entity].live = 0
        /\ logs[adm[a].log].made = 0 \/ adm[a].log \in redo

\* A log that was used once is marked, removed, or about to be marked.
UsedOnce(l) ==
    \/ l \in redo \/ logs[l].made = 0
    \/ /\ logs[l].made = 1
       /\ logs[l].restored \/ logs[l].gone \/ \E a \in Admins : Busy(a, l) /\ adm[a].pc = "written"

BinInv ==
    /\ TypeOK
    /\ \A e \in Entities : ArchiveOf(e)
    /\ \A a, b \in Admins : Meet(a, b)
    /\ \A a \in Admins : Lone(a)
    /\ \A l \in DOMAIN logs : UsedOnce(l)

LEMMA BinInit == Init => BinInv
<1> SUFFICES ASSUME Init PROVE BinInv
  OBVIOUS
<1>1. logs \in Seq(LogType) /\ Len(logs) = 0 /\ DOMAIN logs = {}
  BY EmptySeq, LenProperties DEF Init
<1>2. TypeOK
  BY <1>1, ConstantsAssumption
  DEF Init, TypeOK, NewRow, NoRestore, RowType, RestoreType, Absent
<1>3. ASSUME NEW e \in Entities PROVE ArchiveOf(e)
  BY DEF Init, ArchiveOf, NewRow
<1>4. ASSUME NEW a \in Admins, NEW b \in Admins PROVE Meet(a, b) /\ Lone(a)
  BY Zenon DEF Init, Meet, Lone, NoRestore
<1> QED BY <1>1, <1>2, <1>3, <1>4, Zenon DEF BinInv

-----------------------------------------------------------------------------
(* What the types say of logs and restores.                                *)

LEMMA LogTyped ==
    ASSUME TypeOK, NEW l \in DOMAIN logs
    PROVE  l \in 1..Len(logs) /\ l \in 1..MaxLogs /\ logs[l] \in LogType
<1>1. logs \in Seq(LogType) /\ Len(logs) <= MaxLogs
  BY Zenon DEF TypeOK
<1>2. l \in 1..Len(logs) /\ Len(logs) \in Nat
  BY <1>1, LenProperties, Zenon
<1>3. logs[l] \in LogType
  BY <1>1, <1>2, ElementOfSeq, Zenon
<1> QED BY <1>1, <1>2, <1>3, ConstantsAssumption

LEMMA BusyTyped ==
    ASSUME TypeOK, NEW a \in Admins, adm[a].pc # "idle"
    PROVE  /\ adm[a].log \in DOMAIN logs /\ adm[a].log \in 1..MaxLogs
           /\ logs[adm[a].log] \in LogType /\ logs[adm[a].log].entity \in Entities
           /\ adm[a] \in RestoreType
<1>1. adm[a].log \in DOMAIN logs /\ adm[a] \in RestoreType
  BY Zenon DEF TypeOK
<1> QED BY <1>1, LogTyped, Zenon DEF LogType

\* One log changes.
LEMMA LogSet ==
    ASSUME TypeOK, NEW l \in DOMAIN logs, NEW x \in LogType, logs' = [logs EXCEPT ![l] = x]
    PROVE  /\ logs' \in Seq(LogType) /\ Len(logs') <= MaxLogs /\ DOMAIN logs' = DOMAIN logs
           /\ \A k \in DOMAIN logs : logs'[k] = IF k = l THEN x ELSE logs[k]
<1>1. logs \in Seq(LogType) /\ Len(logs) <= MaxLogs /\ l \in 1..Len(logs)
  BY LogTyped, Zenon DEF TypeOK
<1>2. logs' \in Seq(LogType) /\ Len(logs') = Len(logs)
  BY <1>1, ExceptSeq
<1> QED BY <1>1, <1>2, Zenon

\* A log is added.
LEMMA LogAdded ==
    ASSUME TypeOK, NEW x \in LogType, Len(logs) < MaxLogs, logs' = Append(logs, x)
    PROVE  /\ logs' \in Seq(LogType) /\ Len(logs') <= MaxLogs
           /\ DOMAIN logs' = DOMAIN logs \cup {Len(logs) + 1} /\ Len(logs) + 1 \notin DOMAIN logs
           /\ \A k \in DOMAIN logs : logs'[k] = logs[k]
           /\ logs'[Len(logs) + 1] = x
<1>1. logs \in Seq(LogType) /\ DOMAIN logs = 1..Len(logs) /\ Len(logs) \in Nat
  BY LenProperties, Zenon DEF TypeOK
<1>2. /\ logs' \in Seq(LogType) /\ Len(logs') = Len(logs) + 1
      /\ \A k \in 1..Len(logs) : logs'[k] = logs[k]
      /\ logs'[Len(logs) + 1] = x
  BY <1>1, AppendProperties
<1>3. DOMAIN logs' = 1..Len(logs')
  BY <1>2, LenProperties, Zenon
<1> QED BY <1>1, <1>2, <1>3, ConstantsAssumption

-----------------------------------------------------------------------------
(* Type correctness, action by action.                                     *)

\* What a step on the rows of e must show of them.
RowFits(e) ==
    /\ row' \in [Entities -> RowType]
    /\ \A d \in Entities \ {e} : row'[d] = row[d]
    /\ row'[e].soft => kind[e] = "keyed" /\ row'[e].live = 0
    /\ kind[e] = "plain" \/ row'[e].live <= 1

LEMMA RowTyped ==
    ASSUME TypeOK, NEW e \in Entities
    PROVE  /\ row[e] \in RowType
           /\ row[e].soft => kind[e] = "keyed" /\ row[e].live = 0
           /\ kind[e] = "plain" \/ row[e].live <= 1
           /\ kind[e] \in Kinds
BY Zenon DEF TypeOK

LEMMA RowFitsAll ==
    ASSUME TypeOK, NEW e \in Entities, RowFits(e), kind' = kind
    PROVE  /\ \A d \in Entities : row'[d].soft => kind'[d] = "keyed" /\ row'[d].live = 0
           /\ \A d \in Entities : kind'[d] = "plain" \/ row'[d].live <= 1
BY Zenon DEF TypeOK, RowFits

\* A step outside the restores.
LEMMA TypeRow ==
    ASSUME TypeOK, NEW e \in Entities, RowFits(e), kind' = kind, adm' = adm, redo' = redo,
           raced' \subseteq Admins, missing' \subseteq Entities, faults' \in 0..MaxFaults,
           logs' \in Seq(LogType), Len(logs') <= MaxLogs, DOMAIN logs \subseteq DOMAIN logs'
    PROVE  TypeOK'
<1>1. row' \in [Entities -> RowType]
  BY Zenon DEF RowFits
<1>2. \A a \in Admins : adm'[a].pc # "idle" => adm'[a].log \in DOMAIN logs'
  BY Zenon DEF TypeOK
<1> QED BY <1>1, <1>2, RowFitsAll, Zenon DEF TypeOK

LEMMA FaultTyped ==
    ASSUME TypeOK, NEW k, Fault(k)
    PROVE  faults' \in 0..MaxFaults
BY ConstantsAssumption DEF TypeOK, Fault

LEMMA EditTypes ==
    ASSUME TypeOK, NEW e \in Entities, Edit(e) \/ Stamp(e) \/ Revive(e) \/ Recreate(e)
    PROVE  /\ TypeOK' /\ RowFits(e)
           /\ row'[e].last = row[e].last
           /\ row'[e].live = row[e].live \/ (row'[e].live = 1 /\ Disturbs(e))
           /\ row'[e].version >= row[e].version
<1>1. kind' = kind /\ adm' = adm /\ redo' = redo /\ logs' = logs /\ missing' = missing /\ faults' = faults
  BY Zenon DEF Edit, Stamp, Revive, Recreate
<1>2. raced' \subseteq Admins
  BY Zenon DEF Edit, Stamp, Revive, Recreate, Disturbs, Restoring, TypeOK
<1>3. /\ RowFits(e) /\ row'[e].last = row[e].last
      /\ row'[e].live = row[e].live \/ (row'[e].live = 1 /\ Disturbs(e))
      /\ row'[e].version >= row[e].version
  <2>0. row[e] \in RowType /\ row[e].version \in 0..MaxVersion /\ row[e].live \in Nat
    BY RowTyped, Zenon DEF RowType
  <2>1. CASE Edit(e) \/ Stamp(e)
    <3> DEFINE x == [row[e] EXCEPT !.version = @ + 1]
    <3>1. row' = [row EXCEPT ![e] = x] /\ row[e].version < MaxVersion
      BY <2>1, Zenon DEF Edit, Stamp
    <3>2. row[e].version + 1 \in 0..MaxVersion
      BY <2>0, <3>1, ConstantsAssumption
    <3>3. /\ x \in RowType /\ (x.soft <=> row[e].soft) /\ x.live = row[e].live /\ x.last = row[e].last
          /\ x.version = row[e].version + 1
      BY <2>0, <3>2, Zenon DEF RowType
    <3> HIDE DEF x
    <3>4. RowFits(e) /\ row'[e] = x
      BY <3>1, <3>3, RowTyped, Zenon DEF RowFits, TypeOK
    <3>5. row'[e].version >= row[e].version
      BY <2>0, <3>3, <3>4
    <3>6. row'[e].live = row[e].live /\ row'[e].last = row[e].last
      BY <3>3, <3>4, Zenon
    <3> QED BY <3>4, <3>5, <3>6, Zenon
  <2>2. CASE Revive(e)
    <3> DEFINE x == [row[e] EXCEPT !.live = 1, !.soft = FALSE]
    <3>1. row' = [row EXCEPT ![e] = x] /\ Disturbs(e)
      BY <2>2, Zenon DEF Revive
    <3>2. /\ x \in RowType /\ ~x.soft /\ x.live = 1 /\ x.last = row[e].last
          /\ x.version = row[e].version
      BY <2>0, Zenon DEF RowType
    <3> HIDE DEF x
    <3>3. RowFits(e) /\ row'[e] = x
      BY <3>1, <3>2 DEF RowFits, TypeOK
    <3> QED BY <2>0, <3>1, <3>2, <3>3
  <2>3. CASE Recreate(e)
    <3> DEFINE x == [row[e] EXCEPT !.live = 1, !.version = @ + 1]
    <3>1. row' = [row EXCEPT ![e] = x] /\ row[e].version < MaxVersion /\ kind[e] = "coded" /\ Disturbs(e)
      BY <2>3, Zenon DEF Recreate
    <3>2. row[e].version + 1 \in 0..MaxVersion
      BY <2>0, <3>1, ConstantsAssumption
    <3>3. /\ x \in RowType /\ (x.soft <=> row[e].soft) /\ x.live = 1 /\ x.last = row[e].last
          /\ x.version = row[e].version + 1
      BY <2>0, <3>2, Zenon DEF RowType
    <3>4. ~row[e].soft
      BY <3>1, RowTyped, Zenon
    <3> HIDE DEF x
    <3>5. RowFits(e) /\ row'[e] = x
      BY <3>1, <3>3, <3>4 DEF RowFits, TypeOK
    <3> QED BY <2>0, <3>1, <3>3, <3>5
  <2> QED BY <2>1, <2>2, <2>3, Zenon
<1> QED BY <1>1, <1>2, <1>3, TypeRow, Zenon DEF TypeOK

\* The row of a deletion.
LEMMA DeleteRow ==
    ASSUME TypeOK, NEW e \in Entities, NEW softly \in BOOLEAN, Delete(e, softly)
    PROVE  /\ RowFits(e) /\ row'[e].last = row[e].version
           /\ row'[e].live = row[e].live - 1 /\ row'[e].version = row[e].version
<1> DEFINE x == [row[e] EXCEPT !.live = @ - 1, !.soft = softly, !.last = row[e].version]
<1>1. row' = [row EXCEPT ![e] = x] /\ row[e].live > 0 /\ (softly => kind[e] = "keyed")
  BY Zenon DEF Delete
<1>2. /\ x \in RowType /\ (x.soft <=> softly) /\ x.live = row[e].live - 1 /\ x.last = row[e].version
      /\ x.version = row[e].version
  <2>1. row[e].live - 1 \in Nat /\ row[e] \in RowType
    BY <1>1, RowTyped DEF RowType
  <2> QED BY <2>1, Zenon DEF RowType
<1> HIDE DEF x
<1>3. x.live <= row[e].live /\ (row[e].live <= 1 => x.live = 0)
  BY <1>1, <1>2, RowTyped DEF RowType
<1>4. kind[e] = "plain" \/ x.live <= 1
  BY <1>2, <1>3, RowTyped DEF RowType
<1>5. x.soft => kind[e] = "keyed" /\ x.live = 0
  BY <1>1, <1>2, <1>3, RowTyped, Zenon
<1> QED BY <1>1, <1>2, <1>4, <1>5, Zenon DEF RowFits, TypeOK

NewLog(e) ==
    [entity |-> e, version |-> row[e].version, restored |-> FALSE, gone |-> FALSE, made |-> 0]

LEMMA NewLogTyped ==
    ASSUME TypeOK, NEW e \in Entities
    PROVE  NewLog(e) \in LogType
BY Zenon DEF TypeOK, RowType, LogType, NewLog

LEMMA DeleteTypes ==
    ASSUME TypeOK, NEW e \in Entities, NEW softly \in BOOLEAN, Delete(e, softly)
    PROVE  TypeOK'
<1>1. kind' = kind /\ adm' = adm /\ redo' = redo
  BY Zenon DEF Delete
<1>2. raced' \subseteq Admins
  BY Zenon DEF Delete, Disturbs, Restoring, TypeOK
<1>3. CASE Len(logs) < MaxLogs /\ logs' = Append(logs, NewLog(e)) /\ missing' = missing \ {e}
           /\ faults' = faults
  <2>1. logs' \in Seq(LogType) /\ Len(logs') <= MaxLogs /\ DOMAIN logs \subseteq DOMAIN logs'
    BY <1>3, LogAdded, NewLogTyped, Zenon
  <2> QED BY <1>1, <1>2, <1>3, <2>1, DeleteRow, TypeRow, Zenon DEF TypeOK
<1>4. CASE Fault("archive") /\ missing' = missing \cup {e} /\ logs' = logs
  BY <1>1, <1>2, <1>4, DeleteRow, TypeRow, FaultTyped, Zenon DEF TypeOK
<1> QED BY <1>3, <1>4, Zenon DEF Delete, NewLog

LEMMA RemoveTypes ==
    ASSUME TypeOK, NEW l \in 1..MaxLogs, Remove(l)
    PROVE  /\ TypeOK' /\ l \in DOMAIN logs
           /\ DOMAIN logs' = DOMAIN logs
           /\ \A k \in DOMAIN logs :
                 /\ logs'[k].entity = logs[k].entity /\ logs'[k].version = logs[k].version
                 /\ logs'[k].restored = logs[k].restored /\ logs'[k].made = logs[k].made
                 /\ logs'[k].gone = (IF k = l THEN TRUE ELSE logs[k].gone)
<1> DEFINE x == [logs[l] EXCEPT !.gone = TRUE]
<1>1. l \in DOMAIN logs /\ logs[l] \in LogType
  BY LogTyped, Zenon DEF Remove
<1>2. x \in LogType /\ x.entity = logs[l].entity /\ x.version = logs[l].version
      /\ x.restored = logs[l].restored /\ x.made = logs[l].made /\ x.gone = TRUE
  BY <1>1, Zenon DEF LogType
<1>3. logs' = [logs EXCEPT ![l] = x]
  BY Zenon DEF Remove
<1> HIDE DEF x
<1>4. /\ logs' \in Seq(LogType) /\ Len(logs') <= MaxLogs /\ DOMAIN logs' = DOMAIN logs
      /\ \A k \in DOMAIN logs : logs'[k] = IF k = l THEN x ELSE logs[k]
  BY <1>1, <1>2, <1>3, LogSet, Zenon
<1>5. kind' = kind /\ adm' = adm /\ redo' = redo /\ raced' = raced /\ row' = row
      /\ missing' = missing \cup {logs[l].entity} /\ faults' \in 0..MaxFaults
  BY FaultTyped, Zenon DEF Remove
<1>6. logs[l].entity \in Entities
  BY <1>1, Zenon DEF LogType
<1>7. TypeOK'
  BY <1>4, <1>5, <1>6, Zenon DEF TypeOK
<1> QED BY <1>1, <1>2, <1>4, <1>7, Zenon

\* What a step of the restore a must show of it.
AdmFits(a) ==
    /\ adm' \in [Admins -> RestoreType]
    /\ \A b \in Admins \ {a} : adm'[b] = adm[b]
    /\ adm'[a].pc # "idle" => adm'[a].log \in DOMAIN logs

\* A step of a restore that leaves the rows and the logs alone.
LEMMA TypeAdm ==
    ASSUME TypeOK, NEW a \in Admins, AdmFits(a), kind' = kind, row' = row, logs' = logs,
           raced' \subseteq Admins, redo' \subseteq 1..MaxLogs, missing' = missing,
           faults' \in 0..MaxFaults
    PROVE  TypeOK'
<1>1. \A b \in Admins : adm'[b].pc # "idle" => adm'[b].log \in DOMAIN logs
  BY Zenon DEF TypeOK, AdmFits
<1> QED BY <1>1, Zenon DEF TypeOK, AdmFits

LEMMA Idles ==
    ASSUME TypeOK, NEW a \in Admins, adm' = [adm EXCEPT ![a] = NoRestore]
    PROVE  AdmFits(a) /\ adm'[a].pc = "idle"
<1>1. NoRestore \in RestoreType /\ NoRestore.pc = "idle"
  BY ConstantsAssumption DEF NoRestore, RestoreType, Absent
<1> QED BY <1>1, Zenon DEF TypeOK, AdmFits

LEMMA CheckTypes ==
    ASSUME TypeOK, NEW a \in Admins, NEW l \in 1..MaxLogs, Check(a, l)
    PROVE  /\ TypeOK' /\ AdmFits(a) /\ l \in DOMAIN logs /\ logs[l].entity \in Entities
           /\ adm'[a].pc \in {"checked", "loaded"} /\ adm'[a].log = l
           /\ adm'[a].pc = "loaded" => kind[logs[l].entity] # "keyed"
<1> DEFINE x == Checked(logs[l].entity, l)
<1>1. l \in DOMAIN logs /\ logs[l].entity \in Entities
  BY LogTyped, Zenon DEF Check, LogType
<1>2. x \in RestoreType /\ x.pc \in {"checked", "loaded"} /\ x.log = l
      /\ (x.pc = "loaded" => kind[logs[l].entity] # "keyed")
  <2>1. Absent \in Absent..MaxVersion /\ l \in 0..MaxLogs
    BY ConstantsAssumption DEF Absent
  <2>2. CASE kind[logs[l].entity] = "keyed"
    <3>1. x = [pc |-> "checked", log |-> l, seen |-> Absent, soft |-> FALSE]
      <4>1. x = [NoRestore EXCEPT !.pc = "checked", !.log = l]
        BY <2>2, Zenon DEF Checked
      <4> HIDE DEF x
      <4> QED BY <4>1, Zenon DEF NoRestore
    <3> HIDE DEF x
    <3> QED BY <2>1, <2>2, <3>1, Zenon DEF RestoreType
  <2>3. CASE kind[logs[l].entity] # "keyed"
    <3>1. x = [pc |-> "loaded", log |-> l, seen |-> Absent, soft |-> FALSE]
      <4>1. x = [NoRestore EXCEPT !.pc = "loaded", !.log = l]
        BY <2>3, Zenon DEF Checked
      <4> HIDE DEF x
      <4> QED BY <4>1, Zenon DEF NoRestore
    <3> HIDE DEF x
    <3> QED BY <2>1, <2>3, <3>1, Zenon DEF RestoreType
  <2> QED BY <2>2, <2>3, Zenon
<1>3. adm' = [adm EXCEPT ![a] = x]
  BY Zenon DEF Check
<1> HIDE DEF x
<1>4. AdmFits(a) /\ adm'[a] = x
  BY <1>1, <1>2, <1>3, Zenon DEF AdmFits, TypeOK
<1>5. raced' \subseteq Admins
  BY Zenon DEF Check, TypeOK, Restoring
<1>6. kind' = kind /\ row' = row /\ logs' = logs /\ redo' = redo /\ missing' = missing /\ faults' = faults
  BY Zenon DEF Check
<1>7. redo' \subseteq 1..MaxLogs /\ faults' \in 0..MaxFaults
  BY <1>6, Zenon DEF TypeOK
<1> QED BY <1>1, <1>2, <1>4, <1>5, <1>6, <1>7, TypeAdm, Zenon

LEMMA LoadTypes ==
    ASSUME TypeOK, NEW a \in Admins, Load(a)
    PROVE  /\ TypeOK' /\ AdmFits(a)
           /\ adm'[a].pc = "loaded" /\ adm'[a].log = adm[a].log
           /\ row[logs[adm[a].log].entity].live = 0 => adm'[a].seen = Absent \/ adm'[a].soft
<1> DEFINE e == logs[adm[a].log].entity
           v == IF Exists(e) THEN row[e].version ELSE Absent
           x == [adm[a] EXCEPT !.pc = "loaded", !.seen = v, !.soft = row[e].soft]
<1>1. adm[a].log \in DOMAIN logs /\ e \in Entities /\ adm[a] \in RestoreType
  BY BusyTyped, Zenon DEF Load
<1>2. v \in Absent..MaxVersion /\ row[e].soft \in BOOLEAN
  BY <1>1, RowTyped, ConstantsAssumption DEF RowType, Absent
<1>3. row[e].live = 0 => v = Absent \/ row[e].soft
  BY DEF Exists
<1>4. adm' = [adm EXCEPT ![a] = x]
  BY Zenon DEF Load
<1> HIDE DEF v, e
<1>5. x \in RestoreType /\ x.pc = "loaded" /\ x.log = adm[a].log /\ x.seen = v /\ (x.soft <=> row[e].soft)
  BY <1>1, <1>2, Zenon DEF RestoreType
<1> HIDE DEF x
<1>6. AdmFits(a) /\ adm'[a] = x
  BY <1>1, <1>4, <1>5, Zenon DEF AdmFits, TypeOK
<1>7. kind' = kind /\ row' = row /\ logs' = logs /\ raced' = raced /\ redo' = redo
      /\ missing' = missing /\ faults' = faults
  BY Zenon DEF Load
<1>8. TypeOK'
  BY <1>6, <1>7, TypeAdm, Zenon DEF TypeOK
<1> QED BY <1>3, <1>5, <1>6, <1>8, Zenon DEF e

LEMMA RefusedTypes ==
    ASSUME TypeOK, NEW a \in Admins, Refused(a)
    PROVE  TypeOK' /\ AdmFits(a) /\ adm'[a].pc = "idle"
BY Idles, TypeAdm, Zenon DEF Refused, TypeOK

LEMMA StopTypes ==
    ASSUME TypeOK, NEW a \in Admins, Stop(a)
    PROVE  TypeOK' /\ AdmFits(a) /\ adm'[a].pc = "idle"
<1>1. AdmFits(a) /\ adm'[a].pc = "idle"
  BY Idles, Zenon DEF Stop
<1>2. redo' \subseteq 1..MaxLogs
  BY BusyTyped, Zenon DEF Stop, TypeOK
<1>3. faults' \in 0..MaxFaults
  BY FaultTyped, Zenon DEF Stop
<1> QED BY <1>1, <1>2, <1>3, TypeAdm, Zenon DEF Stop, TypeOK

LEMMA MarkTypes ==
    ASSUME TypeOK, NEW a \in Admins, Mark(a)
    PROVE  /\ TypeOK' /\ AdmFits(a) /\ adm'[a].pc = "idle"
           /\ adm[a].log \in DOMAIN logs /\ DOMAIN logs' = DOMAIN logs
           /\ \A k \in DOMAIN logs :
                 /\ logs'[k].entity = logs[k].entity /\ logs'[k].version = logs[k].version
                 /\ logs'[k].made = logs[k].made /\ (logs'[k].gone <=> logs[k].gone)
                 /\ logs'[k].restored <=> logs[k].restored \/ (k = adm[a].log /\ ~logs[k].gone)
<1> DEFINE l == adm[a].log
           x == [logs[l] EXCEPT !.restored = TRUE]
<1>1. l \in DOMAIN logs /\ logs[l] \in LogType
  BY BusyTyped, Zenon DEF Mark
<1>2. AdmFits(a) /\ adm'[a].pc = "idle"
  BY Idles, Zenon DEF Mark
<1>3. kind' = kind /\ row' = row /\ raced' = raced /\ redo' = redo /\ missing' = missing /\ faults' = faults
  BY Zenon DEF Mark
<1>4. CASE logs[l].gone
  <2>1. logs' = logs
    BY <1>4, Zenon DEF Mark
  <2>2. TypeOK'
    BY <1>2, <1>3, <2>1, TypeAdm, Zenon DEF TypeOK
  <2> QED BY <1>1, <1>2, <1>4, <2>1, <2>2, Zenon
<1>5. CASE ~logs[l].gone
  <2>1. logs' = [logs EXCEPT ![l] = x]
    BY <1>5, Zenon DEF Mark
  <2>2. x \in LogType /\ x.entity = logs[l].entity /\ x.version = logs[l].version
        /\ x.made = logs[l].made /\ (x.gone <=> logs[l].gone) /\ x.restored
    BY <1>1, Zenon DEF LogType
  <2> HIDE DEF x
  <2>3. /\ logs' \in Seq(LogType) /\ Len(logs') <= MaxLogs /\ DOMAIN logs' = DOMAIN logs
        /\ \A k \in DOMAIN logs : logs'[k] = IF k = l THEN x ELSE logs[k]
    BY <1>1, <2>1, <2>2, LogSet, Zenon
  <2>4. \A b \in Admins : adm'[b].pc # "idle" => adm'[b].log \in DOMAIN logs'
    BY <1>2, <2>3, Zenon DEF AdmFits, TypeOK
  <2>5. TypeOK'
    BY <1>2, <1>3, <2>3, <2>4, Zenon DEF TypeOK, AdmFits
  <2> QED BY <1>1, <1>2, <1>5, <2>2, <2>3, <2>5, Zenon
<1> QED BY <1>4, <1>5, Zenon

\* The row a restore writes.
LEMMA RestoreRow ==
    ASSUME TypeOK, NEW a \in Admins, Restore(a)
    PROVE  LET e == logs[adm[a].log].entity IN
           /\ e \in Entities /\ RowFits(e) /\ row'[e].last = row[e].last
           /\ kind[e] = "keyed" =>
                 row'[e].live = (IF adm[a].seen = Absent \/ adm[a].soft THEN 1 ELSE row[e].live)
           /\ kind[e] # "keyed" => row'[e].live = row[e].live + 1
<1> DEFINE l == adm[a].log
           e == logs[l].entity
<1>1. e \in Entities /\ logs[l] \in LogType /\ adm[a] \in RestoreType
  BY BusyTyped, Zenon DEF Restore
<1>2. logs[l].version \in 0..MaxVersion /\ adm[a].soft \in BOOLEAN
  BY <1>1, Zenon DEF LogType, RestoreType
<1>3. Writable(e, adm[a])
  BY Zenon DEF Restore
<1>4. row[e] \in RowType /\ row[e].live \in Nat /\ row[e].soft \in BOOLEAN /\ row[e].version \in 0..MaxVersion
  BY <1>1, RowTyped, Zenon DEF RowType
<1>5. CASE kind[e] = "keyed"
  <2> DEFINE n == IF adm[a].seen = Absent \/ adm[a].soft THEN 1 ELSE row[e].live
             s == row[e].soft /\ ~adm[a].soft
             v == IF adm[a].seen = logs[l].version THEN row[e].version ELSE logs[l].version
             x == [row[e] EXCEPT !.live = n, !.soft = s, !.version = v]
  <2>1. row' = [row EXCEPT ![e] = x]
    BY <1>5, Zenon DEF Restore, Upserted
  <2>2. n \in Nat /\ s \in BOOLEAN /\ v \in 0..MaxVersion
    BY <1>2, <1>4, Zenon
  <2>3. n <= 1 /\ (s => n = 0)
    <3>1. row[e].soft => row[e].live = 0
      BY <1>1, RowTyped, Zenon
    <3>2. row[e].live <= 1
      BY <1>1, <1>5, RowTyped, Zenon
    <3>3. adm[a].seen = Absent => ~row[e].soft
      BY <1>3, <1>5, Zenon DEF Writable, Exists
    <3>4. CASE adm[a].seen = Absent \/ adm[a].soft
      <4>1. n = 1 /\ ~s
        BY <3>3, <3>4, Zenon
      <4> HIDE DEF n, s
      <4> QED BY <4>1
    <3>5. CASE ~(adm[a].seen = Absent \/ adm[a].soft)
      <4>1. n = row[e].live /\ (s => row[e].soft)
        BY <3>5, Zenon
      <4> QED BY <3>1, <3>2, <4>1, Zenon
    <3> QED BY <3>4, <3>5, Zenon
  <2> HIDE DEF n, s, v
  <2>4. x \in RowType /\ (x.soft <=> s) /\ x.live = n /\ x.last = row[e].last
    BY <1>4, <2>2, Zenon DEF RowType
  <2> HIDE DEF x
  <2>5. row'[e] = x /\ RowFits(e)
    BY <1>1, <1>5, <2>1, <2>3, <2>4, Zenon DEF RowFits, TypeOK
  <2> QED BY <1>1, <1>5, <2>4, <2>5, Zenon DEF n
<1>6. CASE kind[e] # "keyed"
  <2>0. row[e].live + 1 \in Nat
    <3> HIDE DEF e
    <3> QED BY <1>4
  <2> DEFINE x == [row[e] EXCEPT !.live = row[e].live + 1, !.version = logs[l].version]
  <2>1. row' = [row EXCEPT ![e] = x]
    BY <1>6, Zenon DEF Restore, Inserted
  <2>3. x \in RowType /\ (x.soft <=> row[e].soft) /\ x.live = row[e].live + 1 /\ x.last = row[e].last
    BY <1>2, <1>4, <2>0, Zenon DEF RowType
  <2> HIDE DEF x
  <2>4. ~row[e].soft
    BY <1>1, <1>6, RowTyped, Zenon
  <2>5. kind[e] = "plain" \/ x.live <= 1
    <3>1. kind[e] = "plain" \/ ~(row[e].live > 0)
      BY <1>3, <1>6, Zenon DEF Writable, Exists
    <3> HIDE DEF e
    <3> QED BY <1>4, <2>3, <3>1
  <2>6. row'[e] = x /\ RowFits(e)
    BY <1>1, <2>1, <2>3, <2>4, <2>5, Zenon DEF RowFits, TypeOK
  <2> QED BY <1>1, <1>6, <2>3, <2>6, Zenon
<1> QED BY <1>5, <1>6, Zenon

LEMMA RestoreTypes ==
    ASSUME TypeOK, NEW a \in Admins, Restore(a)
    PROVE  /\ TypeOK' /\ AdmFits(a)
           /\ adm'[a].pc = "written" /\ adm'[a].log = adm[a].log
           /\ adm[a].log \in DOMAIN logs /\ DOMAIN logs' = DOMAIN logs
           /\ \A k \in DOMAIN logs :
                 /\ logs'[k].entity = logs[k].entity /\ logs'[k].version = logs[k].version
                 /\ (logs'[k].restored <=> logs[k].restored) /\ (logs'[k].gone <=> logs[k].gone)
                 /\ logs'[k].made = IF k = adm[a].log THEN logs[k].made + 1 ELSE logs[k].made
<1> DEFINE l == adm[a].log
           x == [logs[l] EXCEPT !.made = logs[l].made + 1]
           y == [adm[a] EXCEPT !.pc = "written"]
<1>1. l \in DOMAIN logs /\ l \in 1..MaxLogs /\ logs[l] \in LogType /\ adm[a] \in RestoreType
  BY BusyTyped, Zenon DEF Restore
<1>2. logs' = [logs EXCEPT ![l] = x] /\ adm' = [adm EXCEPT ![a] = y]
  BY Zenon DEF Restore
<1>3. x \in LogType /\ x.entity = logs[l].entity /\ x.version = logs[l].version
      /\ x.made = logs[l].made + 1 /\ (x.gone <=> logs[l].gone) /\ (x.restored <=> logs[l].restored)
  <2>1. logs[l].made + 1 \in Nat
    BY <1>1 DEF LogType
  <2> QED BY <1>1, <2>1, Zenon DEF LogType
<1>4. y \in RestoreType /\ y.pc = "written" /\ y.log = l
  BY <1>1, Zenon DEF RestoreType
<1> HIDE DEF x, y
<1>5. /\ logs' \in Seq(LogType) /\ Len(logs') <= MaxLogs /\ DOMAIN logs' = DOMAIN logs
      /\ \A k \in DOMAIN logs : logs'[k] = IF k = l THEN x ELSE logs[k]
  BY <1>1, <1>2, <1>3, LogSet, Zenon
<1>6. AdmFits(a) /\ adm'[a] = y
  BY <1>1, <1>2, <1>4, Zenon DEF AdmFits, TypeOK
<1>7. kind' = kind /\ raced' = raced /\ missing' = missing /\ faults' = faults
      /\ redo' \subseteq 1..MaxLogs
  BY <1>1, Zenon DEF Restore, TypeOK
<1>8. \A b \in Admins : adm'[b].pc # "idle" => adm'[b].log \in DOMAIN logs'
  BY <1>1, <1>4, <1>5, <1>6, Zenon DEF AdmFits, TypeOK
<1>9. TypeOK'
  BY <1>5, <1>6, <1>7, <1>8, RestoreRow, RowFitsAll, Zenon DEF TypeOK, AdmFits, RowFits
<1> QED BY <1>1, <1>3, <1>4, <1>5, <1>6, <1>9, Zenon

-----------------------------------------------------------------------------
(* Deletions and the other steps outside the restores.                     *)

\* Old logs stay as they are.
LogsKept == DOMAIN logs \subseteq DOMAIN logs' /\ \A k \in DOMAIN logs : logs'[k] = logs[k]

\* A step on the rows of e leaves all the rest as it is.
LEMMA Apart ==
    ASSUME BinInv, NEW e \in Entities, RowFits(e), LogsKept, kind' = kind, adm' = adm, redo' = redo,
           missing \ {e} \subseteq missing', raced \subseteq raced',
           row'[e].live = row[e].live \/ Disturbs(e)
    PROVE  /\ \A d \in Entities \ {e} : ArchiveOf(d)'
           /\ \A a, b \in Admins : Meet(a, b)'
           /\ \A a \in Admins : Lone(a)'
           /\ \A l \in DOMAIN logs : UsedOnce(l)'
<1>1. TypeOK
  BY Zenon DEF BinInv
<1>2. ASSUME NEW d \in Entities \ {e} PROVE ArchiveOf(d)'
  <2>1. ArchiveOf(d) /\ row'[d] = row[d] /\ (d \in missing => d \in missing')
    BY Zenon DEF BinInv, RowFits
  <2>2. ASSUME NEW l \in DOMAIN logs, Archives(l, d) PROVE Archives(l, d)'
    BY <2>1, <2>2, Zenon DEF Archives, Busy, LogsKept
  <2> QED BY <2>1, <2>2, Zenon DEF ArchiveOf, LogsKept
<1>3. ASSUME NEW a \in Admins, adm[a].pc # "idle"
      PROVE  adm[a].log \in DOMAIN logs /\ logs[adm[a].log].entity \in Entities
             /\ logs'[adm[a].log] = logs[adm[a].log]
  BY <1>1, <1>3, BusyTyped, Zenon DEF LogsKept
<1>4. ASSUME NEW a \in Admins, NEW b \in Admins PROVE Meet(a, b)'
  <2>1. Meet(a, b)
    BY Zenon DEF BinInv
  <2> QED BY <1>3, <2>1, Zenon DEF Meet
<1>5. ASSUME NEW a \in Admins PROVE Lone(a)'
  <2> DEFINE d == logs[adm[a].log].entity
  <2>0. SUFFICES ASSUME adm[a].pc \in {"checked", "loaded"}, a \notin raced' PROVE Lone(a)'
    BY Zenon DEF Lone
  <2>1. d \in Entities /\ logs'[adm[a].log] = logs[adm[a].log]
    BY <1>3, <2>0, Zenon
  <2>2. row'[d].live = row[d].live
    <3>1. CASE d # e
      BY <2>1, <3>1, Zenon DEF RowFits
    <3>2. CASE d = e
      BY <2>0, <3>2, Zenon DEF Disturbs, Restoring
    <3> QED BY <3>1, <3>2, Zenon
  <2>3. Lone(a) /\ a \notin raced
    BY <2>0, Zenon DEF BinInv
  <2> QED BY <2>0, <2>1, <2>2, <2>3, Zenon DEF Lone
<1>6. ASSUME NEW l \in DOMAIN logs PROVE UsedOnce(l)'
  <2>1. UsedOnce(l) /\ logs'[l] = logs[l]
    BY Zenon DEF BinInv, LogsKept
  <2> QED BY <2>1, Zenon DEF UsedOnce, Busy
<1> QED BY <1>2, <1>4, <1>5, <1>6, Zenon

LEMMA EditInv ==
    ASSUME BinInv, NEW e \in Entities, Edit(e) \/ Stamp(e) \/ Revive(e) \/ Recreate(e)
    PROVE  BinInv'
<1>1. kind' = kind /\ adm' = adm /\ redo' = redo /\ logs' = logs /\ missing' = missing /\ raced \subseteq raced'
  BY Zenon DEF Edit, Stamp, Revive, Recreate, Disturbs
<1>2. /\ TypeOK' /\ RowFits(e) /\ row'[e].last = row[e].last
      /\ row'[e].live = row[e].live \/ (row'[e].live = 1 /\ Disturbs(e))
  BY EditTypes, Zenon DEF BinInv
<1>3. LogsKept
  BY <1>1, Zenon DEF LogsKept
<1>4. /\ \A d \in Entities \ {e} : ArchiveOf(d)'
      /\ \A a, b \in Admins : Meet(a, b)'
      /\ \A a \in Admins : Lone(a)'
      /\ \A l \in DOMAIN logs : UsedOnce(l)'
  BY <1>1, <1>2, <1>3, Apart, Zenon
<1>5. ArchiveOf(e)'
  <2>1. ArchiveOf(e)
    BY Zenon DEF BinInv
  <2>2. row[e].live > 0 => row'[e].live > 0
    BY <1>2
  <2>3. ASSUME NEW l \in DOMAIN logs, Archives(l, e) PROVE Archives(l, e)'
    BY <1>1, <1>2, <2>3, Zenon DEF Archives, Busy
  <2> QED BY <1>1, <2>1, <2>2, <2>3, Zenon DEF ArchiveOf
<1> QED BY <1>1, <1>2, <1>4, <1>5, Zenon DEF BinInv

LEMMA DeleteInv ==
    ASSUME BinInv, NEW e \in Entities, NEW softly \in BOOLEAN, Delete(e, softly)
    PROVE  BinInv'
<1>1. /\ kind' = kind /\ adm' = adm /\ redo' = redo /\ raced \subseteq raced' /\ Disturbs(e)
      /\ missing \ {e} \subseteq missing'
  BY Zenon DEF Delete, Disturbs
<1>2. TypeOK /\ TypeOK' /\ RowFits(e) /\ row'[e].last = row[e].version
  BY DeleteTypes, DeleteRow, Zenon DEF BinInv
<1>3. CASE Len(logs) < MaxLogs /\ logs' = Append(logs, NewLog(e))
  <2>0. PICK n : n = Len(logs) + 1
    OBVIOUS
  <2>1. /\ DOMAIN logs' = DOMAIN logs \cup {n} /\ n \notin DOMAIN logs
        /\ \A k \in DOMAIN logs : logs'[k] = logs[k]
        /\ logs'[n] = NewLog(e)
    BY <1>2, <1>3, <2>0, LogAdded, NewLogTyped, Zenon
  <2>2. LogsKept
    BY <2>1, Zenon DEF LogsKept
  <2>3. /\ \A d \in Entities \ {e} : ArchiveOf(d)'
        /\ \A a, b \in Admins : Meet(a, b)'
        /\ \A a \in Admins : Lone(a)'
        /\ \A l \in DOMAIN logs : UsedOnce(l)'
    BY <1>1, <1>2, <2>2, Apart, Zenon
  <2>4. ASSUME NEW a \in Admins PROVE ~Busy(a, n)'
    BY <1>1, <1>2, <2>1, Zenon DEF Busy, TypeOK
  <2>5. Archives(n, e)'
    BY <1>2, <2>1, <2>4 DEF Archives, NewLog
  <2>6. UsedOnce(n)'
    BY <2>1 DEF UsedOnce, NewLog
  <2> QED BY <1>2, <2>1, <2>3, <2>5, <2>6, Zenon DEF BinInv, ArchiveOf
<1>4. CASE missing' = missing \cup {e} /\ logs' = logs
  <2>1. LogsKept
    BY <1>4, Zenon DEF LogsKept
  <2>2. /\ \A d \in Entities \ {e} : ArchiveOf(d)'
        /\ \A a, b \in Admins : Meet(a, b)'
        /\ \A a \in Admins : Lone(a)'
        /\ \A l \in DOMAIN logs : UsedOnce(l)'
    BY <1>1, <1>2, <2>1, Apart
  <2>3. ArchiveOf(e)'
    BY <1>4, Zenon DEF ArchiveOf
  <2> QED BY <1>2, <1>4, <2>2, <2>3, Zenon DEF BinInv
<1> QED BY <1>3, <1>4, Zenon DEF Delete, NewLog

LEMMA RemoveInv ==
    ASSUME BinInv, NEW l \in 1..MaxLogs, Remove(l)
    PROVE  BinInv'
<1>1. /\ kind' = kind /\ row' = row /\ adm' = adm /\ raced' = raced /\ redo' = redo
      /\ missing' = missing \cup {logs[l].entity}
  BY Zenon DEF Remove
<1>2. TypeOK /\ TypeOK'
  BY RemoveTypes, Zenon DEF BinInv
<1>3. /\ l \in DOMAIN logs /\ DOMAIN logs' = DOMAIN logs
      /\ \A k \in DOMAIN logs :
            /\ logs'[k].entity = logs[k].entity /\ logs'[k].version = logs[k].version
            /\ logs'[k].restored = logs[k].restored /\ logs'[k].made = logs[k].made
            /\ logs'[k].gone = (IF k = l THEN TRUE ELSE logs[k].gone)
  BY <1>2, RemoveTypes, Zenon
<1>4. ASSUME NEW e \in Entities PROVE ArchiveOf(e)'
  <2>1. ArchiveOf(e)
    BY Zenon DEF BinInv
  <2>2. CASE e = logs[l].entity
    BY <1>1, <2>2, Zenon DEF ArchiveOf
  <2>3. CASE e # logs[l].entity
    <3>1. ASSUME NEW k \in DOMAIN logs, Archives(k, e) PROVE Archives(k, e)'
      <4>1. k # l
        BY <2>3, <3>1, Zenon DEF Archives
      <4> QED BY <1>1, <1>3, <3>1, <4>1, Zenon DEF Archives, Busy
    <3> QED BY <1>1, <1>3, <2>1, <3>1, Zenon DEF ArchiveOf
  <2> QED BY <2>2, <2>3, Zenon
<1>5. \A a \in Admins : adm[a].pc # "idle" => adm[a].log \in DOMAIN logs
  BY <1>2, Zenon DEF TypeOK
<1>6. ASSUME NEW a \in Admins, NEW b \in Admins PROVE Meet(a, b)'
  <2>1. Meet(a, b)
    BY Zenon DEF BinInv
  <2> QED BY <1>1, <1>3, <1>5, <2>1, Zenon DEF Meet
<1>7. ASSUME NEW a \in Admins PROVE Lone(a)'
  <2>1. Lone(a)
    BY Zenon DEF BinInv
  <2> QED BY <1>1, <1>3, <1>5, <2>1, Zenon DEF Lone
<1>8. ASSUME NEW k \in DOMAIN logs PROVE UsedOnce(k)'
  <2>1. UsedOnce(k) /\ logs'[k].made = logs[k].made
    BY <1>3, Zenon DEF BinInv
  <2>2. (logs[k].restored => logs'[k].restored) /\ (logs[k].gone => logs'[k].gone)
    BY <1>3, Zenon
  <2> QED BY <1>1, <2>1, <2>2, Zenon DEF UsedOnce, Busy
<1> QED BY <1>2, <1>3, <1>4, <1>6, <1>7, <1>8, Zenon DEF BinInv

-----------------------------------------------------------------------------
(* The restores.                                                           *)

\* A restore begins: nothing is marked, and it knows of the others.
LEMMA CheckInv ==
    ASSUME BinInv, NEW a \in Admins, NEW l \in 1..MaxLogs, Check(a, l)
    PROVE  BinInv'
<1> DEFINE e == logs[l].entity
<1>1. /\ kind' = kind /\ row' = row /\ logs' = logs /\ redo' = redo /\ missing' = missing
      /\ adm[a].pc = "idle" /\ ~logs[l].restored /\ ~logs[l].gone /\ ~Blocked(e)
      /\ raced' = IF Restoring(e) = {} THEN raced \ {a} ELSE raced \cup Restoring(e) \cup {a}
  BY Zenon DEF Check
<1>2. TypeOK /\ TypeOK' /\ AdmFits(a) /\ l \in DOMAIN logs /\ e \in Entities
  BY CheckTypes, Zenon DEF BinInv
<1>3. /\ adm'[a].pc \in {"checked", "loaded"} /\ adm'[a].log = l
      /\ adm'[a].pc = "loaded" => kind[e] # "keyed"
  BY <1>2, CheckTypes, Zenon
<1>4. ASSUME NEW b \in Admins, b # a PROVE adm'[b] = adm[b] /\ (b \in raced => b \in raced')
  BY <1>1, <1>2, <1>4, Zenon DEF AdmFits
<1>5. ASSUME NEW d \in Entities PROVE ArchiveOf(d)'
  <2>1. ArchiveOf(d)
    BY Zenon DEF BinInv
  <2>2. ASSUME NEW k \in DOMAIN logs, Archives(k, d) PROVE Archives(k, d)'
    <3>1. logs[k].entity = d
      BY <2>2, Zenon DEF Archives
    <3>2. ASSUME NEW b \in Admins, Busy(b, k)'
          PROVE /\ adm'[b].pc # "written"
                /\ adm'[b].pc = "loaded" /\ kind[d] = "keyed" => adm'[b].seen = Absent \/ adm'[b].soft
      <4>1. CASE b = a
        BY <1>3, <3>1, <3>2, <4>1, Zenon DEF Busy
      <4>2. CASE b # a
        BY <1>4, <2>2, <3>2, <4>2, Zenon DEF Busy, Archives
      <4> QED BY <4>1, <4>2, Zenon
    <3> QED BY <1>1, <2>2, <3>2, Zenon DEF Archives
  <2> QED BY <1>1, <2>1, <2>2, Zenon DEF ArchiveOf
<1>6. ASSUME NEW b \in Admins, b # a, adm[b].pc # "idle", logs[adm[b].log].entity = e
      PROVE  a \in raced' /\ b \in raced'
  BY <1>1, <1>6, Zenon DEF Restoring
<1>7. ASSUME NEW b \in Admins, NEW c \in Admins PROVE Meet(b, c)'
  <2>1. Meet(b, c)
    BY Zenon DEF BinInv
  <2> QED BY <1>1, <1>3, <1>4, <1>6, <2>1, Zenon DEF Meet
<1>8. ASSUME NEW b \in Admins PROVE Lone(b)'
  <2>1. CASE b # a
    <3>1. Lone(b)
      BY Zenon DEF BinInv
    <3> QED BY <1>1, <1>4, <2>1, <3>1, Zenon DEF Lone
  <2>2. CASE b = a /\ a \notin raced'
    <3>1. kind[e] # "plain" => row[e].live = 0
      <4>1. row[e].live \in Nat
        BY <1>2, RowTyped, Zenon DEF RowType
      <4> QED BY <1>1, <4>1 DEF Blocked
    <3>2. ASSUME NEW c \in Admins, Busy(c, l) PROVE FALSE
      <4>1. c # a
        BY <1>1, <3>2, Zenon DEF Busy
      <4> QED BY <1>6, <2>2, <3>2, <4>1, Zenon DEF Busy
    <3>3. UsedOnce(l)
      BY <1>2, Zenon DEF BinInv
    <3>4. logs[l].made = 0 \/ l \in redo
      BY <1>1, <3>2, <3>3, Zenon DEF UsedOnce
    <3> QED BY <1>1, <1>3, <2>2, <3>1, <3>4, Zenon DEF Lone
  <2> QED BY <2>1, <2>2, Zenon DEF Lone
<1>9. ASSUME NEW k \in DOMAIN logs PROVE UsedOnce(k)'
  <2>1. UsedOnce(k)
    BY Zenon DEF BinInv
  <2>2. ASSUME NEW b \in Admins, Busy(b, k), adm[b].pc = "written"
        PROVE  Busy(b, k)' /\ adm'[b].pc = "written"
    BY <1>1, <1>4, <2>2, Zenon DEF Busy
  <2> QED BY <1>1, <2>1, <2>2, Zenon DEF UsedOnce
<1> QED BY <1>1, <1>2, <1>5, <1>7, <1>8, <1>9, Zenon DEF BinInv

\* A restore that goes on or ends without writing.
LEMMA GoesOn ==
    ASSUME BinInv, NEW a \in Admins, AdmFits(a), TypeOK', kind' = kind, row' = row, logs' = logs,
           raced' = raced, missing' = missing, redo \subseteq redo', adm[a].pc # "idle",
           \/ adm'[a].pc = "idle" /\ (adm[a].pc = "written" => adm[a].log \in redo')
           \/ /\ adm[a].pc = "checked" /\ adm'[a].pc = "loaded" /\ adm'[a].log = adm[a].log
              /\ row[logs[adm[a].log].entity].live = 0 => adm'[a].seen = Absent \/ adm'[a].soft
    PROVE  BinInv'
<1>1. TypeOK /\ \A b \in Admins \ {a} : adm'[b] = adm[b]
  BY Zenon DEF BinInv, AdmFits
<1>2. ASSUME NEW d \in Entities PROVE ArchiveOf(d)'
  <2>1. ArchiveOf(d) /\ row[d].live \in Nat
    BY <1>1, RowTyped, Zenon DEF BinInv, RowType
  <2>2. ASSUME NEW k \in DOMAIN logs, Archives(k, d), row[d].live = 0 PROVE Archives(k, d)'
    <3>1. logs[k].entity = d
      BY <2>2, Zenon DEF Archives
    <3>2. ASSUME NEW b \in Admins, Busy(b, k)'
          PROVE /\ adm'[b].pc # "written"
                /\ adm'[b].pc = "loaded" /\ kind[d] = "keyed" => adm'[b].seen = Absent \/ adm'[b].soft
      <4>1. CASE b = a
        BY <2>2, <3>1, <3>2, <4>1, Zenon DEF Busy
      <4>2. CASE b # a
        BY <1>1, <2>2, <3>2, <4>2, Zenon DEF Busy, Archives
      <4> QED BY <4>1, <4>2, Zenon
    <3> QED BY <2>2, <3>2, Zenon DEF Archives
  <2> QED BY <2>1, <2>2, SMTT(30) DEF ArchiveOf
<1>3. ASSUME NEW b \in Admins, NEW c \in Admins PROVE Meet(b, c)'
  <2>1. Meet(b, c)
    BY Zenon DEF BinInv
  <2> QED BY <1>1, <2>1, Zenon DEF Meet
<1>4. ASSUME NEW b \in Admins PROVE Lone(b)'
  <2>1. Lone(b)
    BY Zenon DEF BinInv
  <2> QED BY <1>1, <2>1, Zenon DEF Lone
<1>5. ASSUME NEW k \in DOMAIN logs PROVE UsedOnce(k)'
  <2>1. UsedOnce(k)
    BY Zenon DEF BinInv
  <2>2. ASSUME NEW b \in Admins, Busy(b, k), adm[b].pc = "written"
        PROVE  k \in redo' \/ (Busy(b, k)' /\ adm'[b].pc = "written")
    BY <1>1, <2>2, Zenon DEF Busy
  <2> QED BY <2>1, <2>2, Zenon DEF UsedOnce
<1> QED BY <1>2, <1>3, <1>4, <1>5, Zenon DEF BinInv

LEMMA LoadInv ==
    ASSUME BinInv, NEW a \in Admins, Load(a)
    PROVE  BinInv'
BY LoadTypes, GoesOn, Zenon DEF Load, BinInv

LEMMA RefusedInv ==
    ASSUME BinInv, NEW a \in Admins, Refused(a)
    PROVE  BinInv'
BY RefusedTypes, GoesOn, Zenon DEF Refused, BinInv

LEMMA StopInv ==
    ASSUME BinInv, NEW a \in Admins, Stop(a)
    PROVE  BinInv'
<1>1. /\ adm[a].pc # "idle" /\ kind' = kind /\ row' = row /\ logs' = logs /\ raced' = raced
      /\ missing' = missing /\ redo \subseteq redo'
      /\ adm[a].pc = "written" => adm[a].log \in redo'
  BY Zenon DEF Stop
<1>2. TypeOK' /\ AdmFits(a) /\ adm'[a].pc = "idle"
  BY StopTypes, Zenon DEF BinInv
<1> QED BY <1>1, <1>2, GoesOn, Zenon

LEMMA MarkInv ==
    ASSUME BinInv, NEW a \in Admins, Mark(a)
    PROVE  BinInv'
<1>0. PICK l : l = adm[a].log
  OBVIOUS
<1>1. /\ kind' = kind /\ row' = row /\ raced' = raced /\ redo' = redo /\ missing' = missing
      /\ adm[a].pc = "written"
  BY Zenon DEF Mark
<1>2. TypeOK /\ TypeOK' /\ AdmFits(a) /\ adm'[a].pc = "idle" /\ l \in DOMAIN logs /\ DOMAIN logs' = DOMAIN logs
  BY <1>0, MarkTypes, Zenon DEF BinInv
<1>3. \A k \in DOMAIN logs :
         /\ logs'[k].entity = logs[k].entity /\ logs'[k].version = logs[k].version
         /\ logs'[k].made = logs[k].made /\ (logs'[k].gone <=> logs[k].gone)
         /\ logs'[k].restored <=> logs[k].restored \/ (k = l /\ ~logs[k].gone)
  BY <1>0, <1>2, MarkTypes, Zenon
<1>4. /\ \A b \in Admins \ {a} : adm'[b] = adm[b]
      /\ \A b \in Admins : adm[b].pc # "idle" => adm[b].log \in DOMAIN logs
  BY <1>2, Zenon DEF AdmFits, TypeOK
<1>5. ASSUME NEW d \in Entities PROVE ArchiveOf(d)'
  <2>1. ArchiveOf(d)
    BY Zenon DEF BinInv
  <2>2. ASSUME NEW k \in DOMAIN logs, Archives(k, d) PROVE Archives(k, d)'
    <3>1. k # l
      BY <1>0, <1>1, <2>2, Zenon DEF Archives, Busy
    <3>2. ASSUME NEW b \in Admins, Busy(b, k)' PROVE Busy(b, k) /\ adm'[b] = adm[b]
      BY <1>2, <1>4, <3>2, Zenon DEF Busy
    <3> QED BY <1>1, <1>3, <2>2, <3>1, <3>2, Zenon DEF Archives
  <2> QED BY <1>1, <1>2, <2>1, <2>2, Zenon DEF ArchiveOf
<1>6. ASSUME NEW b \in Admins, NEW c \in Admins PROVE Meet(b, c)'
  <2>1. Meet(b, c)
    BY Zenon DEF BinInv
  <2> QED BY <1>1, <1>2, <1>3, <1>4, <2>1 DEF Meet
<1>7. ASSUME NEW b \in Admins PROVE Lone(b)'
  <2>1. Lone(b)
    BY Zenon DEF BinInv
  <2> QED BY <1>1, <1>2, <1>3, <1>4, <2>1, ZenonT(30) DEF Lone
<1>8. ASSUME NEW k \in DOMAIN logs PROVE UsedOnce(k)'
  <2>1. UsedOnce(k)
    BY Zenon DEF BinInv
  <2>2. ASSUME NEW b \in Admins, Busy(b, k), adm[b].pc = "written"
        PROVE  logs'[k].restored \/ logs'[k].gone \/ (Busy(b, k)' /\ adm'[b].pc = "written")
    <3>1. CASE b = a
      BY <1>0, <1>3, <2>2, <3>1, Zenon DEF Busy
    <3>2. CASE b # a
      BY <1>4, <2>2, <3>2, Zenon DEF Busy
    <3> QED BY <3>1, <3>2, Zenon
  <2> QED BY <1>1, <1>3, <2>1, <2>2, Zenon DEF UsedOnce
<1> QED BY <1>2, <1>5, <1>6, <1>7, <1>8, Zenon DEF BinInv

LEMMA RestoreInv ==
    ASSUME BinInv, NEW a \in Admins, Restore(a)
    PROVE  BinInv'
<1>0. PICK l, e : l = adm[a].log /\ e = logs[l].entity
  OBVIOUS
<1>1. /\ kind' = kind /\ raced' = raced /\ missing' = missing /\ adm[a].pc = "loaded"
      /\ redo \subseteq redo' /\ (a \in raced => l \in redo')
  BY <1>0, Zenon DEF Restore
<1>2. /\ TypeOK /\ TypeOK' /\ AdmFits(a) /\ l \in DOMAIN logs /\ DOMAIN logs' = DOMAIN logs
      /\ adm'[a].pc = "written" /\ adm'[a].log = l
  BY <1>0, RestoreTypes, Zenon DEF BinInv
<1>3. \A k \in DOMAIN logs :
         /\ logs'[k].entity = logs[k].entity /\ logs'[k].version = logs[k].version
         /\ (logs'[k].restored <=> logs[k].restored) /\ (logs'[k].gone <=> logs[k].gone)
         /\ logs'[k].made = IF k = l THEN logs[k].made + 1 ELSE logs[k].made
  <2>1. \A k \in DOMAIN logs :
           /\ logs'[k].entity = logs[k].entity /\ logs'[k].version = logs[k].version
           /\ (logs'[k].restored <=> logs[k].restored) /\ (logs'[k].gone <=> logs[k].gone)
           /\ logs'[k].made = IF k = adm[a].log THEN logs[k].made + 1 ELSE logs[k].made
    BY <1>2, RestoreTypes, Zenon
  <2> QED BY <1>0, <2>1, SMTT(30)
<1>4. /\ e \in Entities /\ RowFits(e) /\ row'[e].last = row[e].last
      /\ kind[e] = "keyed" =>
            row'[e].live = (IF adm[a].seen = Absent \/ adm[a].soft THEN 1 ELSE row[e].live)
      /\ kind[e] # "keyed" => row'[e].live = row[e].live + 1
  BY <1>0, <1>2, RestoreRow, Zenon
<1>5. /\ \A b \in Admins \ {a} : adm'[b] = adm[b]
      /\ \A b \in Admins : adm[b].pc # "idle" => adm[b].log \in DOMAIN logs
      /\ \A d \in Entities \ {e} : row'[d] = row[d]
  BY <1>2, <1>4, Zenon DEF AdmFits, TypeOK, RowFits
<1>6. ASSUME NEW d \in Entities, NEW k \in DOMAIN logs, Archives(k, d), k # l
      PROVE  Archives(k, d)'
  <2>1. ASSUME NEW b \in Admins, Busy(b, k)' PROVE Busy(b, k) /\ adm'[b] = adm[b]
    BY <1>2, <1>5, <1>6, <2>1, Zenon DEF Busy
  <2>2. row'[d].last = row[d].last
    BY <1>4, <1>5, Zenon
  <2> QED BY <1>1, <1>3, <1>6, <2>1, <2>2, Zenon DEF Archives
<1>7. ASSUME NEW d \in Entities PROVE ArchiveOf(d)'
  <2>1. ArchiveOf(d)
    BY DEF BinInv
  <2>2. CASE d # e
    <3>1. ASSUME NEW k \in DOMAIN logs, Archives(k, d) PROVE k # l
      BY <1>0, <2>2, <3>1, Zenon DEF Archives
    <3> QED BY <1>1, <1>2, <1>5, <1>6, <2>1, <2>2, <3>1, Zenon DEF ArchiveOf
  <2>3. CASE d = e
    <3>1. row[e].live \in Nat
      BY <1>2, <1>4, RowTyped, Zenon DEF RowType
    <3>2. row[e].live > 0 => row'[e].live > 0
      BY <1>4, <3>1
    <3>3. Archives(l, e) => row'[e].live > 0
      <4>1. CASE kind[e] = "keyed"
        <5>1. Archives(l, e) => adm[a].seen = Absent \/ adm[a].soft
          BY <1>0, <1>1, <4>1, Zenon DEF Archives, Busy
        <5> QED BY <1>4, <4>1, <5>1, SMTT(30)
      <4>2. CASE kind[e] # "keyed"
        BY <1>4, <3>1, <4>2
      <4> QED BY <4>1, <4>2, Zenon
    <3> QED BY <1>1, <1>2, <1>6, <2>1, <2>3, <3>2, <3>3, Zenon DEF ArchiveOf
  <2> QED BY <2>2, <2>3, Zenon
<1>8. ASSUME NEW b \in Admins, NEW c \in Admins PROVE Meet(b, c)'
  <2>1. Meet(b, c)
    BY DEF BinInv
  <2> QED BY <1>0, <1>1, <1>2, <1>3, <1>5, <2>1, SMTT(30) DEF Meet
<1>9. ASSUME NEW b \in Admins PROVE Lone(b)'
  <2>1. CASE b = a
    BY <1>2, <2>1, Zenon DEF Lone
  <2>2. CASE b # a /\ adm[b].pc \in {"checked", "loaded"} /\ b \notin raced
    <3>1. Lone(b) /\ Meet(a, b)
      BY Zenon DEF BinInv
    <3>2. logs[adm[b].log].entity # e
      BY <1>0, <1>1, <2>2, <3>1, Zenon DEF Meet
    <3>3. adm[b].log \in DOMAIN logs /\ logs[adm[b].log].entity \in Entities
      BY <1>2, <2>2, BusyTyped, Zenon
    <3>4. PICK k, d : k = adm[b].log /\ d = logs[k].entity
      OBVIOUS
    <3>5. /\ kind[d] # "plain" => row[d].live = 0
          /\ logs[k].made = 0 \/ k \in redo
      BY <2>2, <3>1, <3>4, Zenon DEF Lone
    <3>6. adm'[b] = adm[b] /\ row'[d] = row[d] /\ logs'[k].entity = d /\ k # l
      BY <1>0, <1>3, <1>5, <2>2, <3>2, <3>3, <3>4, Zenon
    <3>7. logs'[k].made = logs[k].made
      BY <1>3, <3>3, <3>4, <3>6, Zenon
    <3> QED BY <1>1, <3>4, <3>5, <3>6, <3>7, Zenon DEF Lone
  <2>3. CASE b # a /\ ~(adm[b].pc \in {"checked", "loaded"} /\ b \notin raced)
    BY <1>1, <1>5, <2>3, Zenon DEF Lone
  <2> QED BY <2>1, <2>2, <2>3, Zenon
<1>10. ASSUME NEW k \in DOMAIN logs PROVE UsedOnce(k)'
  <2>1. UsedOnce(k)
    BY DEF BinInv
  <2>2. CASE k = l
    <3>1. l \in redo' \/ logs[l].made = 0
      BY <1>0, <1>1, Zenon DEF BinInv, Lone
    <3>2. logs[l].made = 0 => logs'[l].made = 1
      BY <1>2, <1>3
    <3>3. Busy(a, l)'
      BY <1>2, Zenon DEF Busy
    <3> QED BY <1>2, <2>2, <3>1, <3>2, <3>3, Zenon DEF UsedOnce
  <2>3. CASE k # l
    <3>1. ASSUME NEW b \in Admins, Busy(b, k) PROVE Busy(b, k)' /\ adm'[b] = adm[b]
      BY <1>0, <1>5, <2>3, <3>1, Zenon DEF Busy
    <3> QED BY <1>1, <1>3, <2>1, <2>3, <3>1, Zenon DEF UsedOnce
  <2> QED BY <2>2, <2>3, Zenon
<1> QED BY <1>2, <1>7, <1>8, <1>9, <1>10, Zenon DEF BinInv

-----------------------------------------------------------------------------
LEMMA BinStep == BinInv /\ [Next]_vars => BinInv'
<1> SUFFICES ASSUME BinInv, [Next]_vars PROVE BinInv'
  OBVIOUS
<1>1. CASE \E e \in Entities : Edit(e) \/ Stamp(e) \/ Revive(e) \/ Recreate(e)
  BY <1>1, EditInv, Zenon
<1>2. CASE \E e \in Entities : \E softly \in BOOLEAN : Delete(e, softly)
  BY <1>2, DeleteInv, Zenon
<1>3. CASE \E l \in 1..MaxLogs : Remove(l) \/ \E a \in Admins : Check(a, l)
  BY <1>3, RemoveInv, CheckInv, Zenon
<1>4. CASE \E a \in Admins : Load(a) \/ Restore(a) \/ Refused(a) \/ Mark(a) \/ Stop(a)
  BY <1>4, LoadInv, RestoreInv, RefusedInv, MarkInv, StopInv, Zenon
<1>5. CASE UNCHANGED vars
  <2>1. TypeOK'
    BY <1>5, Zenon DEF vars, BinInv, TypeOK
  <2>2. /\ \A e \in Entities : ArchiveOf(e)
        /\ \A a, b \in Admins : Meet(a, b)
        /\ \A a \in Admins : Lone(a)
        /\ \A l \in DOMAIN logs : UsedOnce(l)
    BY Zenon DEF BinInv
  <2>3. \A e \in Entities : ArchiveOf(e)'
    BY <1>5, <2>2, SMTT(30) DEF vars, ArchiveOf, Archives, Busy
  <2>4. \A a, b \in Admins : Meet(a, b)'
    BY <1>5, <2>2, Zenon DEF vars, Meet
  <2>5. \A a \in Admins : Lone(a)'
    BY <1>5, <2>2, Zenon DEF vars, Lone
  <2>6. \A l \in DOMAIN logs' : UsedOnce(l)'
    BY <1>5, <2>2, Zenon DEF vars, UsedOnce, Busy
  <2> QED BY <2>1, <2>3, <2>4, <2>5, <2>6, Zenon DEF BinInv
<1> QED BY <1>1, <1>2, <1>3, <1>4, <1>5, Zenon DEF Next

LEMMA BinAlways == Spec => []BinInv
BY BinInit, BinStep, PTL DEF Spec

LEMMA ArchiveFollows == BinInv => DeletedIsArchived
BY Zenon DEF BinInv, ArchiveOf, Archives, DeletedIsArchived

\* Deleted rows stay restorable: the hook's log of the last deletion is there,
\* unrestored, until the entity is live again, although a restore writes the
\* row and marks its log in two transactions.
THEOREM DeletedStaysArchived == Spec => []DeletedIsArchived
BY BinAlways, ArchiveFollows, PTL

LEMMA OnceFollows == BinInv => RestoredOnce
<1> SUFFICES ASSUME BinInv, NEW l \in DOMAIN logs PROVE logs[l].made <= 1 \/ l \in redo
  BY Zenon DEF RestoredOnce
<1>1. UsedOnce(l)
  BY Zenon DEF BinInv
<1> QED BY <1>1 DEF UsedOnce

\* A log is used once by any number of admins, unless they raced or the
\* restore stopped between its two commits.
THEOREM LogsAreUsedOnce == Spec => []RestoredOnce
BY BinAlways, OnceFollows, PTL

LEMMA BinTypes == BinInv => TypeOK
BY Zenon DEF BinInv

\* Type correctness: in particular a keyed or coded entity never has two rows,
\* which is what the primary key and the unique business_code promise.
THEOREM BinTypesKept == Spec => []TypeOK
BY BinAlways, BinTypes, PTL

\* The version of a live row under one step.
LEMMA SurvivesStep ==
    ASSUME BinInv, Next, NEW e \in Entities, kind[e] = "keyed", row[e].live > 0,
           Restoring(e) \cap raced = {}
    PROVE  row'[e].version >= row[e].version
<1>1. TypeOK /\ row[e].version \in Int
  BY RowTyped DEF BinInv, RowType
<1>2. ASSUME NEW d \in Entities, Edit(d) \/ Stamp(d) \/ Revive(d) \/ Recreate(d)
      PROVE  row'[e].version >= row[e].version
  BY <1>1, <1>2, EditTypes DEF RowFits
<1>3. ASSUME NEW d \in Entities, NEW softly \in BOOLEAN, Delete(d, softly)
      PROVE  row'[e].version >= row[e].version
  BY <1>1, <1>3, DeleteRow DEF RowFits
<1>4. ASSUME NEW a \in Admins, Restore(a)
      PROVE  row'[e].version >= row[e].version
  <2> DEFINE d == logs[adm[a].log].entity
  <2>1. CASE d = e
    <3>1. a \notin raced /\ adm[a].pc = "loaded"
      BY <1>4, <2>1, Zenon DEF Restore, Restoring
    <3> QED BY <2>1, <3>1 DEF BinInv, Lone
  <2>2. CASE d # e
    <3>1. RowFits(d)
      BY <1>1, <1>4, RestoreRow, Zenon
    <3>2. row'[e] = row[e]
      BY <2>2, <3>1, Zenon DEF RowFits
    <3> QED BY <1>1, <3>2
  <2> QED BY <2>1, <2>2, Zenon
<1>5. CASE row' = row
  BY <1>1, <1>5, SMTT(30)
<1>6. CASE \E l \in 1..MaxLogs : Remove(l) \/ \E a \in Admins : Check(a, l)
  BY <1>5, <1>6, Zenon DEF Remove, Check
<1>7. CASE \E a \in Admins : Load(a) \/ Refused(a) \/ Mark(a) \/ Stop(a)
  BY <1>5, <1>7, Zenon DEF Load, Refused, Mark, Stop
<1> QED BY <1>2, <1>3, <1>4, <1>6, <1>7, Zenon DEF Next

\* A restore that does not race never replaces the content of a live row: the
\* preview's check still holds when the row is written.
THEOREM LiveRowsSurvive == Spec => EditsSurvive
<1>1. BinInv /\ [Next]_vars =>
        [\A e \in Entities :
            kind[e] = "keyed" /\ row[e].live > 0 /\ Restoring(e) \cap raced = {}
                => row'[e].version >= row[e].version]_vars
  BY SurvivesStep, Zenon
<1> QED BY <1>1, BinAlways, PTL DEF Spec, EditsSurvive
=============================================================================
