-------------------------- MODULE FileAssetsProofs --------------------------
(***************************************************************************)
(* Uploaded files and their virus scan, for any contents, requests,        *)
(* workers and faults: an infected content is never readable, and its      *)
(* verdict is never overwritten (FinalInv, BlockedInv); sessions keep to   *)
(* their phases (PhaseInv); a scan that is asked for is not forgotten      *)
(* (QueueInv); a link has its object and an object has its row (StoreInv). *)
(* Each invariant rests on those before it.  The lemma that a step keeps   *)
(* one has as its steps the facts needed for nothing else.                 *)
(***************************************************************************)
EXTENDS FileAssets, TLAPS

\* The part of the type invariant that the proofs need.
Typed ==
    /\ infected \subseteq Contents
    /\ row \in [Contents -> RowType]
    /\ ids \in [Contents -> 0..MaxIds]
    /\ tx \in [Requests -> TxType]
    /\ job \in [Assets -> {"none", "queued"} \union Workers]
    /\ scan \in [Workers -> SUBSET ScanType]

\* The session r: a row it inserts is not there yet and its hash is locked; a
\* row it has set to pending_scan is not infected, and stays so while r locks it.
Holds(r) ==
    /\ \A c \in tx[r].fresh : /\ c \in tx[r].held /\ row[c].id = 0
                              /\ \E i \in Ids : <<c, i>> \in tx[r].assets
    /\ \A a \in tx[r].upd : HasRow(a) => row[a[1]].scan # "infected"

\* The advisory lock of a hash has one holder.
OneHolder(r, q) == r # q => tx[r].held \cap tx[q].held = {}

\* A worker scans one asset, whose job it has, and until its verdict the row
\* is not infected.
Scans(w) ==
    \A s \in scan[w] :
        /\ scan[w] = {s} /\ job[s.asset] = w
        /\ s.step \in {"start", "scanning", "clean", "scan_error"} /\ HasRow(s.asset)
               => row[s.asset[1]].scan # "infected"

\* The queue never runs a job twice at a time.
Exclusive == "overlap" \notin Faults

NoRowIsClear(c) == row[c].id = 0 => row[c].scan # "infected"

FinalInv ==
    /\ Typed
    /\ \A r \in Requests : Holds(r)
    /\ \A r, q \in Requests : OneHolder(r, q)
    /\ Exclusive => \A w \in Workers : Scans(w)
    /\ \A c \in Contents : NoRowIsClear(c)

\* A worker about to write "clean" has not seen an infected content.
Honest == \A w \in Workers : \A s \in scan[w] : s.step = "clean" => s.asset[1] \notin infected

BlockedInv == InfectedIsBlocked /\ (~FailOpen => Honest)

LEMMA EmptyTx == NoTx \in TxType
BY Zenon DEF NoTx, TxType

LEMMA AssetParts ==
    ASSUME NEW a \in Assets
    PROVE  a[1] \in Contents /\ a[2] \in Ids /\ a = <<a[1], a[2]>>
BY DEF Assets

LEMMA InitTyped == Init => Typed
BY EmptyTx, ConstantsAssumption DEF Init, Typed, NoRow, RowType, Places, Statuses

LEMMA InitBoth == Init => FinalInv /\ BlockedInv
<1> SUFFICES ASSUME Init PROVE FinalInv /\ BlockedInv
  OBVIOUS
<1>1. Typed
  BY InitTyped, Zenon
<1>2. ASSUME NEW r \in Requests PROVE Holds(r)
  BY Zenon DEF Init, Holds, NoTx
<1>3. ASSUME NEW r \in Requests, NEW q \in Requests PROVE OneHolder(r, q)
  BY Zenon DEF Init, OneHolder, NoTx
<1>4. ASSUME NEW w \in Workers PROVE Scans(w)
  BY Zenon DEF Init, Scans
<1>5. ASSUME NEW c \in Contents PROVE NoRowIsClear(c) /\ row[c].id = 0
  BY Zenon DEF Init, NoRowIsClear, NoRow
<1>6. Honest
  BY Zenon DEF Init, Honest
<1>7. InfectedIsBlocked
  BY <1>1, <1>5, Zenon DEF Typed, InfectedIsBlocked
<1> QED BY <1>1, <1>2, <1>3, <1>4, <1>5, <1>6, <1>7, Zenon DEF FinalInv, BlockedInv

-----------------------------------------------------------------------------
(* The sessions.                                                           *)

\* A step that leaves what r has locked alone, or ends its transaction.
Calm(r) ==
    /\ tx' \in [Requests -> TxType]
    /\ \A q \in Requests \ {r} : tx'[q] = tx[q]
    /\ \/ /\ tx'[r].held = tx[r].held /\ tx'[r].fresh = tx[r].fresh
          /\ tx'[r].upd = tx[r].upd /\ tx'[r].assets = tx[r].assets
       \/ tx'[r].held = {} /\ tx'[r].fresh = {} /\ tx'[r].upd = {}

\* The types of a session's fields.
Fields(r) ==
    /\ tx[r].trk \in SUBSET Paths /\ tx[r].enq \in SUBSET Assets /\ tx[r].cut \in SUBSET Paths
    /\ tx[r].after \in {"done", "open", "linked"} /\ tx[r] \in TxType
    /\ tx[r].held \in SUBSET Contents /\ tx[r].fresh \in SUBSET Contents
    /\ tx[r].upd \in SUBSET Assets /\ tx[r].assets \in SUBSET Assets

LEMMA FieldsOf ==
    ASSUME Typed, NEW r \in Requests
    PROVE  Fields(r)
BY Zenon DEF Typed, TxType, Fields

\* An upload takes the free lock of c, and may insert its row or set it to pending_scan.
Grow(r, c) ==
    /\ tx' \in [Requests -> TxType]
    /\ \A q \in Requests \ {r} : tx'[q] = tx[q]
    /\ tx'[r].held = tx[r].held \union {c} /\ tx[r].assets \subseteq tx'[r].assets
    /\ \A d \in tx'[r].fresh :
          d \in tx[r].fresh \/ (d = c /\ row[c].id = 0 /\ \E i \in Ids : <<c, i>> \in tx'[r].assets)
    /\ \A a \in tx'[r].upd : a \in tx[r].upd \/ (a[1] = c /\ row[c].scan # "infected")

\* A session step: none, a calm one, or an upload that takes a free lock.
SessionStep ==
    \/ tx' = tx
    \/ \E r \in Requests : Calm(r)
    \/ \E r \in Requests, c \in Contents : Grow(r, c) /\ \A q \in Requests : c \notin tx[q].held

\* No row is inserted under a session that inserts it itself.
AbsentStays == \A q \in Requests : \A c \in tx'[q].fresh : row[c].id = 0 => row'[c].id = 0

\* A row that changes is not infected afterwards.
Softens == \A c \in Contents : row'[c] = row[c] \/ row'[c].scan # "infected"

\* What the steps that change rows do to them: what was infected stays so
\* while the row keeps its id.
Final == \A c \in Contents : row[c].scan = "infected" /\ row'[c].id = row[c].id
                                 => row'[c].scan = "infected"

\* The worker's next state: the same asset at another step.
Moves(w, a, step) ==
    /\ scan' \in [Workers -> SUBSET ScanType]
    /\ \A v \in Workers \ {w} : scan'[v] = scan[v]
    /\ \E x \in ScanType : x.asset = a /\ x.step = step /\ scan'[w] = {x}

LEMMA ScanTyped ==
    ASSUME Typed, NEW w \in Workers, NEW s \in scan[w]
    PROVE  s \in ScanType /\ s.asset \in Assets /\ s.asset[1] \in Contents /\ s.step \in Steps
<1>1. s \in ScanType
  BY Zenon DEF Typed
<1>2. s.asset \in Assets /\ s.step \in Steps
  BY <1>1, Zenon DEF ScanType
<1> QED BY <1>1, <1>2, AssetParts, Zenon

\* An UPDATE by id, in terms of the row of a.
RowSet(a, status) ==
    /\ row' \in [Contents -> RowType]
    /\ \A c \in Contents : row'[c].id = row[c].id
    /\ \A c \in Contents : row'[c] = row[c] \/ (c = a[1] /\ HasRow(a) /\ row'[c].scan = status)
    /\ HasRow(a) => row'[a[1]].scan = status
    /\ HasRow(a)' <=> HasRow(a)

LEMMA SetRowDoes ==
    ASSUME Typed, NEW a \in Assets, NEW place \in Places, NEW status \in Statuses, SetRow(a, place, status)
    PROVE  RowSet(a, status)
<1>0. a[1] \in Contents /\ a[2] \in Ids
  BY AssetParts, Zenon
<1>1. CASE HasRow(a)
  <2> DEFINE x == [id |-> a[2], place |-> place, scan |-> status]
  <2>1. row' = [row EXCEPT ![a[1]] = x] /\ row[a[1]].id = a[2]
    BY <1>1, Zenon DEF SetRow, HasRow
  <2>2. x \in RowType /\ x.id = a[2] /\ x.scan = status
    BY <1>0, ConstantsAssumption DEF RowType, Ids
  <2> HIDE DEF x
  <2> QED BY <1>0, <1>1, <2>1, <2>2, Zenon DEF Typed, HasRow, RowSet
<1>2. CASE ~HasRow(a)
  <2>1. row' = row
    BY <1>2, Zenon DEF SetRow
  <2> QED BY <1>2, <2>1, Zenon DEF Typed, HasRow, RowSet
<1> QED BY <1>1, <1>2, Zenon DEF RowSet

Trusting == {"start", "scanning", "clean", "scan_error"}

\* Until its verdict a worker relies on the row not being infected.
LEMMA Trusts ==
    ASSUME FinalInv, Exclusive, NEW w \in Workers, NEW s \in scan[w], s.step \in Trusting, HasRow(s.asset)
    PROVE  row[s.asset[1]].scan # "infected"
BY Zenon DEF FinalInv, Scans, Trusting

\* Every step keeps FinalInv and BlockedInv, and overwrites no infected verdict:
\* sessions first, then requests and purges, then the scan.
LEMMA FinalStep ==
    FinalInv /\ Next => FinalInv' /\ (Exclusive => Final) /\ (BlockedInv => BlockedInv')

<1>SaveCalm. ASSUME Typed, NEW r \in Requests, Save(r)
             PROVE  Calm(r)
  <2> USE <1>SaveCalm
  <2>1. tx[r] \in TxType
    BY Zenon DEF Typed
  <2>2. PICK s \in tx[r].cur : tx' = [tx EXCEPT ![r].cur = {}, ![r].trk =
            IF s.asset[1] \in tx[r].fresh \/ <<s.place, s.asset[1]>> \notin files
            THEN tx[r].trk \union {<<s.place, s.asset[1]>>} ELSE tx[r].trk]
    BY Zenon DEF Save
  <2>3. <<s.place, s.asset[1]>> \in Paths
    <3>1. s \in [asset : Assets, place : Places]
      BY <2>1, Zenon DEF TxType
    <3>2. s.asset \in Assets /\ s.place \in Places
      BY <3>1, Zenon
    <3> QED BY <3>2, AssetParts, Zenon DEF Paths
  <2>4. PICK trk \in SUBSET Paths : tx' = [tx EXCEPT ![r] = [tx[r] EXCEPT !.cur = {}, !.trk = trk]]
    <3>1. tx[r].trk \in SUBSET Paths
      BY <2>1, Zenon DEF TxType
    <3> QED BY <2>2, <2>3, <3>1, Zenon
  <2> DEFINE x == [tx[r] EXCEPT !.cur = {}, !.trk = trk]
  <2>5. /\ x \in TxType /\ x.held = tx[r].held /\ x.fresh = tx[r].fresh /\ x.upd = tx[r].upd
        /\ x.assets = tx[r].assets
    BY <2>1, Zenon DEF TxType
  <2>6. tx' = [tx EXCEPT ![r] = x]
    BY <2>4, Zenon
  <2> HIDE DEF x
  <2> QED BY <2>5, <2>6, Zenon DEF Calm, Typed

<1>EnqueueCalm. ASSUME Typed, NEW r \in Requests, NEW a \in Assets, EnqueueScan(r, a)
                PROVE  Calm(r)
  <2> USE <1>EnqueueCalm
  <2> DEFINE x == [tx[r] EXCEPT !.enq = tx[r].enq \ {a}]
  <2>1. tx' = [tx EXCEPT ![r] = x]
    BY Zenon DEF EnqueueScan
  <2>2. /\ x \in TxType /\ x.held = tx[r].held /\ x.fresh = tx[r].fresh /\ x.upd = tx[r].upd
        /\ x.assets = tx[r].assets
    BY FieldsOf, Zenon DEF TxType, Fields
  <2> HIDE DEF x
  <2> QED BY <2>1, <2>2, Zenon DEF Calm, Typed

<1>SavepointCalm. ASSUME Typed, NEW r \in Requests, SavepointFails(r)
                  PROVE  Calm(r)
  <2> USE <1>SavepointCalm
  <2> DEFINE x == [tx[r] EXCEPT !.enq = {}, !.after = "open"]
  <2>1. tx' = [tx EXCEPT ![r] = x]
    BY Zenon DEF SavepointFails
  <2>2. /\ x \in TxType /\ x.held = tx[r].held /\ x.fresh = tx[r].fresh /\ x.upd = tx[r].upd
        /\ x.assets = tx[r].assets
    BY FieldsOf, Zenon DEF TxType, Fields
  <2> HIDE DEF x
  <2> QED BY <2>1, <2>2, Zenon DEF Calm, Typed

<1>CleanCalm. ASSUME Typed, NEW r \in Requests, NEW path \in Paths, CleanCheck(r, path) \/ CleanDelete(r, path)
              PROVE  Calm(r)
  <2> USE <1>CleanCalm
  <2>1. PICK trk \in SUBSET Paths, cut \in SUBSET Paths :
            tx' = [tx EXCEPT ![r] = [tx[r] EXCEPT !.trk = trk, !.cut = cut]]
    <3>1. CASE CleanCheck(r, path)
      <4> DEFINE used == row[path[2]].id # 0 /\ row[path[2]].place = path[1]
                 cut == IF used THEN {} ELSE {path}
      <4>1. tx' = [tx EXCEPT ![r] = [tx[r] EXCEPT !.trk = tx[r].trk \ {path}, !.cut = cut]]
        BY <3>1, Zenon DEF CleanCheck
      <4>2. cut \in SUBSET Paths /\ tx[r].trk \ {path} \in SUBSET Paths
        BY FieldsOf, Zenon DEF Fields
      <4> HIDE DEF cut
      <4> QED BY <4>1, <4>2, Zenon
    <3>2. CASE CleanDelete(r, path)
      <4> DEFINE x == [tx[r] EXCEPT !.cut = {}]
      <4>1. tx' = [tx EXCEPT ![r] = x]
        BY <3>2, Zenon DEF CleanDelete
      <4>2. x = [tx[r] EXCEPT !.trk = tx[r].trk, !.cut = {}]
        BY FieldsOf, Zenon DEF TxType, Fields
      <4> HIDE DEF x
      <4> QED BY <4>1, <4>2, FieldsOf, Zenon DEF Fields
    <3> QED BY <3>1, <3>2, Zenon
  <2> DEFINE x == [tx[r] EXCEPT !.trk = trk, !.cut = cut]
  <2>2. /\ x \in TxType /\ x.held = tx[r].held /\ x.fresh = tx[r].fresh /\ x.upd = tx[r].upd
        /\ x.assets = tx[r].assets
    BY FieldsOf, Zenon DEF TxType, Fields
  <2>3. tx' = [tx EXCEPT ![r] = x]
    BY <2>1, Zenon
  <2> HIDE DEF x
  <2> QED BY <2>2, <2>3, Zenon DEF Calm, Typed

<1>PurgeTxCalm. ASSUME Typed, NEW r \in Requests, NEW A \in SUBSET Assets, ToPurge(r, A)
                PROVE  Calm(r)
  <2> USE <1>PurgeTxCalm
  <2> DEFINE x == [NoTx EXCEPT !.enq = A]
  <2>1. tx' = [tx EXCEPT ![r] = x]
    BY Zenon DEF ToPurge
  <2>2. x \in TxType /\ x.held = {} /\ x.fresh = {} /\ x.upd = {}
    BY Zenon DEF NoTx, TxType
  <2> HIDE DEF x
  <2> QED BY <2>1, <2>2, Zenon DEF Calm, Typed

<1>RollbackCalm. ASSUME Typed, NEW r \in Requests, Rollback(r) \/ Crash(r)
                 PROVE  Calm(r)
  <2> USE <1>RollbackCalm
  <2> DEFINE x == [NoTx EXCEPT !.trk = tx[r].trk]
  <2>1. tx' = [tx EXCEPT ![r] = x] \/ tx' = [tx EXCEPT ![r] = NoTx]
    BY Zenon DEF Rollback, Crash
  <2>2. x \in TxType /\ x.held = {} /\ x.fresh = {} /\ x.upd = {}
    BY FieldsOf, Zenon DEF NoTx, TxType, Fields
  <2>3. NoTx \in TxType /\ NoTx.held = {} /\ NoTx.fresh = {} /\ NoTx.upd = {}
    BY EmptyTx, Zenon DEF NoTx
  <2> HIDE DEF x
  <2> QED BY <2>1, <2>2, <2>3, Zenon DEF Calm, Typed

<1>Staged. ASSUME Typed, NEW r \in Requests, NEW a \in Assets, NEW place \in Places, NEW more \in TxType,
                  Stage(r, a, place, more)
           PROVE  /\ tx' \in [Requests -> TxType] /\ \A q \in Requests \ {r} : tx'[q] = tx[q]
                  /\ tx'[r].held = more.held \union {a[1]} /\ tx'[r].assets = more.assets \union {a}
                  /\ tx'[r].fresh = more.fresh /\ tx'[r].upd = more.upd
  <2> USE <1>Staged
  <2> DEFINE cur == {[asset |-> a, place |-> place]}
             x == [more EXCEPT !.held = more.held \union {a[1]}, !.assets = more.assets \union {a}, !.cur = cur]
  <2>1. tx' = [tx EXCEPT ![r] = x]
    BY Zenon DEF Stage
  <2>2. cur \in SUBSET [asset : Assets, place : Places] /\ a[1] \in Contents
    BY AssetParts
  <2> HIDE DEF cur
  <2>3. /\ x \in TxType /\ x.held = more.held \union {a[1]} /\ x.assets = more.assets \union {a}
        /\ x.fresh = more.fresh /\ x.upd = more.upd
    BY <2>2, Zenon DEF TxType
  <2> HIDE DEF x
  <2> QED BY <2>1, <2>3, Zenon DEF Typed

<1>UpsertNewGrows. ASSUME Typed, NEW r \in Requests, NEW c \in Contents, UpsertNew(r, c)
                   PROVE  Grow(r, c) /\ ids' \in [Contents -> 0..MaxIds]
  <2> USE <1>UpsertNewGrows
  <2> DEFINE a == <<c, ids[c] + 1>>
             more == [tx[r] EXCEPT !.fresh = tx[r].fresh \union {c}, !.enq = tx[r].enq \union {a}]
  <2>1. ids[c] + 1 \in Ids /\ ids' = [ids EXCEPT ![c] = ids[c] + 1] /\ row[c].id = 0
    BY ConstantsAssumption DEF UpsertNew, Typed, Ids
  <2>2. a \in Assets /\ a[1] = c /\ "home" \in Places
    BY <2>1, Zenon DEF Assets, Places
  <2>3. Stage(r, a, "home", more)
    BY Zenon DEF UpsertNew
  <2>4. PICK i \in Ids : a = <<c, i>>
    BY <2>1, Zenon
  <2> HIDE DEF a
  <2>5. /\ more \in TxType /\ more.held = tx[r].held /\ more.assets = tx[r].assets
        /\ more.fresh = tx[r].fresh \union {c} /\ more.upd = tx[r].upd
    BY <2>2, FieldsOf, Zenon DEF TxType, Fields
  <2> HIDE DEF more
  <2>6. /\ tx' \in [Requests -> TxType] /\ \A q \in Requests \ {r} : tx'[q] = tx[q]
        /\ tx'[r].held = more.held \union {a[1]} /\ tx'[r].assets = more.assets \union {a}
        /\ tx'[r].fresh = more.fresh /\ tx'[r].upd = more.upd
    BY <2>2, <2>3, <2>5, <1>Staged
  <2>7. \E j \in Ids : <<c, j>> \in tx'[r].assets
    BY <2>4, <2>6, Zenon
  <2>8. Grow(r, c)
    BY <2>1, <2>2, <2>5, <2>6, <2>7 DEF Grow
  <2>9. ids' \in [Contents -> 0..MaxIds]
    BY <2>1 DEF Typed, Ids
  <2> QED BY <2>8, <2>9, Zenon

\* An existing row is used as it is, or a new scan of it is asked for.
<1>UpsertExistingGrows. ASSUME Typed, NEW r \in Requests, NEW c \in Contents, UpsertExisting(r, c)
                        PROVE  Grow(r, c) /\ ids' = ids
  <2> USE <1>UpsertExistingGrows
  <2> DEFINE a == AssetOf(c)
  <2>1. ids' = ids /\ row[c].id # 0
    BY Zenon DEF UpsertExisting
  <2> SUFFICES Grow(r, c)
    BY <2>1, Zenon
  <2>2. a \in Assets /\ a[1] = c /\ row[c].place \in Places
    <3>1. row[c].id \in 0..MaxIds /\ row[c].place \in Places
      BY Zenon DEF Typed, RowType
    <3>2. row[c].id \in Ids
      BY <2>1, <3>1, ConstantsAssumption DEF Ids
    <3> QED BY <3>1, <3>2, Zenon DEF AssetOf, Assets
  <2> HIDE DEF a
  <2>3. ASSUME NEW more \in TxType, Stage(r, a, row[c].place, more), more.held = tx[r].held,
               more.assets = tx[r].assets, more.fresh = tx[r].fresh,
               more.upd = tx[r].upd \/ (more.upd = tx[r].upd \union {a} /\ row[c].scan # "infected")
        PROVE  Grow(r, c)
    <3>1. /\ tx' \in [Requests -> TxType] /\ \A q \in Requests \ {r} : tx'[q] = tx[q]
          /\ tx'[r].held = more.held \union {a[1]} /\ tx'[r].assets = more.assets \union {a}
          /\ tx'[r].fresh = more.fresh /\ tx'[r].upd = more.upd
      BY <2>2, <2>3, <1>Staged
    <3> QED BY <2>2, <2>3, <3>1, Zenon DEF Grow
  <2>4. CASE tx' = [tx EXCEPT ![r].held = tx[r].held \union {c}]
    <3> DEFINE x == [tx[r] EXCEPT !.held = tx[r].held \union {c}]
    <3>1. tx' = [tx EXCEPT ![r] = x]
      BY <2>4, Zenon
    <3>2. /\ x \in TxType /\ x.held = tx[r].held \union {c} /\ x.fresh = tx[r].fresh /\ x.upd = tx[r].upd
          /\ x.assets = tx[r].assets
      BY FieldsOf, Zenon DEF TxType, Fields
    <3> HIDE DEF x
    <3> QED BY <3>1, <3>2, Zenon DEF Grow, Typed
  <2>5. CASE Stage(r, a, row[c].place, tx[r])
    BY <2>3, <2>5, FieldsOf, Zenon DEF Fields
  <2>6. CASE Stage(r, a, row[c].place, [tx[r] EXCEPT !.enq = tx[r].enq \union {a}])
    <3> DEFINE more == [tx[r] EXCEPT !.enq = tx[r].enq \union {a}]
    <3>1. /\ more \in TxType /\ more.held = tx[r].held /\ more.assets = tx[r].assets
          /\ more.fresh = tx[r].fresh /\ more.upd = tx[r].upd
      BY <2>2, FieldsOf, Zenon DEF TxType, Fields
    <3>2. Stage(r, a, row[c].place, more)
      BY <2>6, Zenon
    <3> HIDE DEF more
    <3> QED BY <2>3, <3>1, <3>2, Zenon
  <2>7. CASE /\ row[c].scan \in {"disabled", "scan_error"}
             /\ Stage(r, a, row[c].place, [tx[r] EXCEPT !.enq = tx[r].enq \union {a},
                                                       !.upd = tx[r].upd \union {a}])
    <3> DEFINE more == [tx[r] EXCEPT !.enq = tx[r].enq \union {a}, !.upd = tx[r].upd \union {a}]
    <3>1. /\ more \in TxType /\ more.held = tx[r].held /\ more.assets = tx[r].assets
          /\ more.fresh = tx[r].fresh /\ more.upd = tx[r].upd \union {a}
      BY <2>2, FieldsOf, Zenon DEF TxType, Fields
    <3>2. Stage(r, a, row[c].place, more)
      BY <2>7, Zenon
    <3> HIDE DEF more
    <3> QED BY <2>3, <2>7, <3>1, <3>2, Zenon
  <2> QED BY <2>1, <2>4, <2>5, <2>6, <2>7, Zenon DEF UpsertExisting, a

<1>HoldersKept. ASSUME FinalInv, SessionStep
                PROVE  \A r, q \in Requests : OneHolder(r, q)'
  <2> USE <1>HoldersKept
  <2> SUFFICES ASSUME NEW p \in Requests, NEW q \in Requests PROVE OneHolder(p, q)'
    OBVIOUS
  <2>1. OneHolder(p, q)
    BY Zenon DEF FinalInv
  <2>2. CASE tx' = tx
    BY <2>1, <2>2, Zenon DEF OneHolder
  <2>3. ASSUME NEW r \in Requests, Calm(r) PROVE OneHolder(p, q)'
    BY <2>1, <2>3, Zenon DEF OneHolder, Calm
  <2>4. ASSUME NEW r \in Requests, NEW c \in Contents, Grow(r, c), \A x \in Requests : c \notin tx[x].held
        PROVE  OneHolder(p, q)'
    BY <2>1, <2>4 DEF OneHolder, Grow
  <2> QED BY <2>2, <2>3, <2>4, Zenon DEF SessionStep

<1>FreshKept. ASSUME FinalInv, SessionStep, AbsentStays, NEW q \in Requests, NEW c \in tx'[q].fresh
              PROVE  c \in tx'[q].held /\ row'[c].id = 0 /\ \E i \in Ids : <<c, i>> \in tx'[q].assets
  <2> USE <1>FreshKept
  <2>1. Holds(q)
    BY Zenon DEF FinalInv
  <2>2. CASE tx' = tx
    BY <2>1, <2>2, Zenon DEF Holds, AbsentStays
  <2>3. ASSUME NEW r \in Requests, Calm(r)
        PROVE  c \in tx'[q].held /\ row[c].id = 0 /\ \E i \in Ids : <<c, i>> \in tx'[q].assets
    BY <2>1, <2>3, Zenon DEF Holds, Calm
  <2>4. ASSUME NEW r \in Requests, NEW d \in Contents, Grow(r, d)
        PROVE  c \in tx'[q].held /\ row[c].id = 0 /\ \E i \in Ids : <<c, i>> \in tx'[q].assets
    <3>1. CASE q # r
      BY <2>1, <2>4, <3>1, Zenon DEF Holds, Grow
    <3>2. CASE q = r /\ c \in tx[r].fresh
      BY <2>1, <2>4, <3>2, Zenon DEF Holds, Grow
    <3>3. CASE q = r /\ c \notin tx[r].fresh
      BY <2>4, <3>3, Zenon DEF Grow
    <3> QED BY <3>1, <3>2, <3>3, Zenon
  <2> QED BY <2>2, <2>3, <2>4, Zenon DEF SessionStep, AbsentStays

<1>UpdKept. ASSUME FinalInv, SessionStep, NEW q \in Requests, NEW a \in tx'[q].upd
            PROVE  a \in Assets /\ (HasRow(a) => row[a[1]].scan # "infected")
  <2> USE <1>UpdKept
  <2>1. Holds(q) /\ Typed /\ tx[q].upd \subseteq Assets
    BY FieldsOf, Zenon DEF FinalInv, Fields
  <2>2. CASE tx' = tx
    BY <2>1, <2>2, Zenon DEF Holds
  <2>3. ASSUME NEW r \in Requests, Calm(r)
        PROVE  a \in tx[q].upd
    BY <2>3, Zenon DEF Calm
  <2>4. ASSUME NEW r \in Requests, NEW d \in Contents, Grow(r, d)
        PROVE  a \in Assets /\ (HasRow(a) => row[a[1]].scan # "infected")
    <3>1. a \in Assets
      BY <2>4, Zenon DEF Grow, TxType
    <3> QED BY <2>1, <2>4, <3>1, Zenon DEF Holds, Grow
  <2> QED BY <2>1, <2>2, <2>3, <2>4, Zenon DEF SessionStep, Holds

<1>SoftKept. ASSUME Typed, Softens, NEW a \in Assets, HasRow(a) => row[a[1]].scan # "infected"
             PROVE  HasRow(a)' => row'[a[1]].scan # "infected"
  BY <1>SoftKept, AssetParts, Zenon DEF Softens, HasRow

\* Everything but the worker that steps.
<1>StepKeeps. ASSUME FinalInv, Typed', SessionStep, AbsentStays, Softens, NEW W \in SUBSET Workers,
                     \A v \in Workers \ W : scan'[v] = scan[v],
                     \A a \in Assets : job[a] \in Workers \ W => job'[a] = job[a],
                     Exclusive => \A w \in W : Scans(w)'
              PROVE  FinalInv'
  <2> USE <1>StepKeeps
  <2>0. Typed
    BY Zenon DEF FinalInv
  <2>1. ASSUME NEW q \in Requests PROVE Holds(q)'
    <3>1. ASSUME NEW a \in tx'[q].upd PROVE HasRow(a)' => row'[a[1]].scan # "infected"
      BY <2>0, <3>1, <1>UpdKept, <1>SoftKept, Zenon
    <3> QED BY <3>1, <1>FreshKept, Zenon DEF Holds
  <2>2. ASSUME Exclusive, NEW v \in Workers \ W PROVE Scans(v)'
    <3>1. Scans(v) /\ scan'[v] = scan[v] /\ scan[v] \subseteq ScanType
      BY <2>0, <2>2, Zenon DEF FinalInv, Typed
    <3>2. ASSUME NEW s \in scan[v] PROVE /\ scan'[v] = {s} /\ job'[s.asset] = v
                                         /\ s.step \in {"start", "scanning", "clean", "scan_error"} /\ HasRow(s.asset)'
                                                => row'[s.asset[1]].scan # "infected"
      <4>1. s.asset \in Assets /\ scan[v] = {s} /\ job[s.asset] = v
        BY <3>1, <3>2, Zenon DEF Scans, ScanType
      <4>2. s.step \in {"start", "scanning", "clean", "scan_error"} =>
               (HasRow(s.asset) => row[s.asset[1]].scan # "infected")
        BY <3>1, <3>2, Zenon DEF Scans
      <4>3. job'[s.asset] = v
        BY <4>1, Zenon
      <4> QED BY <2>0, <3>1, <4>1, <4>2, <4>3, <1>SoftKept, Zenon
    <3> QED BY <3>1, <3>2, Zenon DEF Scans
  <2>3. ASSUME NEW c \in Contents PROVE NoRowIsClear(c)'
    BY Zenon DEF FinalInv, NoRowIsClear, Softens
  <2> QED BY <2>1, <2>2, <2>3, <1>HoldersKept, Zenon DEF FinalInv

\* A step of the sessions that leaves rows and workers alone.
<1>SessionKeeps. ASSUME FinalInv, SessionStep, infected' = infected, row' = row, scan' = scan,
                        ids' \in [Contents -> 0..MaxIds], job' \in [Assets -> {"none", "queued"} \union Workers],
                        \A a \in Assets : job[a] \in Workers => job'[a] = job[a]
                 PROVE  FinalInv'
  <2> USE <1>SessionKeeps
  <2>1. tx' \in [Requests -> TxType]
    BY Zenon DEF SessionStep, Calm, Grow, FinalInv, Typed
  <2>2. Typed'
    BY <2>1, Zenon DEF FinalInv, Typed
  <2>3. AbsentStays /\ Softens
    BY Zenon DEF AbsentStays, Softens
  <2>4. PICK W \in SUBSET Workers : W = {}
    BY Zenon
  <2>5. /\ \A v \in Workers \ W : scan'[v] = scan[v]
        /\ \A a \in Assets : job[a] \in Workers \ W => job'[a] = job[a]
        /\ \A w \in W : Scans(w)'
    BY <2>4, Zenon
  <2> QED BY <2>2, <2>3, <2>5, <1>StepKeeps, Zenon

<1>UpsertKeeps. ASSUME FinalInv, NEW r \in Requests, NEW c \in Contents, Upsert(r, c), infected' = infected
                PROVE  FinalInv' /\ row' = row /\ scan' = scan
  <2> USE <1>UpsertKeeps
  <2>1. row' = row /\ scan' = scan /\ job' = job /\ \A q \in Requests : c \notin tx[q].held
    BY Zenon DEF Upsert, jobVars
  <2>2. Typed
    BY Zenon DEF FinalInv
  <2>3. Grow(r, c) /\ ids' \in [Contents -> 0..MaxIds]
    BY <2>2, <1>UpsertNewGrows, <1>UpsertExistingGrows, Zenon DEF Upsert, Typed
  <2>4. SessionStep
    BY <2>1, <2>3, Zenon DEF SessionStep
  <2> QED BY <2>1, <2>2, <2>3, <2>4, <1>SessionKeeps, Zenon DEF Typed

<1>CalmKeeps. ASSUME FinalInv, NEW r \in Requests, Calm(r) \/ tx' = tx, infected' = infected, row' = row, scan' = scan,
                     ids' = ids, job' = job
              PROVE  FinalInv'
  <2> USE <1>CalmKeeps
  <2>1. SessionStep
    BY Zenon DEF SessionStep
  <2> QED BY <2>1, <1>SessionKeeps, Zenon DEF FinalInv, Typed

<1>RequestKeeps. ASSUME FinalInv, NEW r \in Requests, infected' = infected,
                        Request(r) \/ Rollback(r) \/ Unlink(r) \/ SavepointFails(r) \/ Crash(r)
                 PROVE  FinalInv' /\ row' = row /\ scan' = scan
  <2> USE <1>RequestKeeps
  <2>0. Typed
    BY Zenon DEF FinalInv
  <2>1. CASE Save(r) \/ CleanEnd(r)
    <3>1. row' = row /\ ids' = ids /\ job' = job /\ scan' = scan
      BY <2>1, Zenon DEF Save, CleanEnd, storeVars, jobVars
    <3>2. Calm(r) \/ tx' = tx
      BY <2>0, <2>1, <1>SaveCalm, Zenon DEF CleanEnd
    <3> QED BY <3>1, <3>2, <1>CalmKeeps, Zenon
  <2>2. CASE \E path \in Paths : CleanCheck(r, path) \/ CleanDelete(r, path)
    <3>1. row' = row /\ ids' = ids /\ job' = job /\ scan' = scan
      BY <2>2, Zenon DEF CleanCheck, CleanDelete, storeVars, jobVars
    <3>2. Calm(r)
      BY <2>0, <2>2, <1>CleanCalm, Zenon
    <3> QED BY <3>1, <3>2, <1>CalmKeeps, Zenon
  <2>3. CASE \E a \in Assets : EnqueueScan(r, a)
    <3>1. PICK a \in Assets : EnqueueScan(r, a)
      BY <2>3, Zenon
    <3>2. row' = row /\ ids' = ids /\ scan' = scan
      BY <3>1, Zenon DEF EnqueueScan, storeVars
    <3>3. job' = job \/ job' = [job EXCEPT ![a] = IF job[a] = "none" THEN "queued" ELSE job[a]]
      BY <3>1, Zenon DEF EnqueueScan
    <3>4. /\ job' \in [Assets -> {"none", "queued"} \union Workers]
          /\ \A b \in Assets : job[b] \in Workers => job'[b] = job[b]
      BY <2>0, <3>3, ConstantsAssumption, Zenon DEF Typed
    <3>5. SessionStep
      BY <2>0, <3>1, <1>EnqueueCalm, Zenon DEF SessionStep
    <3> QED BY <2>0, <3>2, <3>4, <3>5, <1>SessionKeeps, Zenon DEF Typed
  <2>4. CASE Rollback(r) \/ SavepointFails(r) \/ Crash(r)
    <3>1. row' = row /\ ids' = ids /\ job' = job /\ scan' = scan
      BY <2>4, Zenon DEF Rollback, SavepointFails, Crash, storeVars, jobVars
    <3>2. Calm(r)
      BY <2>0, <2>4, <1>RollbackCalm, <1>SavepointCalm, Zenon
    <3> QED BY <3>1, <3>2, <1>CalmKeeps
  <2>5. CASE Unlink(r)
    <3>1. row' = row /\ ids' = ids /\ job' = job /\ scan' = scan
      BY <2>5, Zenon DEF Unlink, jobVars
    <3>2. Calm(r)
      BY <2>0, <2>5, <1>PurgeTxCalm, Zenon DEF Unlink
    <3> QED BY <3>1, <3>2, <1>CalmKeeps
  <2> QED BY <2>1, <2>2, <2>3, <2>4, <2>5, Zenon DEF Request

\* After Forget the session is as it was or ready for the next asset.
<1>ForgetCalm. ASSUME Typed, NEW p \in Requests \union {Sweep}, NEW a, Forget(p, a)
               PROVE  SessionStep
  <2> USE <1>ForgetCalm
  <2>1. CASE p = Sweep
    BY <2>1, Zenon DEF Forget, procVars, SessionStep
  <2>2. CASE p # Sweep
    <3>1. p \in Requests /\ ToPurge(p, tx[p].enq \ {a})
      BY <2>2, Zenon DEF Forget
    <3>2. Calm(p)
      BY <3>1, FieldsOf, <1>PurgeTxCalm, Zenon DEF Fields
    <3> QED BY <3>1, <3>2, Zenon DEF SessionStep
  <2> QED BY <2>1, <2>2, Zenon

<1>PurgeKeeps. ASSUME FinalInv, NEW p \in Requests \union {Sweep}, infected' = infected,
                      PurgeFile(p) \/ \E a \in Assets : PurgeCheck(p, a)
               PROVE  FinalInv' /\ row' = row /\ scan' = scan
  <2> USE <1>PurgeKeeps
  <2>0. Typed
    BY Zenon DEF FinalInv
  <2>1. row' = row /\ ids' = ids /\ job' = job /\ scan' = scan
    BY Zenon DEF PurgeFile, PurgeCheck, storeVars, jobVars
  <2>2. SessionStep
    BY <2>0, <1>ForgetCalm, Zenon DEF PurgeFile, PurgeCheck, procVars, SessionStep
  <2> QED BY <2>0, <2>1, <2>2, <1>SessionKeeps, Zenon DEF Typed

\* The transaction of r becomes visible.
<1>CommitRows. ASSUME Typed, NEW r \in Requests, Holds(r), Commit(r)
               PROVE  /\ row' \in [Contents -> RowType]
                      /\ \A c \in Contents :
                            \/ c \in tx[r].fresh /\ row'[c].scan = "pending_scan"
                            \/ AssetOf(c) \in tx[r].upd /\ row'[c].scan = "pending_scan" /\ row'[c].id = row[c].id
                            \/ row'[c] = row[c]
  <2> USE <1>CommitRows
  <2> DEFINE New(c) == [id |-> CHOOSE i \in Ids : <<c, i>> \in tx[r].assets, place |-> "home", scan |-> "pending_scan"]
             Set(c) == [row[c] EXCEPT !.scan = "pending_scan"]
  <2>1. row' = [c \in Contents |-> IF c \in tx[r].fresh THEN New(c)
                                   ELSE IF AssetOf(c) \in tx[r].upd THEN Set(c) ELSE row[c]]
    BY Zenon DEF Commit
  <2>2. ASSUME NEW c \in tx[r].fresh PROVE New(c) \in RowType /\ New(c).scan = "pending_scan"
    <3> DEFINE i == CHOOSE i \in Ids : <<c, i>> \in tx[r].assets
    <3>1. i \in Ids
      BY Zenon DEF Holds
    <3>2. i \in 0..MaxIds
      BY <3>1, ConstantsAssumption DEF Ids
    <3> HIDE DEF i
    <3>3. [id |-> i, place |-> "home", scan |-> "pending_scan"] \in RowType
      BY <3>2, Zenon DEF RowType, Places, Statuses
    <3> QED BY <3>3, Zenon DEF i
  <2>3. ASSUME NEW c \in Contents PROVE Set(c) \in RowType /\ Set(c).scan = "pending_scan" /\ Set(c).id = row[c].id
    <3>1. row[c] \in RowType
      BY Zenon DEF Typed
    <3> QED BY <3>1, Zenon DEF RowType, Statuses
  <2> HIDE DEF New, Set
  <2>4. row' \in [Contents -> RowType]
    BY <2>1, <2>2, <2>3, Zenon DEF Typed
  <2>5. ASSUME NEW c \in Contents
        PROVE  \/ c \in tx[r].fresh /\ row'[c].scan = "pending_scan"
               \/ AssetOf(c) \in tx[r].upd /\ row'[c].scan = "pending_scan" /\ row'[c].id = row[c].id
               \/ row'[c] = row[c]
    BY <2>1, <2>2, <2>3, Zenon
  <2> QED BY <2>4, <2>5, Zenon

<1>CommitKeeps. ASSUME FinalInv, NEW r \in Requests, Commit(r), infected' = infected
                PROVE  FinalInv' /\ Final /\ Typed' /\ Softens /\ scan' = scan
                       /\ \A c \in Contents : row'[c] = row[c] \/ row'[c].scan = "pending_scan"
  <2> USE <1>CommitKeeps
  <2>0. Typed /\ Holds(r)
    BY Zenon DEF FinalInv
  <2>1. ids' = ids /\ job' = job /\ scan' = scan
    BY Zenon DEF Commit, jobVars
  <2>2. /\ row' \in [Contents -> RowType]
        /\ \A c \in Contents :
              \/ c \in tx[r].fresh /\ row'[c].scan = "pending_scan"
              \/ AssetOf(c) \in tx[r].upd /\ row'[c].scan = "pending_scan" /\ row'[c].id = row[c].id
              \/ row'[c] = row[c]
    BY <2>0, <1>CommitRows, Zenon
  <2>3. Calm(r) /\ tx'[r].fresh = {}
    <3> DEFINE x == [NoTx EXCEPT !.trk = tx[r].trk, !.enq = tx[r].enq, !.after = "linked"]
    <3>1. x \in TxType /\ x.held = {} /\ x.fresh = {} /\ x.upd = {}
      BY <2>0, FieldsOf, Zenon DEF NoTx, TxType, Fields
    <3>2. tx' = [tx EXCEPT ![r] = x]
      BY Zenon DEF Commit
    <3> HIDE DEF x
    <3> QED BY <2>0, <3>1, <3>2, Zenon DEF Calm, Typed
  <2>4. SessionStep /\ Typed'
    BY <2>0, <2>1, <2>2, <2>3, Zenon DEF SessionStep, Typed, Calm
  <2>5. \A c \in Contents : row'[c] = row[c] \/ row'[c].scan = "pending_scan"
    BY <2>2, Zenon
  <2>6. Softens
    BY <2>5, Zenon DEF Softens
  <2>7. AbsentStays
    <3> SUFFICES ASSUME NEW q \in Requests, NEW c \in tx'[q].fresh PROVE row[c].id = 0 => row'[c].id = 0
      BY Zenon DEF AbsentStays
    <3>1. q # r /\ tx'[q] = tx[q]
      BY <2>3, Zenon DEF Calm
    <3>2. c \in Contents /\ c \in tx[q].held
      BY <2>0, <3>1, FieldsOf, Zenon DEF FinalInv, Holds, Fields
    <3>3. c \notin tx[r].fresh
      BY <3>1, <3>2, Zenon DEF FinalInv, Holds, OneHolder
    <3> QED BY <2>2, <3>2, <3>3, Zenon
  <2>8. FinalInv'
    <3>1. PICK W \in SUBSET Workers : W = {}
      BY Zenon
    <3>2. /\ \A v \in Workers \ W : scan'[v] = scan[v]
          /\ \A a \in Assets : job[a] \in Workers \ W => job'[a] = job[a]
          /\ \A w \in W : Scans(w)'
      BY <2>1, <3>1, Zenon
    <3> QED BY <2>4, <2>6, <2>7, <3>2, <1>StepKeeps, Zenon
  <2>9. Final
    <3> SUFFICES ASSUME NEW c \in Contents, row[c].scan = "infected" PROVE row'[c] = row[c]
      BY Zenon DEF Final
    <3>1. c \notin tx[r].fresh
      BY <2>0, Zenon DEF Holds, FinalInv, NoRowIsClear
    <3>2. AssetOf(c) \notin tx[r].upd
      <4>1. HasRow(AssetOf(c)) /\ AssetOf(c)[1] = c
        BY Zenon DEF HasRow, AssetOf
      <4> QED BY <2>0, <4>1, Zenon DEF Holds
    <3> QED BY <2>2, <3>1, <3>2, Zenon
  <2> QED BY <2>1, <2>4, <2>5, <2>6, <2>8, <2>9, Zenon

<1>PurgeRowKeeps. ASSUME FinalInv, NEW p \in Requests \union {Sweep}, PurgeRow(p), infected' = infected
                  PROVE  FinalInv' /\ Final /\ Typed' /\ scan' = scan
                         /\ \A c \in Contents : row'[c] = row[c] \/ row'[c].id = 0
  <2> USE <1>PurgeRowKeeps
  <2>0. Typed
    BY Zenon DEF FinalInv
  <2>1. ids' = ids /\ job' = job /\ scan' = scan
    BY Zenon DEF PurgeRow, jobVars
  <2>2. PICK s \in purge[p] : Forget(p, s.asset) /\ (row' = row \/ row' = [row EXCEPT ![s.asset[1]] = NoRow])
    BY Zenon DEF PurgeRow
  <2>3. SessionStep
    BY <2>0, <2>2, <1>ForgetCalm, Zenon
  <2>4. NoRow \in RowType /\ NoRow.id = 0 /\ NoRow.scan # "infected"
    BY ConstantsAssumption DEF NoRow, RowType, Places, Statuses
  <2>5. row' \in [Contents -> RowType] /\ \A c \in Contents : row'[c] = row[c] \/ row'[c] = NoRow
    BY <2>0, <2>2, <2>4 DEF Typed
  <2>6. tx' \in [Requests -> TxType]
    BY <2>0, <2>3, Zenon DEF SessionStep, Calm, Grow, Typed
  <2>7. Typed'
    BY <2>0, <2>1, <2>5, <2>6, Zenon DEF Typed
  <2>8. Softens /\ Final
    BY <2>4, <2>5, Zenon DEF Softens, Final, FinalInv, NoRowIsClear
  <2>9. AbsentStays
    BY <2>4, <2>5, <2>6, Zenon DEF AbsentStays, TxType
  <2>10. FinalInv'
    <3>1. PICK W \in SUBSET Workers : W = {}
      BY Zenon
    <3>2. /\ \A v \in Workers \ W : scan'[v] = scan[v]
          /\ \A a \in Assets : job[a] \in Workers \ W => job'[a] = job[a]
          /\ \A w \in W : Scans(w)'
      BY <2>1, <3>1, Zenon
    <3> QED BY <2>3, <2>7, <2>8, <2>9, <3>2, <1>StepKeeps, Zenon
  <2> QED BY <2>1, <2>4, <2>5, <2>7, <2>8, <2>10, Zenon

<1>AtTyped. ASSUME Typed, NEW w \in Workers, NEW t \in ScanType, NEW step \in Steps, At(w, t, step)
            PROVE  \E x \in ScanType : /\ x.asset = t.asset /\ x.step = step /\ scan'[w] = {x}
                                      /\ scan' \in [Workers -> SUBSET ScanType]
                                      /\ \A v \in Workers \ {w} : scan'[v] = scan[v]
  <2> USE <1>AtTyped
  <2> DEFINE x == [t EXCEPT !.step = step]
  <2>1. scan' = [scan EXCEPT ![w] = {x}]
    BY Zenon DEF At
  <2>2. x \in ScanType /\ x.asset = t.asset /\ x.step = step
    BY Zenon DEF ScanType
  <2> HIDE DEF x
  <2>3. scan'[w] = {x} /\ scan' \in [Workers -> SUBSET ScanType] /\ \A v \in Workers \ {w} : scan'[v] = scan[v]
    BY <2>1, <2>2, Zenon DEF Typed
  <2> QED BY <2>2, <2>3, Zenon

<1>AtMoves. ASSUME Typed, NEW w \in Workers, NEW s \in scan[w], NEW step \in Steps, NEW place \in Places,
                   At(w, s, step) \/ At(w, [s EXCEPT !.place = place], step)
            PROVE  Moves(w, s.asset, step)
  <2> USE <1>AtMoves
  <2>1. s \in ScanType
    BY ScanTyped, Zenon
  <2>2. CASE At(w, s, step)
    BY <2>1, <2>2, <1>AtTyped DEF Moves
  <2>3. CASE At(w, [s EXCEPT !.place = place], step)
    <3> DEFINE t == [s EXCEPT !.place = place]
    <3>1. t \in ScanType /\ t.asset = s.asset
      BY <2>1, Zenon DEF ScanType
    <3>2. At(w, t, step)
      BY <2>3, Zenon
    <3> HIDE DEF t
    <3> QED BY <3>1, <3>2, <1>AtTyped DEF Moves
  <2> QED BY <2>2, <2>3, Zenon

<1>ScanKeeps. ASSUME FinalInv, tx' = tx, ids' = ids, job' = job, infected' = infected,
                     NEW w \in Workers, NEW s \in scan[w], NEW step \in Steps, Moves(w, s.asset, step),
                     row' \in [Contents -> RowType], \A c \in Contents : row'[c].id = row[c].id, Softens,
                     Exclusive /\ step \in Trusting => (HasRow(s.asset)' => row'[s.asset[1]].scan # "infected")
              PROVE  FinalInv' /\ Typed'
  <2> USE <1>ScanKeeps
  <2>1. Typed /\ Typed'
    BY Zenon DEF FinalInv, Typed, Moves
  <2>2. SessionStep
    BY Zenon DEF SessionStep
  <2>3. AbsentStays
    BY <2>1, FieldsOf, Zenon DEF AbsentStays, Fields
  <2>4. Exclusive => Scans(w)'
    <3> SUFFICES ASSUME Exclusive PROVE Scans(w)'
      OBVIOUS
    <3>1. PICK x \in ScanType : x.asset = s.asset /\ x.step = step /\ scan'[w] = {x}
      BY Zenon DEF Moves
    <3>2. job'[x.asset] = w
      BY <3>1 DEF FinalInv, Scans
    <3> QED BY <3>1, <3>2, Zenon DEF Scans, Trusting
  <2>5. PICK W \in SUBSET Workers : W = {w}
    BY Zenon
  <2>6. /\ \A v \in Workers \ W : scan'[v] = scan[v]
        /\ \A a \in Assets : job[a] \in Workers \ W => job'[a] = job[a]
        /\ Exclusive => \A v \in W : Scans(v)'
    BY <2>4, <2>5, Zenon DEF Moves
  <2> QED BY <2>1, <2>2, <2>3, <2>6, <1>StepKeeps, Zenon

<1>ReadKeeps. ASSUME FinalInv, NEW w \in Workers, NEW s \in scan[w], infected' = infected,
                     ScanRead(w, s) \/ Verdict(w, s) \/ MoveAway(w, s)
              PROVE  FinalInv' /\ row' = row
  <2> USE <1>ReadKeeps
  <2>1. row' = row /\ ids' = ids /\ job' = job /\ tx' = tx
    BY Zenon DEF ScanRead, Verdict, MoveAway, storeVars, jobVars, procVars
  <2>2. Typed /\ s \in ScanType /\ s.asset \in Assets /\ s.asset[1] \in Contents
    BY ScanTyped, Zenon DEF FinalInv
  <2>3. Softens /\ row' \in [Contents -> RowType]
    BY <2>1, <2>2, Zenon DEF Softens, Typed
  <2>4. HasRow(s.asset)' <=> HasRow(s.asset)
    BY <2>1, Zenon DEF HasRow
  <2>5. ASSUME NEW step \in Steps, Moves(w, s.asset, step),
               Exclusive /\ step \in Trusting => (HasRow(s.asset) => row[s.asset[1]].scan # "infected")
        PROVE  FinalInv'
    BY <2>1, <2>3, <2>4, <2>5, <1>ScanKeeps, Zenon
  <2>6. CASE ScanRead(w, s)
    <3>1. row[s.asset[1]].place \in Places /\ "home" \in Places
      BY <2>2, Zenon DEF Typed, RowType, Places
    <3>2. CASE /\ row[s.asset[1]].scan # "infected"
               /\ At(w, [s EXCEPT !.place = row[s.asset[1]].place], "start")
      <4>1. Moves(w, s.asset, "start")
        BY <2>2, <3>1, <3>2, <1>AtMoves, Zenon DEF Steps
      <4> QED BY <2>1, <2>5, <3>2, <4>1, Zenon DEF Steps
    <3>3. CASE At(w, s, "succeed")
      <4>1. Moves(w, s.asset, "succeed")
        BY <2>2, <3>1, <3>3, <1>AtMoves, Zenon DEF Steps
      <4> QED BY <2>1, <2>5, <4>1, Zenon DEF Steps, Trusting
    <3> QED BY <2>6, <3>2, <3>3, Zenon DEF ScanRead
  <2>7. CASE Verdict(w, s)
    <3>1. PICK step \in {"move", "clean", "scan_error"} : At(w, s, step)
      BY <2>7, Zenon DEF Verdict
    <3>2. step \in Steps /\ "home" \in Places
      BY <3>1, Zenon DEF Steps, Places
    <3>3. Moves(w, s.asset, step)
      BY <2>2, <3>1, <3>2, <1>AtMoves, Zenon
    <3>4. Exclusive => (HasRow(s.asset) => row[s.asset[1]].scan # "infected")
      BY <2>7, Trusts, Zenon DEF Verdict, Trusting
    <3> QED BY <2>1, <2>5, <3>2, <3>3, <3>4, Zenon
  <2>8. CASE MoveAway(w, s)
    <3>1. Moves(w, s.asset, "infected")
      <4>1. "infected" \in Steps /\ "quarantine" \in Places
        BY Zenon DEF Steps, Places
      <4> QED BY <2>2, <2>8, <4>1, <1>AtMoves, Zenon DEF MoveAway
    <3> QED BY <2>1, <2>5, <3>1, Zenon DEF Steps, Trusting
  <2> QED BY <2>6, <2>7, <2>8, Zenon

\* The worker writes a status that is not a verdict of infection.
<1>WriteKeeps. ASSUME FinalInv, NEW w \in Workers, NEW s \in scan[w], infected' = infected,
                      ScanStart(w, s) \/ WriteStatus(w, s)
               PROVE  /\ FinalInv' /\ (Exclusive => Final)
                      /\ \E step \in {"scanning", "succeed", "fail"} : Moves(w, s.asset, step)
                      /\ \A c \in Contents : \/ row'[c] = row[c] \/ row'[c].scan \in {"scanning", "scan_error"}
                                             \/ c = s.asset[1] /\ s.step = "clean"
  <2> USE <1>WriteKeeps
  <2>1. ids' = ids /\ job' = job /\ tx' = tx
    BY Zenon DEF ScanStart, WriteStatus, jobVars, procVars
  <2>2. Typed /\ s \in ScanType /\ s.asset \in Assets /\ s.asset[1] \in Contents
    BY ScanTyped, Zenon DEF FinalInv
  <2>3. row[s.asset[1]].place \in Places
    BY <2>2, Zenon DEF Typed, RowType
  <2>4. PICK status \in {"scanning", "clean", "scan_error"} :
           /\ SetRow(s.asset, row[s.asset[1]].place, status)
           /\ status = "clean" => s.step = "clean"
    BY Zenon DEF ScanStart, WriteStatus
  <2>5. s.step \in Trusting
    BY Zenon DEF ScanStart, WriteStatus, Trusting
  <2>6. PICK step \in {"scanning", "succeed", "fail"} : At(w, s, step)
    BY Zenon DEF ScanStart, WriteStatus
  <2>7. Moves(w, s.asset, step) /\ step \in Steps
    BY <2>2, <2>3, <2>6, <1>AtMoves, Zenon DEF Steps
  <2>8. /\ row' \in [Contents -> RowType]
        /\ \A c \in Contents : row'[c].id = row[c].id
        /\ \A c \in Contents : row'[c] = row[c] \/ (c = s.asset[1] /\ HasRow(s.asset) /\ row'[c].scan = status)
        /\ HasRow(s.asset) => row'[s.asset[1]].scan = status
        /\ HasRow(s.asset)' <=> HasRow(s.asset)
    <3>1. status \in Statuses
      BY <2>4, Zenon DEF Statuses
    <3> QED BY <2>2, <2>3, <2>4, <3>1, SetRowDoes, Zenon DEF RowSet
  <2>9. Softens
    BY <2>4, <2>8, Zenon DEF Softens
  <2>10. HasRow(s.asset)' => row'[s.asset[1]].scan # "infected"
    BY <2>4, <2>8, Zenon
  <2>11. FinalInv'
    BY <2>1, <2>7, <2>8, <2>9, <2>10, <1>ScanKeeps, Zenon
  <2>12. Exclusive => Final
    BY <2>5, <2>8, Trusts, Zenon DEF Final
  <2> QED BY <2>4, <2>7, <2>8, <2>11, <2>12, Zenon

\* A worker takes a job or gives it up: the jobs of the others stay theirs.
<1>JobKeeps. ASSUME FinalInv, tx' = tx, row' = row, ids' = ids, infected' = infected, NEW w \in Workers,
                    scan' \in [Workers -> SUBSET ScanType], \A v \in Workers \ {w} : scan'[v] = scan[v],
                    job' \in [Assets -> {"none", "queued"} \union Workers],
                    \A a \in Assets : job[a] \in Workers \ {w} => job'[a] = job[a],
                    Exclusive => Scans(w)'
             PROVE  FinalInv'
  <2> USE <1>JobKeeps
  <2>1. Typed'
    BY Zenon DEF FinalInv, Typed
  <2>2. SessionStep /\ AbsentStays /\ Softens
    BY Zenon DEF SessionStep, AbsentStays, Softens
  <2>3. PICK W \in SUBSET Workers : W = {w}
    BY Zenon
  <2>4. /\ \A v \in Workers \ W : scan'[v] = scan[v]
        /\ \A a \in Assets : job[a] \in Workers \ W => job'[a] = job[a]
        /\ Exclusive => \A v \in W : Scans(v)'
    BY <2>3, Zenon
  <2> QED BY <2>1, <2>2, <2>4, <1>StepKeeps, Zenon

<1>ClaimKeeps. ASSUME FinalInv, NEW w \in Workers, NEW a \in Assets, Claim(w, a), infected' = infected
               PROVE  FinalInv' /\ row' = row /\ Moves(w, a, "read")
  <2> USE <1>ClaimKeeps
  <2> DEFINE x == [asset |-> a, place |-> "home", step |-> "read"]
  <2>1. /\ row' = row /\ ids' = ids /\ tx' = tx /\ job[a] = "queued"
        /\ job' = [job EXCEPT ![a] = w] /\ scan' = [scan EXCEPT ![w] = {x}]
    BY Zenon DEF Claim, storeVars, procVars
  <2>2. x \in ScanType /\ x.asset = a /\ x.step = "read"
    BY Zenon DEF ScanType, Places, Steps
  <2> HIDE DEF x
  <2>3. Typed
    BY Zenon DEF FinalInv
  <2>4. Moves(w, a, "read") /\ scan'[w] = {x}
    BY <2>1, <2>2, <2>3, Zenon DEF Moves, Typed
  <2>5. /\ job' \in [Assets -> {"none", "queued"} \union Workers] /\ job'[a] = w
        /\ \A b \in Assets : job[b] \in Workers \ {w} => job'[b] = job[b]
    BY <2>1, <2>3, ConstantsAssumption, Zenon DEF Typed
  <2>6. Scans(w)'
    BY <2>2, <2>4, <2>5, Zenon DEF Scans
  <2>7. scan' \in [Workers -> SUBSET ScanType] /\ \A v \in Workers \ {w} : scan'[v] = scan[v]
    BY <2>4, Zenon DEF Moves
  <2> QED BY <2>1, <2>4, <2>5, <2>6, <2>7, <1>JobKeeps, Zenon

<1>SettleKeeps. ASSUME FinalInv, NEW w \in Workers, NEW s \in scan[w], infected' = infected,
                       Settle(w, s) \/ Recover(w, s)
                PROVE  FinalInv' /\ row' = row /\ (scan' = scan \/ scan' = [scan EXCEPT ![w] = {}])
  <2> USE <1>SettleKeeps
  <2>1. row' = row /\ ids' = ids /\ tx' = tx
    BY Zenon DEF Settle, Recover, storeVars, procVars
  <2>2. Typed /\ s.asset \in Assets
    BY ScanTyped, Zenon DEF FinalInv
  <2>3. job' = job \/ (job[s.asset] = w /\ \E j \in {"none", "queued"} : job' = [job EXCEPT ![s.asset] = j])
    BY Zenon DEF Settle, Recover, jobVars
  <2>4. /\ job' \in [Assets -> {"none", "queued"} \union Workers]
        /\ \A b \in Assets : job[b] \in Workers \ {w} => job'[b] = job[b]
    BY <2>2, <2>3, Zenon DEF Typed
  <2>5. CASE scan' = [scan EXCEPT ![w] = {}]
    <3>1. /\ scan' \in [Workers -> SUBSET ScanType] /\ \A v \in Workers \ {w} : scan'[v] = scan[v]
          /\ scan'[w] = {}
      BY <2>2, <2>5, Zenon DEF Typed
    <3>2. Scans(w)'
      BY <3>1, Zenon DEF Scans
    <3> QED BY <2>1, <2>4, <2>5, <3>1, <3>2, <1>JobKeeps, Zenon
  <2>6. CASE scan' = scan /\ ~Exclusive
    <3>1. scan' \in [Workers -> SUBSET ScanType] /\ \A v \in Workers \ {w} : scan'[v] = scan[v]
      BY <2>2, <2>6, Zenon DEF Typed
    <3> QED BY <2>1, <2>4, <2>6, <3>1, <1>JobKeeps, Zenon
  <2> QED BY <2>5, <2>6, Zenon DEF Settle, Recover, Fault, Exclusive

\* The verdict is written while no transaction has the row and, the job being
\* this worker's, no other worker relies on it.
<1>InfectedKeeps. ASSUME FinalInv, NEW w \in Workers, NEW s \in scan[w], WriteInfected(w, s), infected' = infected
                  PROVE  /\ FinalInv' /\ Final /\ Moves(w, s.asset, "succeed")
                         /\ \A c \in Contents : row'[c] = row[c] \/ row'[c].scan = "infected"
  <2> USE <1>InfectedKeeps
  <2> DEFINE a == s.asset
  <2>1. ids' = ids /\ job' = job /\ tx' = tx
    BY Zenon DEF WriteInfected, jobVars, procVars
  <2>2. Typed /\ s \in ScanType /\ a \in Assets /\ a[1] \in Contents /\ s.place \in Places
    BY ScanTyped, Zenon DEF FinalInv, ScanType
  <2>3. Moves(w, a, "succeed")
    BY <2>2, <1>AtMoves, Zenon DEF WriteInfected, Steps
  <2>4. /\ row' \in [Contents -> RowType]
        /\ \A c \in Contents : row'[c].id = row[c].id
        /\ \A c \in Contents : row'[c] = row[c] \/ (c = a[1] /\ HasRow(a) /\ row'[c].scan = "infected")
    BY <2>2, SetRowDoes, Zenon DEF WriteInfected, Statuses, RowSet
  <2>5. ~RowLocked(a)
    BY Zenon DEF WriteInfected, SetRow
  <2> HIDE DEF a
  <2>6. ASSUME NEW b \in Assets, HasRow(b)', b # a PROVE HasRow(b) /\ row'[b[1]] = row[b[1]]
    <3>1. b[1] \in Contents /\ b = <<b[1], b[2]>> /\ a = <<a[1], a[2]>>
      BY <2>2, AssetParts, Zenon
    <3>2. HasRow(b)
      BY <2>4, <2>6, <3>1, Zenon DEF HasRow
    <3> QED BY <2>4, <2>6, <3>1, <3>2, Zenon DEF HasRow
  <2>7. Typed'
    BY <2>1, <2>2, <2>3, <2>4, Zenon DEF Typed, Moves
  <2>8. ASSUME NEW q \in Requests PROVE Holds(q)'
    <3>1. Holds(q) /\ tx[q].upd \subseteq Assets /\ tx[q].fresh \subseteq Contents
      BY <2>2, FieldsOf, Zenon DEF FinalInv, Fields
    <3>2. ASSUME NEW b \in tx[q].upd, HasRow(b)' PROVE row'[b[1]].scan # "infected"
      <4>1. b # a
        BY <2>5, <3>2, Zenon DEF RowLocked
      <4> QED BY <2>6, <3>1, <3>2, <4>1, Zenon DEF Holds
    <3>3. ASSUME NEW c \in tx[q].fresh PROVE row'[c].id = 0
      BY <2>4, <3>1, Zenon DEF Holds
    <3> QED BY <2>1, <3>1, <3>2, <3>3, Zenon DEF Holds
  <2>9. ASSUME NEW r \in Requests, NEW q \in Requests PROVE OneHolder(r, q)'
    BY <2>1, Zenon DEF OneHolder, FinalInv
  <2>10. ASSUME Exclusive, NEW v \in Workers PROVE Scans(v)'
    <3>1. CASE v = w
      <4>1. PICK x \in ScanType : x.asset = a /\ x.step = "succeed" /\ scan'[w] = {x}
        BY <2>3, Zenon DEF Moves
      <4>2. job'[a] = w
        BY <2>1, <2>10, Zenon DEF FinalInv, Scans, a
      <4> QED BY <3>1, <4>1, <4>2, Zenon DEF Scans
    <3>2. CASE v # w
      <4>1. Scans(v) /\ scan'[v] = scan[v] /\ job[a] = w
        BY <2>3, <2>10, <3>2, Zenon DEF FinalInv, Moves, Scans, a
      <4>2. ASSUME NEW t \in scan[v] PROVE t.asset \in Assets /\ t.asset # a
        BY <2>2, <3>2, <4>1, ScanTyped, Zenon DEF Scans
      <4> QED BY <2>1, <2>6, <4>1, <4>2 DEF Scans
    <3> QED BY <3>1, <3>2, Zenon
  <2>11. ASSUME NEW c \in Contents PROVE NoRowIsClear(c)'
    <3>1. CASE row'[c] = row[c]
      BY <3>1, Zenon DEF FinalInv, NoRowIsClear
    <3>2. CASE c = a[1] /\ HasRow(a)
      <4>1. row'[c].id # 0
        BY <2>2, <2>4, <3>2, AssetParts DEF HasRow, Ids
      <4> QED BY <4>1, Zenon DEF NoRowIsClear
    <3> QED BY <2>4, <3>1, <3>2, Zenon
  <2>12. FinalInv'
    BY <2>7, <2>8, <2>9, <2>10, <2>11, Zenon DEF FinalInv
  <2>13. Final
    BY <2>4, Zenon DEF Final
  <2> QED BY <2>3, <2>4, <2>12, <2>13, Zenon DEF a

<1>SameRowIsFinal. row' = row => Final
  BY Zenon DEF Final

<1>FinalNext. ASSUME FinalInv, Next
              PROVE  FinalInv' /\ (Exclusive => Final)
  <2> USE <1>FinalNext
  <2>0. Step /\ infected' = infected
    BY Zenon DEF Next, NoteOverlap
  <2>1. CASE \E r \in Requests : \/ Request(r) \/ Rollback(r) \/ Unlink(r) \/ SavepointFails(r) \/ Crash(r)
                                \/ \E c \in Contents : Upsert(r, c)
    BY <2>0, <2>1, <1>RequestKeeps, <1>UpsertKeeps, <1>SameRowIsFinal, Zenon
  <2>2. CASE \E r \in Requests : Commit(r)
    BY <2>0, <2>2, <1>CommitKeeps, Zenon
  <2>3. CASE \E p \in Requests \union {Sweep} : Purge(p)
    BY <2>0, <2>3, <1>PurgeKeeps, <1>PurgeRowKeeps, <1>SameRowIsFinal, Zenon DEF Purge
  <2>4. CASE \E w \in Workers : \E a \in Assets : Claim(w, a)
    BY <2>0, <2>4, <1>ClaimKeeps, <1>SameRowIsFinal, Zenon
  <2>5. ASSUME NEW w \in Workers, NEW s \in scan[w],
               \/ ScanRead(w, s) \/ ScanStart(w, s) \/ Verdict(w, s) \/ WriteStatus(w, s)
               \/ MoveAway(w, s) \/ WriteInfected(w, s) \/ Settle(w, s) \/ Recover(w, s)
        PROVE  FinalInv' /\ (Exclusive => Final)
    <3>1. CASE ScanRead(w, s) \/ Verdict(w, s) \/ MoveAway(w, s)
      BY <2>0, <3>1, <1>ReadKeeps, <1>SameRowIsFinal, Zenon
    <3>2. CASE ScanStart(w, s) \/ WriteStatus(w, s)
      BY <2>0, <3>2, <1>WriteKeeps, Zenon
    <3>3. CASE WriteInfected(w, s)
      BY <2>0, <3>3, <1>InfectedKeeps, Zenon
    <3>4. CASE Settle(w, s) \/ Recover(w, s)
      BY <2>0, <3>4, <1>SettleKeeps, <1>SameRowIsFinal, Zenon
    <3> QED BY <2>5, <3>1, <3>2, <3>3, <3>4, Zenon
  <2> QED BY <2>0, <2>1, <2>2, <2>3, <2>4, <2>5, Zenon DEF Step, Choice, Scan

\* Nobody is about to call an infected content clean, and no row does.
<1>BlockedRows. ASSUME Typed, BlockedInv, infected' = infected, ~FailOpen,
                       \A c \in Contents : \/ row'[c] = row[c] \/ row'[c].id = 0 \/ c \notin infected
                                          \/ row'[c].scan \notin {"clean", "disabled"}
                PROVE  InfectedIsBlocked'
  BY <1>BlockedRows, Zenon DEF Typed, BlockedInv, InfectedIsBlocked

<1>HonestStep. ASSUME Honest, infected' = infected, NEW w \in Workers, NEW a, NEW step, Moves(w, a, step),
                      step = "clean" => a[1] \notin infected
               PROVE  Honest'
  <2> USE <1>HonestStep
  <2>1. PICK x \in ScanType : x.asset = a /\ x.step = step /\ scan'[w] = {x}
    BY Zenon DEF Moves
  <2> SUFFICES ASSUME NEW v \in Workers, NEW s \in scan'[v], s.step = "clean" PROVE s.asset[1] \notin infected
    BY Zenon DEF Honest
  <2>2. CASE v = w
    BY <2>1, <2>2, Zenon
  <2>3. CASE v # w
    BY <2>3, Zenon DEF Honest, Moves
  <2> QED BY <2>2, <2>3, Zenon

<1>ReadHonest. ASSUME FinalInv, Honest, ~FailOpen, infected' = infected, NEW w \in Workers, NEW s \in scan[w],
                      ScanRead(w, s) \/ Verdict(w, s) \/ MoveAway(w, s)
               PROVE  Honest'
  <2> USE <1>ReadHonest
  <2>1. Typed /\ s \in ScanType /\ s.asset \in Assets /\ s.asset[1] \in Contents
    BY ScanTyped, Zenon DEF FinalInv
  <2>2. row[s.asset[1]].place \in Places /\ "quarantine" \in Places
    BY <2>1, Zenon DEF Typed, RowType, Places
  <2>3. PICK step \in Steps, place \in Places :
           /\ At(w, s, step) \/ At(w, [s EXCEPT !.place = place], step)
           /\ step = "clean" => s.asset[1] \notin infected
    BY <2>2, Zenon DEF ScanRead, Verdict, MoveAway, Steps
  <2>4. Moves(w, s.asset, step)
    BY <2>1, <2>3, <1>AtMoves, Zenon
  <2> QED BY <2>3, <2>4, <1>HonestStep, Zenon

<1>SameScanHonest. ASSUME Honest, infected' = infected,
                          scan' = scan \/ \E w \in Workers : scan' = [scan EXCEPT ![w] = {}], Typed
                   PROVE  Honest'
  BY <1>SameScanHonest, Zenon DEF Honest, Typed

<1>BlockedNext. ASSUME FinalInv, BlockedInv, Next
                PROVE  BlockedInv'
  <2> USE <1>BlockedNext
  <2> SUFFICES ASSUME ~FailOpen PROVE InfectedIsBlocked' /\ Honest'
    BY Zenon DEF BlockedInv, InfectedIsBlocked
  <2>0. Step /\ infected' = infected /\ Typed /\ Honest
    BY Zenon DEF Next, NoteOverlap, FinalInv, BlockedInv
  <2>1. CASE row' = row /\ scan' = scan
    BY <2>0, <2>1, <1>BlockedRows, <1>SameScanHonest, Zenon
  <2>2. CASE \E r \in Requests : \/ Request(r) \/ Rollback(r) \/ Unlink(r) \/ SavepointFails(r) \/ Crash(r)
                                \/ \E c \in Contents : Upsert(r, c)
    BY <2>0, <2>1, <2>2, <1>RequestKeeps, <1>UpsertKeeps, Zenon
  <2>3. CASE \E r \in Requests : Commit(r)
    <3>1. scan' = scan /\ \A c \in Contents : row'[c] = row[c] \/ row'[c].scan = "pending_scan"
      BY <2>0, <2>3, <1>CommitKeeps, Zenon
    <3> QED BY <2>0, <3>1, <1>BlockedRows, <1>SameScanHonest, ZenonT(30)
  <2>4. CASE \E p \in Requests \union {Sweep} : PurgeRow(p)
    <3>1. scan' = scan /\ \A c \in Contents : row'[c] = row[c] \/ row'[c].id = 0
      BY <2>0, <2>4, <1>PurgeRowKeeps, Zenon
    <3> QED BY <2>0, <3>1, <1>BlockedRows, <1>SameScanHonest, Zenon
  <2>5. CASE \E p \in Requests \union {Sweep} : PurgeFile(p) \/ \E a \in Assets : PurgeCheck(p, a)
    BY <2>0, <2>1, <2>5, <1>PurgeKeeps, Zenon
  <2>6. ASSUME NEW w \in Workers, NEW a \in Assets, Claim(w, a) PROVE InfectedIsBlocked' /\ Honest'
    <3>1. row' = row /\ Moves(w, a, "read")
      BY <2>0, <2>6, <1>ClaimKeeps, Zenon
    <3> QED BY <2>0, <3>1, <1>BlockedRows, <1>HonestStep, Zenon
  <2>7. ASSUME NEW w \in Workers, NEW s \in scan[w],
               \/ ScanRead(w, s) \/ ScanStart(w, s) \/ Verdict(w, s) \/ WriteStatus(w, s)
               \/ MoveAway(w, s) \/ WriteInfected(w, s) \/ Settle(w, s) \/ Recover(w, s)
        PROVE  InfectedIsBlocked' /\ Honest'
    <3>1. CASE ScanRead(w, s) \/ Verdict(w, s) \/ MoveAway(w, s)
      BY <2>0, <3>1, <1>ReadKeeps, <1>ReadHonest, <1>BlockedRows, Zenon
    <3>2. CASE ScanStart(w, s) \/ WriteStatus(w, s)
      <4>1. /\ \E step \in {"scanning", "succeed", "fail"} : Moves(w, s.asset, step)
            /\ \A c \in Contents : \/ row'[c] = row[c] \/ row'[c].scan \in {"scanning", "scan_error"}
                                   \/ c = s.asset[1] /\ s.step = "clean"
        BY <2>0, <3>2, <1>WriteKeeps, Zenon
      <4>2. Honest'
        BY <2>0, <4>1, <1>HonestStep, Zenon
      <4>3. InfectedIsBlocked'
        BY <2>0, <4>1, <1>BlockedRows, Zenon DEF Honest
      <4> QED BY <4>2, <4>3, Zenon
    <3>3. CASE WriteInfected(w, s)
      <4>1. Moves(w, s.asset, "succeed") /\ \A c \in Contents : row'[c] = row[c] \/ row'[c].scan = "infected"
        BY <2>0, <3>3, <1>InfectedKeeps, Zenon
      <4> QED BY <2>0, <4>1, <1>BlockedRows, <1>HonestStep, Zenon
    <3>4. CASE Settle(w, s) \/ Recover(w, s)
      <4>1. row' = row /\ (scan' = scan \/ scan' = [scan EXCEPT ![w] = {}])
        BY <2>0, <3>4, <1>SettleKeeps, Zenon
      <4> QED BY <2>0, <4>1, <1>BlockedRows, <1>SameScanHonest, Zenon
    <3> QED BY <2>7, <3>1, <3>2, <3>3, <3>4, Zenon
  <2> QED BY <2>0, <2>2, <2>3, <2>4, <2>5, <2>6, <2>7, ZenonT(30) DEF Step, Choice, Scan, Purge

<1> QED BY <1>FinalNext, <1>BlockedNext, Zenon

LEMMA FinalStutter == FinalInv /\ UNCHANGED vars => FinalInv'
BY DEF vars, storeVars, procVars, jobVars, FinalInv, Typed, Holds, HasRow, OneHolder, Scans, NoRowIsClear

LEMMA FinalAlways == Spec => []FinalInv
<1>1. FinalInv /\ [Next]_vars => FinalInv'
  BY FinalStep, FinalStutter, Zenon
<1> QED BY <1>1, InitBoth, PTL DEF Spec

\* No scan, late, repeated or failed, and no upload of the same content changes
\* an infected verdict while the row exists, for any number of workers, as
\* long as the queue does not run a job twice at a time.
THEOREM VerdictIsFinal ==
    ASSUME "overlap" \notin Faults
    PROVE  Spec => InfectedIsFinal
<1>1. Exclusive
  BY Zenon DEF Exclusive
<1>2. FinalInv /\ [Next]_vars =>
         [\A c \in Contents : row[c].scan = "infected" /\ row'[c].id = row[c].id
             => row'[c].scan = "infected"]_vars
  BY <1>1, FinalStep, Zenon DEF Final
<1> QED BY <1>2, FinalAlways, PTL DEF Spec, InfectedIsFinal

LEMMA BlockedStutter == BlockedInv /\ UNCHANGED vars => BlockedInv'
BY Zenon DEF vars, storeVars, BlockedInv, InfectedIsBlocked, Honest

\* With fail_open off, a content the scanner rejects is never readable: not
\* before its scan, not after a failed one, not after a second upload, and not
\* even when the queue runs its job twice at a time.
THEOREM InfectedNeverReadable == Spec => []InfectedIsBlocked
<1>1. FinalInv /\ BlockedInv /\ [Next]_vars => BlockedInv'
  BY FinalStep, BlockedStutter, Zenon
<1>2. BlockedInv => InfectedIsBlocked
  BY Zenon DEF BlockedInv
<1> QED BY <1>1, <1>2, InitBoth, FinalAlways, PTL DEF Spec

-----------------------------------------------------------------------------
(* What the steps of a request do to its session.                          *)

Labels == {"idle", "saving", "open", "hooks", "cleaning", "linked", "purging", "done"}

\* The types that the verdicts do not depend on.
TypeRest ==
    /\ files \subseteq Paths /\ links \subseteq Requests \X Assets
    /\ pc \in [Requests -> Labels]
    /\ purge \in [Requests \union {Sweep} -> SUBSET [asset : Assets, path : Paths, del : BOOLEAN]]
    /\ att \in [Assets -> Nat]
    /\ torn \subseteq Contents /\ lost \subseteq Assets /\ left \subseteq Contents
    /\ faults \in Nat

LEMMA TypeSplit == TypeOK <=> Typed /\ TypeRest
BY Zenon DEF TypeOK, Typed, TypeRest, Labels

\* The step is r's: the other sessions stay as they are.
Others(r) == \A q \in Requests \ {r} : tx'[q] = tx[q] /\ pc'[q] = pc[q]

LEMMA Becomes ==
    ASSUME Typed, TypeRest, NEW r \in Requests, NEW x, NEW label,
           tx' = [tx EXCEPT ![r] = x], pc' = [pc EXCEPT ![r] = label]
    PROVE  tx'[r] = x /\ pc'[r] = label /\ Others(r)
BY Zenon DEF Others, Typed, TypeRest

\* What the transaction of r has taken.
Keeps(r) ==
    /\ tx'[r].held = tx[r].held /\ tx'[r].assets = tx[r].assets
    /\ tx'[r].fresh = tx[r].fresh /\ tx'[r].upd = tx[r].upd

PathOf(s) == <<s.place, s.asset[1]>>

Writes(r, s) == s.asset[1] \in tx[r].fresh \/ PathOf(s) \notin files

\* The object that r was about to save is saved, or was there.
Saved(r, s) ==
    /\ pc[r] = "saving" /\ pc'[r] = "open" /\ Others(r) /\ Keeps(r)
    /\ tx'[r].cur = {} /\ tx'[r].enq = tx[r].enq /\ tx'[r].cut = tx[r].cut /\ tx'[r].after = tx[r].after
    /\ s.asset \in Assets /\ s.place \in Places /\ PathOf(s) \in Paths
    /\ \/ Writes(r, s) /\ files' = files \union {PathOf(s)} /\ tx'[r].trk = tx[r].trk \union {PathOf(s)}
       \/ ~Writes(r, s) /\ files' = files /\ tx'[r].trk = tx[r].trk

LEMMA SaveDoes ==
    ASSUME Typed, TypeRest, NEW r \in Requests, Save(r)
    PROVE  \E s \in tx[r].cur : Saved(r, s)
<1>1. PICK s \in tx[r].cur :
         /\ files' = IF Writes(r, s) THEN files \union {PathOf(s)} ELSE files
         /\ tx' = [tx EXCEPT ![r].cur = {}, ![r].trk =
                      IF Writes(r, s) THEN tx[r].trk \union {PathOf(s)} ELSE tx[r].trk]
  BY Zenon DEF Save, Writes, PathOf
<1>2. s.asset \in Assets /\ s.place \in Places
  <2>1. s \in [asset : Assets, place : Places]
    BY Zenon DEF Typed, TxType
  <2> QED BY <2>1, Zenon
<1>3. PathOf(s) \in Paths
  BY <1>2, AssetParts, Zenon DEF Paths, PathOf
<1> DEFINE trk == IF Writes(r, s) THEN tx[r].trk \union {PathOf(s)} ELSE tx[r].trk
           x == [tx[r] EXCEPT !.cur = {}, !.trk = trk]
<1>4. tx' = [tx EXCEPT ![r] = x] /\ pc' = [pc EXCEPT ![r] = "open"] /\ pc[r] = "saving"
  BY <1>1, Zenon DEF Save, Goto
<1>5. /\ x.held = tx[r].held /\ x.assets = tx[r].assets /\ x.fresh = tx[r].fresh /\ x.upd = tx[r].upd
      /\ x.cur = {} /\ x.enq = tx[r].enq /\ x.cut = tx[r].cut /\ x.after = tx[r].after /\ x.trk = trk
  <2> HIDE DEF trk
  <2> QED BY FieldsOf, Zenon DEF TxType, Fields
<1> HIDE DEF x
<1>6. tx'[r] = x /\ pc'[r] = "open" /\ Others(r)
  BY <1>4, Becomes, Zenon
<1> QED BY <1>1, <1>2, <1>3, <1>4, <1>5, <1>6, Zenon DEF Saved, Keeps

\* The asset a of content c is about to be saved by r.
Joins(r, c, a, place) ==
    /\ a \in Assets /\ a[1] = c /\ place \in Places
    /\ pc'[r] = "saving" /\ tx'[r].cur = {[asset |-> a, place |-> place]}
    /\ tx'[r].assets = tx[r].assets \union {a}

Inserts(r, c, a) ==
    /\ Joins(r, c, a, "home")
    /\ row[c].id = 0 /\ a = <<c, ids[c] + 1>> /\ ids' = [ids EXCEPT ![c] = ids[c] + 1]
    /\ tx'[r].fresh = tx[r].fresh \union {c} /\ tx'[r].upd = tx[r].upd
    /\ tx'[r].enq = tx[r].enq \union {a}

Reuses(r, c, a) ==
    /\ Joins(r, c, a, row[c].place)
    /\ row[c].id # 0 /\ row[c].scan # "infected" /\ a = AssetOf(c) /\ ids' = ids
    /\ tx'[r].fresh = tx[r].fresh
    /\ tx'[r].enq = tx[r].enq \union {a} \/ (tx'[r].enq = tx[r].enq /\ tx'[r].upd = tx[r].upd)
    /\ tx'[r].upd = tx[r].upd \union {a} \/ tx'[r].upd = tx[r].upd

Refuses(r) ==
    /\ ids' = ids /\ pc'[r] = "open" /\ tx'[r].cur = tx[r].cur /\ tx'[r].enq = tx[r].enq
    /\ tx'[r].assets = tx[r].assets /\ tx'[r].fresh = tx[r].fresh /\ tx'[r].upd = tx[r].upd

Upserted(r, c) ==
    /\ pc[r] \in {"idle", "open"} /\ Others(r) /\ \A q \in Requests : c \notin tx[q].held
    /\ tx'[r].held = tx[r].held \union {c}
    /\ tx'[r].trk = tx[r].trk /\ tx'[r].cut = tx[r].cut /\ tx'[r].after = tx[r].after
    /\ Refuses(r) \/ \E a \in Assets : Inserts(r, c, a) \/ Reuses(r, c, a)

Adds(r, a, place, more) ==
    /\ Joins(r, a[1], a, place) /\ Others(r)
    /\ tx'[r].held = more.held \union {a[1]} /\ tx'[r].trk = more.trk /\ tx'[r].cut = more.cut
    /\ tx'[r].after = more.after /\ tx'[r].fresh = more.fresh /\ tx'[r].upd = more.upd
    /\ tx'[r].enq = more.enq

\* The session of r with the asset a to be scanned again, or not.
Like(r, a, more) ==
    /\ more \in TxType /\ more.held = tx[r].held /\ more.assets = tx[r].assets /\ more.fresh = tx[r].fresh
    /\ more.trk = tx[r].trk /\ more.cut = tx[r].cut /\ more.after = tx[r].after
    /\ \/ more.enq = tx[r].enq /\ more.upd = tx[r].upd
       \/ more.enq = tx[r].enq \union {a} /\ more.upd \in {tx[r].upd, tx[r].upd \union {a}}

\* An upload in a session changes the request's own record as Upserted says, and
\* nothing of the others.
LEMMA UpsertDoes ==
    Typed /\ TypeRest => \A r \in Requests, c \in Contents : Upsert(r, c) => Upserted(r, c)

<1>StageDoes. ASSUME Typed, TypeRest, NEW r \in Requests, NEW a \in Assets, NEW place \in Places, NEW more \in TxType,
                     Stage(r, a, place, more), more.assets = tx[r].assets
              PROVE  Adds(r, a, place, more)
  <2> USE <1>StageDoes
  <2> DEFINE cur == {[asset |-> a, place |-> place]}
             x == [more EXCEPT !.held = more.held \union {a[1]}, !.assets = more.assets \union {a}, !.cur = cur]
  <2>1. tx' = [tx EXCEPT ![r] = x] /\ pc' = [pc EXCEPT ![r] = "saving"]
    BY Zenon DEF Stage, Goto
  <2>2. tx'[r] = x /\ pc'[r] = "saving" /\ Others(r)
    BY <2>1, Becomes, Zenon
  <2> HIDE DEF cur
  <2>3. /\ x.held = more.held \union {a[1]} /\ x.assets = more.assets \union {a} /\ x.cur = cur
        /\ x.fresh = more.fresh /\ x.upd = more.upd /\ x.trk = more.trk /\ x.cut = more.cut
        /\ x.after = more.after /\ x.enq = more.enq
    BY Zenon DEF TxType
  <2> HIDE DEF x
  <2> QED BY <2>2, <2>3, Zenon DEF Adds, Joins, cur

<1>UpsertNewDoes. ASSUME Typed, TypeRest, NEW r \in Requests, NEW c \in Contents, UpsertNew(r, c)
                  PROVE  /\ Others(r) /\ tx'[r].held = tx[r].held \union {c}
                         /\ tx'[r].trk = tx[r].trk /\ tx'[r].cut = tx[r].cut /\ tx'[r].after = tx[r].after
                         /\ \E a \in Assets : Inserts(r, c, a)
  <2> USE <1>UpsertNewDoes
  <2> DEFINE a == <<c, ids[c] + 1>>
             more == [tx[r] EXCEPT !.fresh = tx[r].fresh \union {c}, !.enq = tx[r].enq \union {a}]
  <2>1. ids[c] + 1 \in Ids /\ ids' = [ids EXCEPT ![c] = ids[c] + 1] /\ row[c].id = 0
    BY ConstantsAssumption DEF UpsertNew, Typed, Ids
  <2>2. a \in Assets /\ a[1] = c /\ "home" \in Places
    BY <2>1, Zenon DEF Assets, Places
  <2>3. Stage(r, a, "home", more)
    BY Zenon DEF UpsertNew
  <2>4. a = <<c, ids[c] + 1>>
    OBVIOUS
  <2> HIDE DEF a
  <2>5. /\ more \in TxType /\ more.held = tx[r].held /\ more.assets = tx[r].assets
        /\ more.fresh = tx[r].fresh \union {c} /\ more.upd = tx[r].upd /\ more.enq = tx[r].enq \union {a}
        /\ more.trk = tx[r].trk /\ more.cut = tx[r].cut /\ more.after = tx[r].after
    BY <2>2, FieldsOf, Zenon DEF TxType, Fields
  <2> HIDE DEF more
  <2>6. Adds(r, a, "home", more)
    BY <2>2, <2>3, <2>5, <1>StageDoes, Zenon
  <2>7. Inserts(r, c, a)
    BY <2>1, <2>2, <2>4, <2>5, <2>6, Zenon DEF Inserts, Adds
  <2> QED BY <2>2, <2>5, <2>6, <2>7, Zenon DEF Adds

<1>UpsertExistingDoes. ASSUME Typed, TypeRest, NEW r \in Requests, NEW c \in Contents, UpsertExisting(r, c)
                       PROVE  /\ Others(r) /\ tx'[r].held = tx[r].held \union {c}
                              /\ tx'[r].trk = tx[r].trk /\ tx'[r].cut = tx[r].cut /\ tx'[r].after = tx[r].after
                              /\ Refuses(r) \/ \E a \in Assets : Reuses(r, c, a)
  <2> USE <1>UpsertExistingDoes
  <2> DEFINE a == AssetOf(c)
  <2>1. ids' = ids /\ row[c].id # 0
    BY Zenon DEF UpsertExisting
  <2>2. a \in Assets /\ a[1] = c /\ row[c].place \in Places
    <3>1. row[c].id \in 0..MaxIds /\ row[c].place \in Places
      BY Zenon DEF Typed, RowType
    <3>2. row[c].id \in Ids
      BY <2>1, <3>1, ConstantsAssumption DEF Ids
    <3> QED BY <3>1, <3>2, Zenon DEF AssetOf, Assets
  <2>3. a = AssetOf(c)
    OBVIOUS
  <2> HIDE DEF a
  <2> DEFINE Goal == /\ Others(r) /\ tx'[r].held = tx[r].held \union {c}
                     /\ tx'[r].trk = tx[r].trk /\ tx'[r].cut = tx[r].cut /\ tx'[r].after = tx[r].after
                     /\ Refuses(r) \/ \E b \in Assets : Reuses(r, c, b)
  <2> SUFFICES Goal
    BY Zenon
  <2>4. ASSUME NEW more, Like(r, a, more), Stage(r, a, row[c].place, more), row[c].scan # "infected"
        PROVE  Goal
    <3>1. Adds(r, a, row[c].place, more)
      BY <2>2, <2>4, <1>StageDoes, Zenon DEF Like
    <3>2. Reuses(r, c, a)
      BY <2>1, <2>2, <2>3, <2>4, <3>1, Zenon DEF Reuses, Adds, Like
    <3> QED BY <2>2, <2>4, <3>1, <3>2, Zenon DEF Adds, Like
  <2>5. CASE tx' = [tx EXCEPT ![r].held = tx[r].held \union {c}] /\ Goto(r, "open")
    <3> DEFINE x == [tx[r] EXCEPT !.held = tx[r].held \union {c}]
    <3>1. tx' = [tx EXCEPT ![r] = x] /\ pc' = [pc EXCEPT ![r] = "open"]
      BY <2>5, Zenon DEF Goto
    <3>2. tx'[r] = x /\ pc'[r] = "open" /\ Others(r)
      BY <3>1, Becomes, Zenon
    <3>3. /\ x.held = tx[r].held \union {c} /\ x.assets = tx[r].assets /\ x.fresh = tx[r].fresh
          /\ x.upd = tx[r].upd /\ x.enq = tx[r].enq /\ x.cur = tx[r].cur
          /\ x.trk = tx[r].trk /\ x.cut = tx[r].cut /\ x.after = tx[r].after
      BY FieldsOf, Zenon DEF TxType, Fields
    <3> HIDE DEF x
    <3> QED BY <2>1, <3>2, <3>3, Zenon DEF Refuses
  <2>6. CASE row[c].scan = "clean" /\ Stage(r, a, row[c].place, tx[r])
    <3>1. Like(r, a, tx[r])
      BY FieldsOf, Zenon DEF Like, Fields
    <3> HIDE DEF Goal
    <3> QED BY <2>4, <2>6, <3>1, Zenon
  <2>7. CASE /\ row[c].scan \in {"pending_scan", "scanning"}
             /\ Stage(r, a, row[c].place, [tx[r] EXCEPT !.enq = tx[r].enq \union {a}])
    <3> DEFINE more == [tx[r] EXCEPT !.enq = tx[r].enq \union {a}]
    <3>1. /\ more \in TxType /\ more.held = tx[r].held /\ more.assets = tx[r].assets
          /\ more.fresh = tx[r].fresh /\ more.upd = tx[r].upd /\ more.enq = tx[r].enq \union {a}
          /\ more.trk = tx[r].trk /\ more.cut = tx[r].cut /\ more.after = tx[r].after
      BY <2>2, FieldsOf, Zenon DEF TxType, Fields
    <3>2. Stage(r, a, row[c].place, more)
      BY <2>7, Zenon
    <3> HIDE DEF more, Goal
    <3>3. Like(r, a, more)
      BY <3>1, Zenon DEF Like
    <3> QED BY <2>4, <2>7, <3>2, <3>3, Zenon
  <2>8. CASE /\ row[c].scan \in {"disabled", "scan_error"}
             /\ Stage(r, a, row[c].place, [tx[r] EXCEPT !.enq = tx[r].enq \union {a},
                                                       !.upd = tx[r].upd \union {a}])
    <3> DEFINE more == [tx[r] EXCEPT !.enq = tx[r].enq \union {a}, !.upd = tx[r].upd \union {a}]
    <3>1. /\ more \in TxType /\ more.held = tx[r].held /\ more.assets = tx[r].assets
          /\ more.fresh = tx[r].fresh /\ more.upd = tx[r].upd \union {a} /\ more.enq = tx[r].enq \union {a}
          /\ more.trk = tx[r].trk /\ more.cut = tx[r].cut /\ more.after = tx[r].after
      BY <2>2, FieldsOf, Zenon DEF TxType, Fields
    <3>2. Stage(r, a, row[c].place, more)
      BY <2>8, Zenon
    <3> HIDE DEF more, Goal
    <3>3. Like(r, a, more)
      BY <3>1, Zenon DEF Like
    <3> QED BY <2>4, <2>8, <3>2, <3>3, Zenon
  <2> QED BY <2>5, <2>6, <2>7, <2>8, Zenon DEF UpsertExisting, a

<1>Either. ASSUME Typed, TypeRest, NEW r \in Requests, NEW c \in Contents, Upsert(r, c)
           PROVE  Upserted(r, c)
  <2> USE <1>Either
  <2>1. pc[r] \in {"idle", "open"} /\ \A q \in Requests : c \notin tx[q].held
    BY Zenon DEF Upsert
  <2>2. CASE UpsertNew(r, c)
    BY <2>1, <2>2, <1>UpsertNewDoes, Zenon DEF Upserted
  <2>3. CASE UpsertExisting(r, c)
    BY <2>1, <2>3, <1>UpsertExistingDoes, Zenon DEF Upserted
  <2> QED BY <2>2, <2>3, Zenon DEF Upsert

<1> QED BY <1>Either, Zenon

\* The transaction of r is over: what is left are objects, requests and a way to go on.
Over(r) ==
    /\ Others(r)
    /\ tx'[r].held = {} /\ tx'[r].assets = {} /\ tx'[r].fresh = {} /\ tx'[r].upd = {}
    /\ tx'[r].cur = {} /\ tx'[r].cut = {}

Committed(r) ==
    /\ pc[r] = "open" /\ pc'[r] = IF tx[r].enq = {} THEN "cleaning" ELSE "hooks"
    /\ Over(r) /\ tx'[r].trk = tx[r].trk /\ tx'[r].enq = tx[r].enq /\ tx'[r].after = "linked"

LEMMA CommitDoes ==
    ASSUME Typed, TypeRest, NEW r \in Requests, Commit(r)
    PROVE  Committed(r)
<1> DEFINE x == [NoTx EXCEPT !.trk = tx[r].trk, !.enq = tx[r].enq, !.after = "linked"]
           label == IF tx[r].enq = {} THEN "cleaning" ELSE "hooks"
<1>1. tx' = [tx EXCEPT ![r] = x] /\ pc' = [pc EXCEPT ![r] = label] /\ pc[r] = "open"
  BY Zenon DEF Commit, AfterHooks, Goto
<1>2. tx'[r] = x /\ pc'[r] = label /\ Others(r)
  BY <1>1, Becomes, Zenon
<1>3. /\ x.held = {} /\ x.assets = {} /\ x.fresh = {} /\ x.upd = {} /\ x.cur = {} /\ x.cut = {}
      /\ x.trk = tx[r].trk /\ x.enq = tx[r].enq /\ x.after = "linked"
  BY Zenon DEF NoTx
<1> HIDE DEF x
<1> QED BY <1>1, <1>2, <1>3, Zenon DEF Over, Committed

RolledBack(r) ==
    /\ pc[r] \in {"open", "saving"} /\ pc'[r] = "cleaning"
    /\ Over(r) /\ tx'[r].trk = tx[r].trk /\ tx'[r].enq = {} /\ tx'[r].after = "done"

LEMMA RollbackDoes ==
    ASSUME Typed, TypeRest, NEW r \in Requests, Rollback(r)
    PROVE  RolledBack(r)
<1> DEFINE x == [NoTx EXCEPT !.trk = tx[r].trk]
<1>1. tx' = [tx EXCEPT ![r] = x] /\ pc' = [pc EXCEPT ![r] = "cleaning"]
  BY Zenon DEF Rollback, Goto
<1>2. tx'[r] = x /\ pc'[r] = "cleaning" /\ Others(r)
  BY <1>1, Becomes, Zenon
<1>3. /\ x.held = {} /\ x.assets = {} /\ x.fresh = {} /\ x.upd = {} /\ x.cur = {} /\ x.cut = {}
      /\ x.trk = tx[r].trk /\ x.enq = {} /\ x.after = "done"
  BY Zenon DEF NoTx
<1> HIDE DEF x
<1> QED BY <1>2, <1>3, Zenon DEF Over, Rollback, RolledBack

Crashed(r) ==
    /\ pc[r] \in {"open", "saving", "hooks", "cleaning"} /\ pc'[r] \in {"linked", "done"}
    /\ Over(r) /\ tx'[r].trk = {} /\ tx'[r].enq = {} /\ tx'[r].after = "done"

LEMMA CrashDoes ==
    ASSUME Typed, TypeRest, NEW r \in Requests, Crash(r)
    PROVE  Crashed(r)
<1>1. PICK label \in {"linked", "done"} : tx' = [tx EXCEPT ![r] = NoTx] /\ pc' = [pc EXCEPT ![r] = label]
  BY Zenon DEF Crash, Goto
<1>2. tx'[r] = NoTx /\ pc'[r] = label /\ Others(r)
  BY <1>1, Becomes, Zenon
<1>3. pc[r] \in {"open", "saving", "hooks", "cleaning"}
  BY Zenon DEF Crash
<1>4. /\ NoTx.held = {} /\ NoTx.assets = {} /\ NoTx.fresh = {} /\ NoTx.upd = {} /\ NoTx.cur = {}
      /\ NoTx.cut = {} /\ NoTx.trk = {} /\ NoTx.enq = {} /\ NoTx.after = "done"
  BY Zenon DEF NoTx
<1> QED BY <1>2, <1>3, <1>4, Zenon DEF Over, Crashed

Drops(r, A) ==
    /\ pc'[r] \in {"purging", "done"}
    /\ Over(r) /\ tx'[r].trk = {} /\ tx'[r].enq = A /\ tx'[r].after = "done"

LEMMA ToPurgeDoes ==
    ASSUME Typed, TypeRest, NEW r \in Requests, NEW A, ToPurge(r, A)
    PROVE  Drops(r, A)
<1> DEFINE x == [NoTx EXCEPT !.enq = A]
<1>1. PICK label \in {"purging", "done"} : tx' = [tx EXCEPT ![r] = x] /\ pc' = [pc EXCEPT ![r] = label]
  BY Zenon DEF ToPurge, Goto
<1>2. tx'[r] = x /\ pc'[r] = label /\ Others(r)
  BY <1>1, Becomes, Zenon
<1>3. /\ x.held = {} /\ x.assets = {} /\ x.fresh = {} /\ x.upd = {} /\ x.cur = {} /\ x.cut = {}
      /\ x.trk = {} /\ x.enq = A /\ x.after = "done"
  BY Zenon DEF NoTx
<1> HIDE DEF x
<1> QED BY <1>1, <1>2, <1>3, Zenon DEF Over, Drops

Enqueued(r, a) ==
    /\ pc[r] = "hooks" /\ a \in tx[r].enq
    /\ pc'[r] = IF tx[r].enq \ {a} = {} THEN "cleaning" ELSE "hooks"
    /\ Others(r) /\ Keeps(r) /\ tx'[r].enq = tx[r].enq \ {a} /\ tx'[r].cur = tx[r].cur
    /\ tx'[r].trk = tx[r].trk /\ tx'[r].cut = tx[r].cut /\ tx'[r].after = tx[r].after

LEMMA EnqueueDoes ==
    ASSUME Typed, TypeRest, NEW r \in Requests, NEW a \in Assets, EnqueueScan(r, a)
    PROVE  Enqueued(r, a)
<1> DEFINE x == [tx[r] EXCEPT !.enq = tx[r].enq \ {a}]
           label == IF tx[r].enq \ {a} = {} THEN "cleaning" ELSE "hooks"
<1>1. tx' = [tx EXCEPT ![r] = x] /\ pc' = [pc EXCEPT ![r] = label]
  BY Zenon DEF EnqueueScan, AfterHooks, Goto
<1>2. tx'[r] = x /\ pc'[r] = label /\ Others(r)
  BY <1>1, Becomes, Zenon
<1>3. /\ x.held = tx[r].held /\ x.assets = tx[r].assets /\ x.fresh = tx[r].fresh /\ x.upd = tx[r].upd
      /\ x.cur = tx[r].cur /\ x.enq = tx[r].enq \ {a} /\ x.cut = tx[r].cut /\ x.after = tx[r].after
      /\ x.trk = tx[r].trk
  BY FieldsOf, Zenon DEF TxType, Fields
<1> HIDE DEF x
<1> QED BY <1>2, <1>3, Zenon DEF Keeps, EnqueueScan, Enqueued

SavepointUndone(r) ==
    /\ pc[r] = "open" /\ pc'[r] = "cleaning"
    /\ Others(r) /\ Keeps(r) /\ tx'[r].enq = {} /\ tx'[r].cur = tx[r].cur
    /\ tx'[r].trk = tx[r].trk /\ tx'[r].cut = tx[r].cut /\ tx'[r].after = "open"

LEMMA SavepointDoes ==
    ASSUME Typed, TypeRest, NEW r \in Requests, SavepointFails(r)
    PROVE  SavepointUndone(r)
<1> DEFINE x == [tx[r] EXCEPT !.enq = {}, !.after = "open"]
<1>1. tx' = [tx EXCEPT ![r] = x] /\ pc' = [pc EXCEPT ![r] = "cleaning"]
  BY Zenon DEF SavepointFails, Goto
<1>2. tx'[r] = x /\ pc'[r] = "cleaning" /\ Others(r)
  BY <1>1, Becomes, Zenon
<1>3. /\ x.held = tx[r].held /\ x.assets = tx[r].assets /\ x.fresh = tx[r].fresh /\ x.upd = tx[r].upd
      /\ x.cur = tx[r].cur /\ x.enq = {} /\ x.cut = tx[r].cut /\ x.after = "open"
      /\ x.trk = tx[r].trk
  BY FieldsOf, Zenon DEF TxType, Fields
<1> HIDE DEF x
<1> QED BY <1>2, <1>3, Zenon DEF Keeps, SavepointFails, SavepointUndone

\* The clean-up of r has looked at one of its objects, or deleted it.
Cleans(r, trk, cut) ==
    /\ pc[r] = "cleaning" /\ pc' = pc /\ Others(r) /\ Keeps(r)
    /\ tx'[r].enq = tx[r].enq /\ tx'[r].cur = tx[r].cur /\ tx'[r].after = tx[r].after
    /\ tx'[r].trk = trk /\ tx'[r].cut = cut

RowHas(path) == row[path[2]].id # 0 /\ row[path[2]].place = path[1]

LEMMA CleanCheckDoes ==
    ASSUME Typed, TypeRest, NEW r \in Requests, NEW path \in Paths, CleanCheck(r, path)
    PROVE  /\ Cleans(r, tx[r].trk \ {path}, IF RowHas(path) THEN {} ELSE {path})
           /\ path \in tx[r].trk /\ tx[r].cut = {}
<1> DEFINE cut == IF RowHas(path) THEN {} ELSE {path}
           x == [tx[r] EXCEPT !.trk = tx[r].trk \ {path}, !.cut = cut]
<1>1. tx' = [tx EXCEPT ![r] = x] /\ pc' = pc /\ pc[r] = "cleaning"
  BY Zenon DEF CleanCheck, RowHas
<1> HIDE DEF cut
<1>2. tx'[r] = x /\ Others(r)
  BY <1>1, Zenon DEF Others, Typed
<1>3. /\ x.held = tx[r].held /\ x.assets = tx[r].assets /\ x.fresh = tx[r].fresh /\ x.upd = tx[r].upd
      /\ x.cur = tx[r].cur /\ x.enq = tx[r].enq /\ x.cut = cut /\ x.after = tx[r].after
      /\ x.trk = tx[r].trk \ {path}
  BY FieldsOf, Zenon DEF TxType, Fields
<1> HIDE DEF x
<1> QED BY <1>1, <1>2, <1>3, Zenon DEF Keeps, Cleans, CleanCheck, cut

LEMMA CleanDeleteDoes ==
    ASSUME Typed, TypeRest, NEW r \in Requests, NEW path \in Paths, CleanDelete(r, path)
    PROVE  Cleans(r, tx[r].trk, {}) /\ path \in tx[r].cut
<1> DEFINE x == [tx[r] EXCEPT !.cut = {}]
<1>1. tx' = [tx EXCEPT ![r] = x] /\ pc' = pc /\ pc[r] = "cleaning"
  BY Zenon DEF CleanDelete
<1>2. tx'[r] = x /\ Others(r)
  BY <1>1, Zenon DEF Others, Typed
<1>3. /\ x.held = tx[r].held /\ x.assets = tx[r].assets /\ x.fresh = tx[r].fresh /\ x.upd = tx[r].upd
      /\ x.cur = tx[r].cur /\ x.enq = tx[r].enq /\ x.cut = {} /\ x.after = tx[r].after
      /\ x.trk = tx[r].trk
  BY FieldsOf, Zenon DEF TxType, Fields
<1> HIDE DEF x
<1> QED BY <1>1, <1>2, <1>3, Zenon DEF Keeps, Cleans, CleanDelete

\* The purger goes on: its session is untouched, or has one asset less to purge.
Purges(p, a) ==
    \/ tx' = tx /\ pc' = pc
    \/ /\ p \in Requests /\ Over(p) /\ pc'[p] \in {"purging", "done"}
       /\ tx'[p].trk = {} /\ tx'[p].enq = tx[p].enq \ {a} /\ tx'[p].after = "done"

LEMMA ForgetDoes ==
    ASSUME Typed, TypeRest, NEW p \in Requests \union {Sweep}, NEW a, Forget(p, a)
    PROVE  Purges(p, a)
<1>1. CASE p = Sweep
  BY <1>1, Zenon DEF Forget, procVars, Purges
<1>2. CASE p # Sweep
  BY <1>2, ToPurgeDoes, Zenon DEF Forget, Purges, Drops
<1> QED BY <1>1, <1>2, Zenon

-----------------------------------------------------------------------------
(* Sessions and their phases.                                              *)

\* A session outside its transaction uses nothing.
Quiet(r) == tx[r].assets = {} /\ tx[r].fresh = {} /\ tx[r].upd = {}

\* Where the request is, and what its session then holds.
Phase(r) ==
    /\ pc[r] \in {"idle", "linked", "purging", "done"} => Quiet(r) /\ tx[r].trk = {}
    /\ pc[r] = "hooks" => Quiet(r) /\ tx[r].after = "linked"
    /\ pc[r] = "cleaning" /\ tx[r].after # "open" => Quiet(r)
    /\ pc[r] # "cleaning" => tx[r].cut = {}
    /\ pc[r] # "saving" => tx[r].cur = {}
    /\ pc[r] \in {"idle", "open", "saving"} => tx[r].after # "linked"
    /\ \A x, y \in tx[r].cut : x = y
    /\ \A s \in tx[r].cur : tx[r].cur = {s} /\ s.asset \in tx[r].assets

\* A request purges only in its deletion, and the object of the row it read.
Purging(p) ==
    /\ purge[p] # {} /\ p # Sweep => pc[p] = "purging"
    /\ \A s \in purge[p] : s.path[2] = s.asset[1]

\* A worker runs one job at a time.
Single(w) == \A s, t \in scan[w] : s = t

PhaseInv ==
    /\ FinalInv /\ TypeRest
    /\ \A r \in Requests : Phase(r)
    /\ \A p \in Requests \union {Sweep} : Purging(p)
    /\ \A w \in Workers : Single(w)

LEMMA PhaseInit == Init => PhaseInv
<1> SUFFICES ASSUME Init PROVE PhaseInv
  OBVIOUS
<1>1. FinalInv
  BY InitBoth, Zenon
<1>2. TypeRest
  BY DEF Init, TypeRest, Labels
<1>3. ASSUME NEW r \in Requests PROVE Phase(r)
  BY Zenon DEF Init, Phase, Quiet, NoTx
<1>4. ASSUME NEW p \in Requests \union {Sweep} PROVE Purging(p)
  BY Zenon DEF Init, Purging
<1>5. ASSUME NEW w \in Workers PROVE Single(w)
  BY Zenon DEF Init, Single
<1> QED BY <1>1, <1>2, <1>3, <1>4, <1>5, Zenon DEF PhaseInv

\* The steps of a request that are not part of a purge.
RequestStep(r) ==
    \/ Save(r) \/ CleanEnd(r) \/ Commit(r) \/ Rollback(r) \/ Unlink(r) \/ SavepointFails(r) \/ Crash(r)
    \/ \E a \in Assets : EnqueueScan(r, a)
    \/ \E path \in Paths : CleanCheck(r, path) \/ CleanDelete(r, path)
    \/ \E c \in Contents : Upsert(r, c)

LEMMA RequestPhase ==
    ASSUME Typed, TypeRest, NEW r \in Requests, Phase(r), RequestStep(r)
    PROVE  Others(r) /\ Phase(r)' /\ pc[r] # "purging"
<1>1. CASE Save(r)
  <2>1. PICK s \in tx[r].cur : Saved(r, s)
    BY <1>1, SaveDoes, Zenon
  <2> QED BY <2>1, Zenon DEF Saved, Keeps, Phase, Quiet
<1>2. CASE CleanEnd(r)
  <2>1. /\ pc[r] = "cleaning" /\ tx[r].trk = {} /\ tx[r].cut = {} /\ tx' = tx
        /\ pc' = [pc EXCEPT ![r] = tx[r].after] /\ tx[r].after \in {"done", "open", "linked"}
    BY <1>2, FieldsOf, Zenon DEF CleanEnd, Goto, Fields
  <2>2. pc'[r] = tx[r].after /\ Others(r)
    BY <2>1, Zenon DEF Others, TypeRest
  <2> QED BY <2>1, <2>2, Zenon DEF Phase, Quiet
<1>3. CASE Commit(r)
  BY <1>3, CommitDoes, Zenon DEF Over, Phase, Quiet, Committed
<1>4. CASE Rollback(r)
  BY <1>4, RollbackDoes, Zenon DEF Over, Phase, Quiet, RolledBack
<1>5. CASE Unlink(r)
  <2>1. pc[r] = "linked" /\ \E A : ToPurge(r, A)
    BY <1>5, Zenon DEF Unlink
  <2> QED BY <2>1, ToPurgeDoes, Zenon DEF Over, Phase, Quiet, Drops
<1>6. CASE SavepointFails(r)
  BY <1>6, SavepointDoes, Zenon DEF Keeps, Phase, Quiet, SavepointUndone
<1>7. CASE Crash(r)
  BY <1>7, CrashDoes, Zenon DEF Over, Phase, Quiet, Crashed
<1>8. ASSUME NEW a \in Assets, EnqueueScan(r, a) PROVE Others(r) /\ Phase(r)' /\ pc[r] # "purging"
  BY <1>8, EnqueueDoes, Zenon DEF Keeps, Phase, Quiet, Enqueued
<1>9. ASSUME NEW path \in Paths, CleanCheck(r, path) PROVE Others(r) /\ Phase(r)' /\ pc[r] # "purging"
  <2> DEFINE cut == IF RowHas(path) THEN {} ELSE {path}
  <2>1. Cleans(r, tx[r].trk \ {path}, cut)
    BY <1>9, CleanCheckDoes, Zenon
  <2>2. \A x, y \in cut : x = y
    BY Zenon
  <2> HIDE DEF cut
  <2> QED BY <2>1, <2>2, Zenon DEF Cleans, Keeps, Phase, Quiet
<1>10. ASSUME NEW path \in Paths, CleanDelete(r, path) PROVE Others(r) /\ Phase(r)' /\ pc[r] # "purging"
  BY <1>10, CleanDeleteDoes, Zenon DEF Cleans, Keeps, Phase, Quiet
<1>11. ASSUME NEW c \in Contents, Upsert(r, c) PROVE Others(r) /\ Phase(r)' /\ pc[r] # "purging"
  <2>1. Upserted(r, c)
    BY <1>11, UpsertDoes, Zenon
  <2>2. CASE Refuses(r)
    BY <2>1, <2>2, Zenon DEF Upserted, Refuses, Phase, Quiet
  <2>3. ASSUME NEW a \in Assets, NEW place, Joins(r, c, a, place) PROVE Others(r) /\ Phase(r)' /\ pc[r] # "purging"
    <3>1. /\ pc'[r] = "saving" /\ tx'[r].cut = {} /\ tx'[r].after # "linked"
          /\ pc[r] # "purging" /\ Others(r)
      BY <2>1, <2>3, Zenon DEF Upserted, Joins, Phase
    <3>2. \A s \in tx'[r].cur : tx'[r].cur = {s} /\ s.asset \in tx'[r].assets
      <4> DEFINE x == [asset |-> a, place |-> place]
      <4>1. x.asset = a /\ tx'[r].cur = {x} /\ a \in tx'[r].assets
        BY <2>3, Zenon DEF Joins
      <4> HIDE DEF x
      <4> QED BY <4>1, Zenon
    <3> QED BY <3>1, <3>2, Zenon DEF Phase
  <2> QED BY <2>1, <2>2, <2>3, Zenon DEF Upserted, Inserts, Reuses
<1> QED BY <1>1, <1>2, <1>3, <1>4, <1>5, <1>6, <1>7, <1>8, <1>9, <1>10, <1>11, Zenon DEF RequestStep

LEMMA RequestScans ==
    ASSUME NEW r \in Requests, RequestStep(r)
    PROVE  scan' = scan /\ purge' = purge
BY Zenon DEF RequestStep, Save, CleanEnd, Commit, Rollback, Unlink, SavepointFails, Crash, EnqueueScan,
   CleanCheck, CleanDelete, Upsert

PurgeType == [asset : Assets, path : Paths, del : BOOLEAN]

\* The purger has found a row that nobody links, ...
Looks(p, a, s) ==
    /\ purge[p] = {} /\ MayPurge(p, a) /\ HasRow(a) /\ ~Linked(a)
    /\ s \in PurgeType /\ s.asset = a /\ s.path = <<row[a[1]].place, a[1]>> /\ s.del = (s.path \in files)
    /\ purge' = [purge EXCEPT ![p] = {s}]
    /\ row' = row /\ files' = files /\ tx' = tx /\ pc' = pc

\* ... has deleted its object, ...
Deletes(p, s, t) ==
    /\ s \in purge[p] /\ s.del
    /\ t \in PurgeType /\ t.asset = s.asset /\ t.path = s.path /\ ~t.del
    /\ purge' = [purge EXCEPT ![p] = {t}] /\ files' = files \ {s.path}
    /\ row' = row /\ tx' = tx /\ pc' = pc

\* ... and has deleted the row, or found nothing to delete, or given up.
Quits(p, a) ==
    /\ a \in Assets /\ (p # Sweep => pc[p] = "purging") /\ Purges(p, a)
    /\ purge' = [purge EXCEPT ![p] = {}] /\ files' = files
    /\ \/ row' = row
       \/ /\ \E s \in purge[p] : s.asset = a /\ ~s.del
          /\ HasRow(a) /\ row' = [row EXCEPT ![a[1]] = NoRow]

LEMMA PurgeTyping ==
    ASSUME TypeRest, NEW p \in Requests \union {Sweep}, NEW s \in purge[p]
    PROVE  s \in PurgeType /\ s.asset \in Assets /\ s.path \in Paths
<1>1. s \in PurgeType
  BY Zenon DEF TypeRest, PurgeType
<1> QED BY <1>1, Zenon DEF PurgeType

PurgeEffect(p) ==
    /\ ids' = ids /\ links' = links /\ job' = job /\ att' = att /\ scan' = scan
    /\ lost' = lost /\ left' = left
    /\ faults' = faults \/ \E f \in Faults : Fault(f)
    /\ \/ \E a \in Assets, s \in PurgeType : Looks(p, a, s)
       \/ \E s \in purge[p], t \in PurgeType : Deletes(p, s, t)
       \/ \E a \in Assets : Quits(p, a)

LEMMA PurgeDoes ==
    ASSUME PhaseInv, NEW p \in Requests \union {Sweep}, Purge(p)
    PROVE  PurgeEffect(p)
<1>0. Typed /\ TypeRest /\ Purging(p)
  BY Zenon DEF PhaseInv, FinalInv
<1>1. /\ ids' = ids /\ links' = links /\ job' = job /\ att' = att /\ scan' = scan /\ lost' = lost /\ left' = left
      /\ faults' = faults \/ \E f \in Faults : Fault(f)
  BY Zenon DEF Purge, PurgeFile, PurgeRow, PurgeCheck, storeVars, jobVars, histVars, Fault
<1> DEFINE Goal == \/ \E a \in Assets, s \in PurgeType : Looks(p, a, s)
                   \/ \E s \in purge[p], t \in PurgeType : Deletes(p, s, t)
                   \/ \E a \in Assets : Quits(p, a)
<1>2. ASSUME NEW a \in Assets, PurgeCheck(p, a) PROVE Goal
  <2>0. purge[p] = {} /\ MayPurge(p, a) /\ row' = row /\ files' = files
    BY <1>2, Zenon DEF PurgeCheck, storeVars
  <2>1. CASE HasRow(a) /\ ~Linked(a) /\ tx' = tx /\ pc' = pc /\
             purge' = [purge EXCEPT ![p] = {[asset |-> a, path |-> <<row[a[1]].place, a[1]>>,
                                             del |-> <<row[a[1]].place, a[1]>> \in files]}]
    <3> DEFINE path == <<row[a[1]].place, a[1]>>
               s == [asset |-> a, path |-> path, del |-> path \in files]
    <3>1. path \in Paths
      BY <1>0, AssetParts, Zenon DEF Typed, RowType, Paths
    <3>2. path = <<row[a[1]].place, a[1]>> /\ purge' = [purge EXCEPT ![p] = {s}]
      BY <2>1, Zenon
    <3> HIDE DEF path
    <3>3. s \in PurgeType /\ s.asset = a /\ s.path = path /\ s.del = (path \in files)
      BY <3>1 DEF PurgeType
    <3> HIDE DEF s
    <3>4. Looks(p, a, s)
      BY <2>0, <2>1, <3>2, <3>3, Zenon DEF Looks
    <3> QED BY <3>3, <3>4, Zenon
  <2>2. CASE p # Sweep /\ Forget(p, a) /\ purge' = purge
    <3>1. Purges(p, a)
      BY <1>0, <2>2, ForgetDoes, Zenon
    <3>2. purge' = [purge EXCEPT ![p] = {}]
      BY <1>0, <2>0, <2>2, Zenon DEF TypeRest
    <3> QED BY <2>0, <3>1, <3>2, Zenon DEF Quits, MayPurge
  <2> QED BY <1>2, <2>1, <2>2, Zenon DEF PurgeCheck, procVars
<1>3. ASSUME PurgeFile(p) PROVE Goal
  <2>1. PICK s \in purge[p] :
           /\ s.del
           /\ \/ /\ files' = files \ {s.path} /\ purge' = [purge EXCEPT ![p] = {[s EXCEPT !.del = FALSE]}]
                 /\ tx' = tx /\ pc' = pc
              \/ files' = files /\ purge' = [purge EXCEPT ![p] = {}] /\ Forget(p, s.asset)
    BY <1>3, Zenon DEF PurgeFile, procVars
  <2>2. row' = row /\ s \in PurgeType /\ s.asset \in Assets
    BY <1>0, <1>3, PurgeTyping, Zenon DEF PurgeFile
  <2>3. CASE /\ files' = files \ {s.path} /\ purge' = [purge EXCEPT ![p] = {[s EXCEPT !.del = FALSE]}]
             /\ tx' = tx /\ pc' = pc
    <3> DEFINE t == [s EXCEPT !.del = FALSE]
    <3>1. t \in PurgeType /\ t.asset = s.asset /\ t.path = s.path /\ ~t.del
      BY <2>2, Zenon DEF PurgeType
    <3>2. purge' = [purge EXCEPT ![p] = {t}]
      BY <2>3, Zenon
    <3> HIDE DEF t
    <3> QED BY <2>1, <2>2, <2>3, <3>1, <3>2, Zenon DEF Deletes
  <2>4. CASE files' = files /\ purge' = [purge EXCEPT ![p] = {}] /\ Forget(p, s.asset)
    BY <1>0, <2>1, <2>2, <2>4, ForgetDoes, Zenon DEF Quits, Purging
  <2> QED BY <2>1, <2>3, <2>4, Zenon
<1>4. ASSUME PurgeRow(p) PROVE Goal
  <2>1. PICK s \in purge[p] :
           /\ ~s.del /\ Forget(p, s.asset)
           /\ row' = row \/ (HasRow(s.asset) /\ row' = [row EXCEPT ![s.asset[1]] = NoRow])
    BY <1>4, Zenon DEF PurgeRow
  <2>2. files' = files /\ purge' = [purge EXCEPT ![p] = {}] /\ s.asset \in Assets
    BY <1>0, <1>4, PurgeTyping, Zenon DEF PurgeRow
  <2> QED BY <1>0, <2>1, <2>2, ForgetDoes, Zenon DEF Quits, Purging
<1> QED BY <1>1, <1>2, <1>3, <1>4, Zenon DEF Purge, PurgeEffect

\* What a purge leaves of the sessions.
PurgerIs(p, a) ==
    p \in Requests /\ Others(p) /\ Over(p) /\ pc[p] = "purging" /\ pc'[p] \in {"purging", "done"}
    /\ tx'[p].trk = {} /\ tx'[p].enq = tx[p].enq \ {a} /\ tx'[p].after = "done" /\ Phase(p)'

LEMMA PurgeSessions ==
    ASSUME PhaseInv, NEW p \in Requests \union {Sweep}, NEW a \in Assets, Quits(p, a), tx' # tx \/ pc' # pc
    PROVE  PurgerIs(p, a)
<1>1. p \in Requests /\ p # Sweep
  BY ConstantsAssumption, Zenon DEF Quits, Purges
<1>2. Phase(p) /\ pc[p] = "purging"
  BY <1>1, Zenon DEF PhaseInv, Quits
<1> QED BY <1>1, <1>2, Zenon DEF Quits, Purges, Over, Phase, Quiet, PurgerIs

\* The worker w goes on with the same asset.
Shifts(w, s, place, step) ==
    /\ \A v \in Workers \ {w} : scan'[v] = scan[v]
    /\ \E x \in ScanType : x.asset = s.asset /\ x.place = place /\ x.step = step /\ scan'[w] = {x}

LEMMA AtShifts ==
    ASSUME Typed, NEW w \in Workers, NEW s \in scan[w], NEW step \in Steps, NEW place \in Places
    PROVE  /\ At(w, s, step) => Shifts(w, s, s.place, step)
           /\ At(w, [s EXCEPT !.place = place], step) => Shifts(w, s, place, step)
<1>1. s \in ScanType
  BY ScanTyped, Zenon
<1>2. ASSUME At(w, s, step) PROVE Shifts(w, s, s.place, step)
  <2> DEFINE x == [s EXCEPT !.step = step]
  <2>1. x \in ScanType /\ x.asset = s.asset /\ x.place = s.place /\ x.step = step
    BY <1>1, Zenon DEF ScanType
  <2>2. scan' = [scan EXCEPT ![w] = {x}]
    BY <1>2, Zenon DEF At
  <2> HIDE DEF x
  <2> QED BY <2>1, <2>2, Zenon DEF Shifts, Typed
<1>3. ASSUME At(w, [s EXCEPT !.place = place], step) PROVE Shifts(w, s, place, step)
  <2> DEFINE t == [s EXCEPT !.place = place]
             x == [t EXCEPT !.step = step]
  <2>1. t \in ScanType /\ t.asset = s.asset /\ t.place = place
    BY <1>1, Zenon DEF ScanType
  <2>2. scan' = [scan EXCEPT ![w] = {x}]
    BY <1>3, Zenon DEF At
  <2> HIDE DEF t
  <2>3. x \in ScanType /\ x.asset = s.asset /\ x.place = place /\ x.step = step
    BY <2>1, Zenon DEF ScanType
  <2> HIDE DEF x
  <2> QED BY <2>2, <2>3, Zenon DEF Shifts, Typed
<1> QED BY <1>2, <1>3, Zenon

\* How a worker goes through the handler, and the place it then has in mind.
Progress(s, place, step) ==
    \/ /\ s.step = "read" /\ step = "start" /\ place = row[s.asset[1]].place
       /\ HasRow(s.asset) /\ row[s.asset[1]].scan # "infected"
    \/ s.step = "move" /\ step = "infected" /\ place = "quarantine" /\ <<s.place, s.asset[1]>> \in files
    \/ /\ place = s.place
       /\ \/ s.step = "read" /\ step = "succeed"
          \/ s.step = "start" /\ step = "scanning"
          \/ s.step = "scanning" /\ step \in {"move", "clean", "scan_error"}
          \/ s.step \in {"clean", "scan_error"} /\ step \in {"succeed", "fail"}
          \/ s.step = "move" /\ step = "infected" /\ <<s.place, s.asset[1]>> \notin files
          \/ s.step = "infected" /\ step = "succeed"

HandlerStep(w, s) ==
    ScanRead(w, s) \/ ScanStart(w, s) \/ Verdict(w, s) \/ WriteStatus(w, s) \/ MoveAway(w, s) \/ WriteInfected(w, s)

HandlerEffect(w, s) ==
    /\ ids' = ids /\ links' = links /\ tx' = tx /\ pc' = pc /\ purge' = purge /\ job' = job
    /\ att' = att /\ lost' = lost /\ left' = left
    /\ faults' = faults \/ \E f \in Faults : Fault(f)
    /\ \E place \in Places, step \in Steps : Progress(s, place, step) /\ Shifts(w, s, place, step)

LEMMA HandlerDoes ==
    ASSUME Typed, NEW w \in Workers, NEW s \in scan[w], HandlerStep(w, s)
    PROVE  HandlerEffect(w, s)
<1>1. /\ ids' = ids /\ links' = links /\ tx' = tx /\ pc' = pc /\ purge' = purge /\ job' = job
      /\ att' = att /\ lost' = lost /\ left' = left
      /\ faults' = faults \/ \E f \in Faults : Fault(f)
  BY Zenon DEF HandlerStep, ScanRead, ScanStart, Verdict, WriteStatus, MoveAway, WriteInfected,
     storeVars, procVars, jobVars, histVars, Fault
<1>2. /\ s.place \in Places /\ s.asset[1] \in Contents /\ row[s.asset[1]].place \in Places
      /\ "quarantine" \in Places
  BY ScanTyped, Zenon DEF Typed, ScanType, RowType, Places
<1>3. PICK place \in Places, step \in Steps :
         /\ Progress(s, place, step)
         /\ At(w, [s EXCEPT !.place = place], step) \/ (place = s.place /\ At(w, s, step))
  <2>1. CASE ScanRead(w, s)
    BY <1>2, <2>1, Zenon DEF ScanRead, Progress, Steps
  <2>2. CASE ScanStart(w, s)
    BY <1>2, <2>2, Zenon DEF ScanStart, Progress, Steps
  <2>3. CASE Verdict(w, s)
    <3>1. PICK step \in {"move", "clean", "scan_error"} : At(w, s, step)
      BY <2>3, Zenon DEF Verdict
    <3> QED BY <1>2, <2>3, <3>1, Zenon DEF Verdict, Progress, Steps
  <2>4. CASE WriteStatus(w, s)
    <3>1. PICK step \in {"succeed", "fail"} : At(w, s, step)
      BY <2>4, Zenon DEF WriteStatus
    <3> QED BY <1>2, <2>4, <3>1, Zenon DEF WriteStatus, Progress, Steps
  <2>5. CASE MoveAway(w, s)
    BY <1>2, <2>5, Zenon DEF MoveAway, Progress, Steps
  <2>6. CASE WriteInfected(w, s)
    BY <1>2, <2>6, Zenon DEF WriteInfected, Progress, Steps
  <2> QED BY <2>1, <2>2, <2>3, <2>4, <2>5, <2>6, Zenon DEF HandlerStep
<1>4. Shifts(w, s, place, step)
  BY <1>3, AtShifts, Zenon
<1> QED BY <1>1, <1>3, <1>4, Zenon DEF HandlerEffect

\* The steps of the queue: a job is given to a worker, ends, or is given back.
QueueStep(w) == (\E a \in Assets : Claim(w, a)) \/ \E s \in scan[w] : Settle(w, s) \/ Recover(w, s)

QueueEffect(w) ==
    /\ row' = row /\ ids' = ids /\ files' = files /\ links' = links /\ tx' = tx /\ pc' = pc
    /\ purge' = purge /\ left' = left /\ lost \subseteq lost'
    /\ faults' = faults \/ \E f \in Faults : Fault(f)
    /\ att' \in [Assets -> Nat] /\ lost' \subseteq Assets
    /\ \A v \in Workers \ {w} : scan'[v] = scan[v]
    /\ \/ scan'[w] = {} \/ scan' = scan
       \/ \E x \in ScanType : scan'[w] = {x} /\ x.step = "read" /\ x.place = "home" /\ scan[w] = {}

LEMMA QueueDoes ==
    ASSUME Typed, TypeRest, NEW w \in Workers, QueueStep(w)
    PROVE  QueueEffect(w)
<1> USE DEF storeVars, procVars, jobVars, histVars
<1>1. CASE \E a \in Assets : Claim(w, a)
  <2>1. PICK a \in Assets : Claim(w, a)
    BY <1>1, Zenon
  <2> DEFINE x == [asset |-> a, place |-> "home", step |-> "read"]
  <2>2. att' = [att EXCEPT ![a] = att[a] + 1] /\ scan' = [scan EXCEPT ![w] = {x}] /\ scan[w] = {}
    BY <2>1, Zenon DEF Claim
  <2>3. att' \in [Assets -> Nat]
    BY <2>2 DEF TypeRest
  <2>4. x \in ScanType /\ x.step = "read" /\ x.place = "home"
    BY Zenon DEF ScanType, Places, Steps
  <2> HIDE DEF x
  <2>5. scan'[w] = {x} /\ \A v \in Workers \ {w} : scan'[v] = scan[v]
    BY <2>2, Zenon DEF Typed
  <2> QED BY <2>1, <2>2, <2>3, <2>4, <2>5, Zenon DEF Claim, TypeRest, QueueEffect
<1>2. ASSUME NEW s \in scan[w], Settle(w, s) PROVE att' \in [Assets -> Nat] /\ lost' \subseteq Assets
  <2>1. s.asset \in Assets
    BY ScanTyped, Zenon
  <2>2. att' = att \/ \E n \in {0, att[s.asset]} : att' = [att EXCEPT ![s.asset] = n]
    BY <1>2, Zenon DEF Settle
  <2>3. lost' = lost \/ lost' = lost \union {s.asset}
    BY <1>2, Zenon DEF Settle
  <2>4. att' \in [Assets -> Nat]
    BY <2>1, <2>2 DEF TypeRest
  <2> QED BY <2>1, <2>3, <2>4, Zenon DEF TypeRest
<1>3. CASE \E s \in scan[w] : Settle(w, s) \/ Recover(w, s)
  <2>1. scan' = scan \/ scan' = [scan EXCEPT ![w] = {}]
    BY <1>3, Zenon DEF Settle, Recover
  <2>2. (\A v \in Workers \ {w} : scan'[v] = scan[v]) /\ (scan'[w] = {} \/ scan' = scan)
    BY <2>1, Zenon DEF Typed
  <2>3. CASE \E s \in scan[w] : Settle(w, s)
    <3>1. lost \subseteq lost'
      BY <2>3, Zenon DEF Settle
    <3> QED BY <1>2, <2>2, <2>3, <3>1, Zenon DEF Settle, QueueEffect
  <2>4. CASE \E s \in scan[w] : Recover(w, s)
    BY <2>2, <2>4, Zenon DEF Recover, Fault, TypeRest, QueueEffect
  <2> QED BY <1>3, <2>3, <2>4, Zenon
<1> QED BY <1>1, <1>3, Zenon DEF QueueStep, QueueEffect

\* Next, by who takes the step.
LEMMA NextCases ==
    ASSUME Next
    PROVE  \/ \E r \in Requests : RequestStep(r)
           \/ \E p \in Requests \union {Sweep} : Purge(p)
           \/ \E w \in Workers : QueueStep(w)
           \/ \E w \in Workers : \E s \in scan[w] : HandlerStep(w, s)
<1>1. CASE \E r \in Requests : \/ Request(r) \/ Choice(r) \/ Unlink(r) \/ SavepointFails(r) \/ Crash(r)
                              \/ \E c \in Contents : Upsert(r, c)
  BY <1>1, Zenon DEF Request, Choice, RequestStep
<1>2. CASE \E w \in Workers : Scan(w) \/ \E s \in scan[w] : Recover(w, s)
  BY <1>2, Zenon DEF Scan, QueueStep, HandlerStep
<1> QED BY <1>1, <1>2, Zenon DEF Next, Step

\* Every step keeps the sessions in their phases.
LEMMA PhaseNext == PhaseInv /\ Next => PhaseInv'

<1>PhaseOthers. ASSUME NEW r, Others(r), NEW q \in Requests \ {r}, Phase(q)
                PROVE  Phase(q)'
  BY <1>PhaseOthers, Zenon DEF Others, Phase, Quiet

<1>FaultTyped. ASSUME TypeRest, NEW f, Fault(f)
               PROVE  faults' \in Nat
  BY <1>FaultTyped DEF TypeRest, Fault

<1>RequestTyped. ASSUME FinalInv, TypeRest, NEW r \in Requests, RequestStep(r), torn' \subseteq Contents
                 PROVE  TypeRest'
  <2> USE <1>RequestTyped
  <2>0. /\ Typed /\ tx[r].assets \subseteq Assets /\ tx[r].enq \subseteq Assets
        /\ tx[r].trk \subseteq Paths /\ tx[r].cut \subseteq Paths /\ tx[r].after \in Labels
    <3>1. Typed
      BY Zenon DEF FinalInv
    <3> QED BY <3>1, FieldsOf, Zenon DEF Labels, Fields
  <2>1. purge' = purge /\ att' = att
    BY Zenon DEF RequestStep, Save, CleanEnd, Commit, Rollback, Unlink, SavepointFails, Crash, EnqueueScan,
       CleanCheck, CleanDelete, Upsert, jobVars
  <2>2. faults' \in Nat
    <3>1. faults' = faults \/ \E f \in Faults : Fault(f)
      BY Zenon DEF RequestStep, Save, CleanEnd, Commit, Rollback, Unlink, SavepointFails, Crash, EnqueueScan,
         CleanCheck, CleanDelete, Upsert, Fault
    <3> QED BY <3>1, <1>FaultTyped, Zenon DEF TypeRest
  <2>3. files' \subseteq Paths
    <3>1. CASE Save(r)
      BY <2>0, <3>1, SaveDoes, Zenon DEF Saved, TypeRest
    <3>2. CASE files' = files \/ \E path \in Paths : files' = files \ {path}
      BY <3>2, Zenon DEF TypeRest
    <3> QED BY <3>1, <3>2, Zenon DEF RequestStep, CleanEnd, Commit, Rollback, Unlink, SavepointFails, Crash,
               EnqueueScan, CleanCheck, CleanDelete, Upsert, storeVars
  <2>4. links' \subseteq Requests \X Assets
    <3>1. CASE Commit(r)
      <4>1. links' = links \union ({r} \X tx[r].assets)
        BY <3>1, Zenon DEF Commit
      <4> QED BY <2>0, <4>1 DEF TypeRest
    <3>2. CASE links' \subseteq links
      BY <3>2, Zenon DEF TypeRest
    <3> QED BY <3>1, <3>2, Zenon DEF RequestStep, Save, CleanEnd, Rollback, Unlink, SavepointFails, Crash,
               EnqueueScan, CleanCheck, CleanDelete, Upsert, storeVars
  <2>5. lost' \subseteq Assets
    <3>1. lost' = lost \/ \E A \in SUBSET Assets : lost' = lost \union A \/ lost' = lost \ A
      <4>1. CASE Crash(r)
        BY <2>0, <4>1, Zenon DEF Crash
      <4>2. CASE SavepointFails(r)
        BY <2>0, <4>2, Zenon DEF SavepointFails
      <4>3. CASE \E a \in Assets : EnqueueScan(r, a)
        <5>1. PICK a \in Assets : lost' = lost \ {a} \/ lost' = lost \union {a}
          BY <4>3, Zenon DEF EnqueueScan
        <5> QED BY <5>1, Zenon
      <4>4. CASE lost' = lost
        BY <4>4, Zenon
      <4> QED BY <4>1, <4>2, <4>3, <4>4, Zenon DEF RequestStep, Save, CleanEnd, Commit, Rollback, Unlink,
                 CleanCheck, CleanDelete, Upsert, histVars
    <3> QED BY <3>1, Zenon DEF TypeRest
  <2>6. left' \subseteq Contents
    <3>1. \A path \in Paths : path[2] \in Contents
      BY DEF Paths
    <3>2. CASE Crash(r)
      <4>1. left' = left \/ left' = left \union {path[2] : path \in tx[r].trk \union tx[r].cut}
        BY <3>2, Zenon DEF Crash
      <4> QED BY <2>0, <3>1, <4>1 DEF TypeRest
    <3>3. CASE left' = left \/ \E path \in Paths : left' = left \union {path[2]}
      BY <3>1, <3>3 DEF TypeRest
    <3> QED BY <3>2, <3>3, Zenon DEF RequestStep, Save, CleanEnd, Commit, Rollback, Unlink, SavepointFails,
               EnqueueScan, CleanCheck, CleanDelete, Upsert, histVars
  <2>7. pc' \in [Requests -> Labels]
    <3>1. pc' = pc \/ \E label \in Labels : pc' = [pc EXCEPT ![r] = label]
      <4>1. CASE \E c \in Contents : Upsert(r, c)
        BY <4>1, Zenon DEF Upsert, UpsertNew, UpsertExisting, Stage, Goto, Labels
      <4>2. CASE Save(r) \/ CleanEnd(r) \/ Rollback(r) \/ SavepointFails(r)
        BY <2>0, <4>2, Zenon DEF Save, CleanEnd, Rollback, SavepointFails, Goto, Labels
      <4>3. CASE Commit(r) \/ Crash(r) \/ Unlink(r) \/ \E a \in Assets : EnqueueScan(r, a)
        BY <4>3, Zenon DEF Commit, Crash, Unlink, EnqueueScan, AfterHooks, ToPurge, Goto, Labels
      <4>4. CASE \E path \in Paths : CleanCheck(r, path) \/ CleanDelete(r, path)
        BY <4>4, Zenon DEF CleanCheck, CleanDelete
      <4> QED BY <4>1, <4>2, <4>3, <4>4, Zenon DEF RequestStep
    <3> QED BY <3>1, Zenon DEF TypeRest
  <2> QED BY <2>1, <2>2, <2>3, <2>4, <2>5, <2>6, <2>7, Zenon DEF TypeRest

<1>PurgePhases. ASSUME PhaseInv, NEW p \in Requests \union {Sweep}, Purge(p), torn' \subseteq Contents
                PROVE  /\ TypeRest' /\ \A r \in Requests : Phase(r)'
                       /\ \A q \in Requests \union {Sweep} : Purging(q)'
  <2> USE <1>PurgePhases
  <2>0. TypeRest /\ \A q \in Requests : Phase(q)
    BY Zenon DEF PhaseInv
  <2>1. /\ ids' = ids /\ links' = links /\ job' = job /\ att' = att /\ scan' = scan /\ lost' = lost /\ left' = left
        /\ faults' = faults \/ \E f \in Faults : Fault(f)
        /\ \/ \E a \in Assets, s \in PurgeType : Looks(p, a, s)
           \/ \E s \in purge[p], t \in PurgeType : Deletes(p, s, t)
           \/ \E a \in Assets : Quits(p, a)
    BY PurgeDoes, Zenon DEF PurgeEffect
  <2>2. faults' \in Nat
    BY <2>0, <2>1, <1>FaultTyped, Zenon DEF TypeRest
  <2>3. /\ files' \subseteq Paths
        /\ purge' \in [Requests \union {Sweep} -> SUBSET PurgeType]
        /\ \A q \in (Requests \union {Sweep}) \ {p} : purge'[q] = purge[q]
    <3>1. purge \in [Requests \union {Sweep} -> SUBSET PurgeType] /\ files \subseteq Paths
      BY <2>0, Zenon DEF TypeRest, PurgeType
    <3>2. \/ files' = files
          \/ \E path \in Paths : files' = files \ {path}
      BY <2>0, <2>1, PurgeTyping, Zenon DEF Looks, Deletes, Quits
    <3>3. \E A \in SUBSET PurgeType : purge' = [purge EXCEPT ![p] = A]
      <4>1. {} \in SUBSET PurgeType /\ \A s \in PurgeType : {s} \in SUBSET PurgeType
        BY Zenon
      <4> QED BY <2>1, <4>1, Zenon DEF Looks, Deletes, Quits
    <3> QED BY <3>1, <3>2, <3>3, Zenon
  <2>4. CASE tx' = tx /\ pc' = pc
    <3>1. TypeRest'
      BY <2>0, <2>1, <2>2, <2>3, <2>4, Zenon DEF TypeRest, PurgeType
    <3>2. \A r \in Requests : Phase(r)'
      BY <2>0, <2>4, Zenon DEF Phase, Quiet
    <3>3. ASSUME NEW q \in (Requests \union {Sweep}) \ {p} PROVE Purging(q)'
      BY <2>3, <2>4, Zenon DEF PhaseInv, Purging
    <3>4. Purging(p)'
      <4>1. Purging(p) /\ purge \in [Requests \union {Sweep} -> SUBSET PurgeType]
        BY <2>0, Zenon DEF PhaseInv, TypeRest, PurgeType
      <4>2. ASSUME NEW a \in Assets, NEW s \in PurgeType, Looks(p, a, s) PROVE Purging(p)'
        <5>1. purge'[p] = {s} /\ (p # Sweep => pc[p] = "purging") /\ s.path[2] = s.asset[1]
          BY <4>1, <4>2 DEF Looks, MayPurge
        <5> QED BY <2>4, <5>1, Zenon DEF Purging
      <4>3. ASSUME NEW s \in purge[p], NEW t \in PurgeType, Deletes(p, s, t) PROVE Purging(p)'
        <5>1. purge'[p] = {t} /\ t.path = s.path /\ t.asset = s.asset
          BY <4>1, <4>3, Zenon DEF Deletes
        <5> QED BY <2>4, <4>1, <4>3, <5>1, Zenon DEF Purging
      <4>4. ASSUME NEW a \in Assets, Quits(p, a) PROVE Purging(p)'
        BY <4>1, <4>4, Zenon DEF Quits, Purging
      <4> QED BY <2>1, <4>2, <4>3, <4>4, Zenon
    <3> QED BY <3>1, <3>2, <3>3, <3>4, Zenon
  <2>5. CASE tx' # tx \/ pc' # pc
    <3>1. PICK a \in Assets : Quits(p, a)
      BY <2>1, <2>5, Zenon DEF Looks, Deletes
    <3>2. p \in Requests /\ Others(p) /\ pc'[p] \in {"purging", "done"} /\ Phase(p)'
      BY <2>5, <3>1, PurgeSessions, Zenon DEF PurgerIs
    <3>3. pc' \in [Requests -> Labels]
      <4>1. pc' = pc \/ \E label \in Labels : pc' = [pc EXCEPT ![p] = label]
        BY Zenon DEF Purge, PurgeFile, PurgeRow, PurgeCheck, Forget, ToPurge, Goto, procVars, Labels
      <4> QED BY <2>0, <3>2, <4>1, Zenon DEF TypeRest
    <3>4. TypeRest'
      BY <2>0, <2>1, <2>2, <2>3, <3>3, Zenon DEF TypeRest, PurgeType
    <3>5. ASSUME NEW q \in Requests PROVE Phase(q)'
      BY <2>0, <3>2, <1>PhaseOthers, Zenon
    <3>6. ASSUME NEW q \in (Requests \union {Sweep}) \ {p} PROVE Purging(q)'
      <4>1. q # Sweep => pc'[q] = pc[q]
        BY <3>2, Zenon DEF Others
      <4> QED BY <2>3, <4>1, Zenon DEF PhaseInv, Purging
    <3>7. Purging(p)'
      <4>1. purge'[p] = {}
        BY <2>0, <3>1, Zenon DEF Quits, TypeRest
      <4> QED BY <4>1, Zenon DEF Purging
    <3> QED BY <3>4, <3>5, <3>6, <3>7, Zenon
  <2> QED BY <2>4, <2>5, Zenon

<1>All. ASSUME PhaseInv, Next
        PROVE  PhaseInv'
  <2> USE <1>All
  <2>0. Typed /\ FinalInv /\ TypeRest
    BY Zenon DEF PhaseInv, FinalInv
  <2>1. FinalInv' /\ torn' \subseteq Contents
    BY <2>0, FinalStep, Zenon DEF Next, NoteOverlap, TypeRest
  <2> DEFINE Goal == /\ TypeRest' /\ (\A r \in Requests : Phase(r)')
                     /\ (\A p \in Requests \union {Sweep} : Purging(p)') /\ \A w \in Workers : Single(w)'
  <2> SUFFICES Goal
    BY <2>1, Zenon DEF PhaseInv
  <2>2. ASSUME NEW r \in Requests, RequestStep(r) PROVE Goal
    <3>1. TypeRest' /\ scan' = scan /\ purge' = purge
      BY <2>0, <2>1, <2>2, <1>RequestTyped, RequestScans, Zenon
    <3>2. Others(r) /\ Phase(r)' /\ pc[r] # "purging"
      BY <2>0, <2>2, RequestPhase, Zenon DEF PhaseInv
    <3>3. ASSUME NEW q \in Requests PROVE Phase(q)'
      BY <3>2, <1>PhaseOthers, Zenon DEF PhaseInv
    <3>4. ASSUME NEW p \in Requests \union {Sweep} PROVE Purging(p)'
      <4>1. Purging(p)
        BY Zenon DEF PhaseInv
      <4>2. purge[p] # {} /\ p # Sweep => pc'[p] = pc[p]
        BY <3>2, <4>1, Zenon DEF Purging, Others
      <4> QED BY <3>1, <4>1, <4>2, Zenon DEF Purging
    <3>5. ASSUME NEW w \in Workers PROVE Single(w)'
      BY <3>1, Zenon DEF PhaseInv, Single
    <3> QED BY <3>1, <3>3, <3>4, <3>5, Zenon
  <2>3. ASSUME NEW p \in Requests \union {Sweep}, Purge(p) PROVE Goal
    <3>1. scan' = scan
      BY <2>3, PurgeDoes, Zenon DEF PurgeEffect
    <3>2. ASSUME NEW w \in Workers PROVE Single(w)'
      BY <3>1, Zenon DEF PhaseInv, Single
    <3> QED BY <2>1, <2>3, <3>2, <1>PurgePhases, Zenon
  <2>4. ASSUME tx' = tx, pc' = pc, purge' = purge
        PROVE  (\A r \in Requests : Phase(r)') /\ \A p \in Requests \union {Sweep} : Purging(p)'
    BY <2>4, Zenon DEF PhaseInv, Phase, Quiet, Purging
  <2>5. ASSUME NEW w \in Workers, QueueStep(w) PROVE Goal
    <3>1. /\ files' = files /\ links' = links /\ tx' = tx /\ pc' = pc /\ purge' = purge /\ left' = left
          /\ faults' = faults \/ \E f \in Faults : Fault(f)
          /\ att' \in [Assets -> Nat] /\ lost' \subseteq Assets
          /\ \A v \in Workers \ {w} : scan'[v] = scan[v]
          /\ scan'[w] = {} \/ scan' = scan \/ \E x \in ScanType : scan'[w] = {x}
      BY <2>0, <2>5, QueueDoes, Zenon DEF QueueEffect
    <3>2. faults' \in Nat
      BY <2>0, <3>1, <1>FaultTyped, Zenon DEF TypeRest
    <3>3. TypeRest'
      BY <2>0, <2>1, <3>1, <3>2, Zenon DEF TypeRest
    <3>4. ASSUME NEW v \in Workers PROVE Single(v)'
      <4>1. \A x : \A s, t \in {x} : s = t
        BY Zenon
      <4>2. Single(v) /\ (v # w => scan'[v] = scan[v])
        BY <3>1, Zenon DEF PhaseInv
      <4>3. scan'[w] = {} \/ scan'[w] = scan[w] \/ \E x : scan'[w] = {x}
        BY <3>1, Zenon
      <4> QED BY <4>1, <4>2, <4>3 DEF Single
    <3> QED BY <2>4, <3>1, <3>3, <3>4, Zenon
  <2>6. ASSUME NEW w \in Workers, NEW s \in scan[w], HandlerStep(w, s) PROVE Goal
    <3>1. /\ links' = links /\ tx' = tx /\ pc' = pc /\ purge' = purge /\ att' = att /\ lost' = lost /\ left' = left
          /\ faults' = faults \/ \E f \in Faults : Fault(f)
          /\ \A v \in Workers \ {w} : scan'[v] = scan[v]
          /\ \E x \in ScanType : scan'[w] = {x}
      BY <2>0, <2>6, HandlerDoes, Zenon DEF Shifts, HandlerEffect
    <3>2. faults' \in Nat
      BY <2>0, <3>1, <1>FaultTyped, Zenon DEF TypeRest
    <3>3. files' \subseteq Paths
      <4>1. CASE MoveAway(w, s)
        <5>1. <<"quarantine", s.asset[1]>> \in Paths
          BY <2>0, ScanTyped, Zenon DEF Paths, Places
        <5> QED BY <2>0, <4>1, <5>1, Zenon DEF MoveAway, TypeRest
      <4>2. CASE files' = files
        BY <2>0, <4>2, Zenon DEF TypeRest
      <4> QED BY <2>6, <4>1, <4>2, Zenon DEF HandlerStep, ScanRead, ScanStart, Verdict, WriteStatus,
                 WriteInfected, storeVars
    <3>4. TypeRest'
      BY <2>0, <2>1, <3>1, <3>2, <3>3, Zenon DEF TypeRest
    <3>5. ASSUME NEW v \in Workers PROVE Single(v)'
      <4>1. \A x : \A y, z \in {x} : y = z
        BY Zenon
      <4>2. Single(v) /\ (v # w => scan'[v] = scan[v])
        BY <3>1, Zenon DEF PhaseInv
      <4>3. \E x : scan'[w] = {x}
        BY <3>1, Zenon
      <4> QED BY <4>1, <4>2, <4>3 DEF Single
    <3> QED BY <2>4, <3>1, <3>4, <3>5, Zenon
  <2> QED BY <2>2, <2>3, <2>5, <2>6, NextCases, Zenon

<1> QED BY <1>All, Zenon

LEMMA PhaseAlways == Spec => []PhaseInv
<1>1. PhaseInv /\ UNCHANGED vars => PhaseInv'
  <2> SUFFICES ASSUME PhaseInv, UNCHANGED vars PROVE PhaseInv'
    OBVIOUS
  <2>1. FinalInv'
    BY FinalStutter, Zenon DEF PhaseInv
  <2>2. /\ row' = row /\ ids' = ids /\ files' = files /\ links' = links /\ pc' = pc /\ tx' = tx /\ purge' = purge
        /\ att' = att /\ scan' = scan /\ torn' = torn /\ lost' = lost /\ left' = left /\ faults' = faults
    BY Zenon DEF vars, storeVars, procVars, jobVars, histVars
  <2>3. TypeRest'
    BY <2>2, Zenon DEF PhaseInv, TypeRest
  <2> QED BY <2>1, <2>2, <2>3, Zenon DEF PhaseInv, Phase, Quiet, Purging, Single
<1>2. PhaseInv /\ [Next]_vars => PhaseInv'
  BY <1>1, PhaseNext, Zenon
<1> QED BY <1>2, PhaseInit, PTL DEF Spec

\* Rows, sessions, purges, jobs and workers keep their types, for any contents,
\* requests, workers and faults.
THEOREM AssetTypesKept == Spec => []TypeOK
<1>1. PhaseInv => TypeOK
  BY TypeSplit, Zenon DEF PhaseInv, FinalInv
<1> QED BY <1>1, PhaseAlways, PTL

-----------------------------------------------------------------------------
(* A scan is not lost.                                                     *)

\* Ids are given in order, and one to an upload.
Numbered(r) ==
    /\ \A a \in tx[r].assets \union tx[r].enq : a[2] <= ids[a[1]]
    /\ \A a \in tx[r].assets : a[1] \in tx[r].held
    /\ \A a, b \in tx[r].assets : a[1] = b[1] => a = b

\* What r inserts, nobody else knows of.
Private(r) ==
    \A a \in tx[r].assets : a[1] \in tx[r].fresh =>
        /\ \A q \in Requests : <<q, a>> \notin links /\ (q # r => a \notin tx[q].enq)
        /\ a \in tx[r].enq \union lost

\* A row that r sets to pending_scan will have a job, or the request was lost.
Asked(r) == \A a \in tx[r].upd : a \in tx[r].enq \union lost \/ job[a] # "none"

IdsBound ==
    /\ \A c \in Contents : row[c].id <= ids[c]
    /\ \A r \in Requests, a \in Assets : <<r, a>> \in links => a[2] <= ids[a[1]]

QueueInv ==
    /\ IdsBound
    /\ \A r \in Requests : Numbered(r) /\ Private(r) /\ Asked(r)
    /\ PendingIsQueued

LEMMA QueueInit == Init => QueueInv
<1> SUFFICES ASSUME Init PROVE QueueInv
  OBVIOUS
<1>1. ASSUME NEW c \in Contents PROVE row[c].id = 0 /\ ids[c] = 0
  BY Zenon DEF Init, NoRow
<1>2. IdsBound
  <2>1. 0 <= 0
    OBVIOUS
  <2>2. \A c \in Contents : row[c].id <= ids[c]
    BY <1>1, <2>1, Zenon
  <2> QED BY <2>2, Zenon DEF Init, IdsBound
<1>3. ASSUME NEW r \in Requests PROVE Numbered(r) /\ Private(r) /\ Asked(r)
  BY Zenon DEF Init, NoTx, Numbered, Private, Asked
<1>4. ASSUME NEW a \in Assets PROVE ~Unscanned(a)
  <2>1. a[1] \in Contents
    BY AssetParts, Zenon
  <2> QED BY <2>1, Zenon DEF Init, NoRow, Unscanned
<1> QED BY <1>2, <1>3, <1>4, Zenon DEF QueueInv, PendingIsQueued

\* What the worker at s.step has in hand.
AtWork == {"scanning", "clean", "scan_error", "move", "infected"}

Waiting(a) ==
    \/ job[a] # "none" \/ a \in lost
    \/ \E r \in Requests : pc[r] = "hooks" /\ a \in tx[r].enq
    \/ \E w \in Workers : \E s \in scan[w] : s.asset = a /\ s.step \in AtWork

\* The row that r has inserted is the asset r uses.
LEMMA FreshRow ==
    ASSUME Typed, NEW r \in Requests, Numbered(r), Commit(r), NEW a \in tx[r].assets
    PROVE  /\ a[1] \in tx[r].fresh => row'[a[1]].id = a[2] /\ row'[a[1]].place = "home"
           /\ a[1] \notin tx[r].fresh => row'[a[1]].id = row[a[1]].id /\ row'[a[1]].place = row[a[1]].place
<1>1. a \in Assets /\ a[1] \in Contents /\ a[2] \in Ids /\ a = <<a[1], a[2]>>
  BY FieldsOf, AssetParts, Zenon DEF Fields
<1> DEFINE c == a[1]
           i == CHOOSE i \in Ids : <<c, i>> \in tx[r].assets
           New == [id |-> i, place |-> "home", scan |-> "pending_scan"]
           Set == [row[c] EXCEPT !.scan = "pending_scan"]
<1>2. row'[c] = IF c \in tx[r].fresh THEN New ELSE IF AssetOf(c) \in tx[r].upd THEN Set ELSE row[c]
  BY <1>1, Zenon DEF Commit
<1>3. i \in Ids /\ <<c, i>> \in tx[r].assets
  BY <1>1, Zenon
<1>4. <<c, i>>[1] = c /\ <<c, i>>[2] = i
  BY Zenon
<1>5. i = a[2]
  BY <1>3, <1>4, Zenon DEF Numbered
<1>6. New.id = i /\ New.place = "home"
  BY Zenon
<1>7. Set.id = row[c].id /\ Set.place = row[c].place
  <2>1. row[c] \in RowType
    BY <1>1, Zenon DEF Typed
  <2> QED BY <2>1, Zenon DEF RowType
<1> HIDE DEF i, New, Set
<1> QED BY <1>2, <1>5, <1>6, <1>7, Zenon

\* Of a row that r has not inserted, a commit of r changes at most the status.
LEMMA OldRow ==
    ASSUME Typed, NEW r \in Requests, Commit(r), NEW c \in Contents, c \notin tx[r].fresh
    PROVE  /\ row'[c].id = row[c].id /\ row'[c].place = row[c].place
           /\ row'[c] = row[c] \/ AssetOf(c) \in tx[r].upd
<1> DEFINE Set == [row[c] EXCEPT !.scan = "pending_scan"]
<1>1. row'[c] = IF AssetOf(c) \in tx[r].upd THEN Set ELSE row[c]
  BY Zenon DEF Commit
<1>2. Set.id = row[c].id /\ Set.place = row[c].place
  <2>1. row[c] \in RowType
    BY Zenon DEF Typed
  <2> QED BY <2>1, Zenon DEF RowType
<1> HIDE DEF Set
<1> QED BY <1>1, <1>2, Zenon

LEMMA SameSessions ==
    ASSUME QueueInv, tx' = tx, ids' = ids, links' = links, lost \subseteq lost', NEW q \in Requests
    PROVE  /\ Numbered(q)' /\ Private(q)'
           /\ (\A a \in tx[q].upd : job[a] # "none" => job'[a] # "none" \/ a \in tx[q].enq \union lost')
                  => Asked(q)'
<1>1. Numbered(q) /\ Private(q) /\ Asked(q)
  BY Zenon DEF QueueInv
<1>2. Numbered(q)'
  BY <1>1, Zenon DEF Numbered
<1>3. Private(q)'
  BY <1>1, Zenon DEF Private
<1>4. (\A a \in tx[q].upd : job[a] # "none" => job'[a] # "none" \/ a \in tx[q].enq \union lost') => Asked(q)'
  BY <1>1, Zenon DEF Asked
<1> QED BY <1>2, <1>3, <1>4, Zenon

\* Every step keeps QueueInv: an unscanned row has its job, its session or its
\* worker, or is recorded as lost.
LEMMA QueueNext == PhaseInv /\ PhaseInv' /\ QueueInv /\ Next => QueueInv'

<1>IdsGrow. ASSUME Typed, NEW c \in Contents, ids' = [ids EXCEPT ![c] = ids[c] + 1]
            PROVE  \A d \in Contents : ids[d] <= ids'[d]
  BY <1>IdsGrow, ConstantsAssumption DEF Typed

<1>IdTypes. ASSUME Typed, Typed', NEW a \in Assets
            PROVE  a[2] \in Nat /\ ids[a[1]] \in Nat /\ ids'[a[1]] \in Nat
  <2> USE <1>IdTypes
  <2>1. a[1] \in Contents /\ a[2] \in Ids
    BY AssetParts, Zenon
  <2>2. ids[a[1]] \in 0..MaxIds /\ ids'[a[1]] \in 0..MaxIds
    BY <2>1, Zenon DEF Typed
  <2> QED BY <2>1, <2>2, ConstantsAssumption DEF Ids

\* A step of r leaves the promises of the other sessions intact.
<1>SessionsKeep. ASSUME PhaseInv, QueueInv, Typed', NEW r \in Requests, Others(r),
                        \A c \in Contents : ids[c] <= ids'[c],
                        Numbered(r)', Private(r)', Asked(r)',
                        \A q \in Requests \ {r} : \A a \in tx[q].assets : a[1] \in tx[q].fresh =>
                            /\ a \in tx'[r].enq => a \in tx[r].enq
                            /\ \A x \in Requests : <<x, a>> \in links' => <<x, a>> \in links,
                        \A a \in lost \ lost' : a \in tx[r].enq /\ job'[a] # "none",
                        \A a \in Assets : job[a] # "none" => job'[a] # "none"
                 PROVE  \A q \in Requests : Numbered(q)' /\ Private(q)' /\ Asked(q)'
  <2> USE <1>SessionsKeep
  <2> SUFFICES ASSUME NEW q \in Requests \ {r} PROVE Numbered(q)' /\ Private(q)' /\ Asked(q)'
    BY Zenon
  <2>0. /\ Typed /\ Numbered(q) /\ Private(q) /\ Asked(q) /\ tx'[q] = tx[q]
        /\ \A x \in Requests \ {r} : tx'[x] = tx[x]
    BY Zenon DEF PhaseInv, FinalInv, QueueInv, Others
  <2>1. tx[q].assets \subseteq Assets /\ tx[q].enq \subseteq Assets /\ tx[q].upd \subseteq Assets
    BY <2>0, FieldsOf, Zenon DEF Fields
  <2>2. Numbered(q)'
    <3>1. ASSUME NEW a \in tx[q].assets \union tx[q].enq PROVE a[2] <= ids'[a[1]]
      <4>1. a \in Assets /\ a[2] <= ids[a[1]]
        BY <2>0, <2>1, Zenon DEF Numbered
      <4>2. ids[a[1]] <= ids'[a[1]]
        BY <4>1, AssetParts, Zenon
      <4>3. a[2] \in Nat /\ ids[a[1]] \in Nat /\ ids'[a[1]] \in Nat
        BY <2>0, <4>1, <1>IdTypes, Zenon
      <4> QED BY <4>1, <4>2, <4>3
    <3> QED BY <2>0, <3>1, Zenon DEF Numbered
  <2>3. Private(q)'
    <3> SUFFICES ASSUME NEW a \in tx[q].assets, a[1] \in tx[q].fresh
                 PROVE  /\ \A x \in Requests : <<x, a>> \notin links' /\ (x # q => a \notin tx'[x].enq)
                        /\ a \in tx[q].enq \union lost'
      BY <2>0, Zenon DEF Private
    <3>1. /\ \A x \in Requests : <<x, a>> \notin links /\ (x # q => a \notin tx[x].enq)
          /\ a \in tx[q].enq \union lost
      BY <2>0, Zenon DEF Private
    <3>2. a \notin tx[r].enq
      BY <3>1, Zenon
    <3>3. a \in tx[q].enq \union lost'
      BY <3>1, <3>2, Zenon
    <3>4. ASSUME NEW x \in Requests PROVE <<x, a>> \notin links' /\ (x # q => a \notin tx'[x].enq)
      BY <2>0, <3>1, <3>2, Zenon
    <3> QED BY <3>3, <3>4, Zenon
  <2>4. Asked(q)'
    <3> SUFFICES ASSUME NEW a \in tx[q].upd PROVE a \in tx[q].enq \union lost' \/ job'[a] # "none"
      BY <2>0, Zenon DEF Asked
    <3>1. a \in Assets /\ (a \in tx[q].enq \union lost \/ job[a] # "none")
      BY <2>0, <2>1, Zenon DEF Asked
    <3> QED BY <3>1, Zenon
  <2> QED BY <2>2, <2>3, <2>4, Zenon

\* A session whose transaction is over promises nothing.
<1>QuietPromises. ASSUME NEW r, tx'[r].assets = {}, tx'[r].upd = {},
                         \A a \in tx'[r].enq : a[2] <= ids'[a[1]]
                  PROVE  Numbered(r)' /\ Private(r)' /\ Asked(r)'
  BY <1>QuietPromises, Zenon DEF Numbered, Private, Asked

\* A session that keeps its transaction keeps its promises.
<1>SamePromises. ASSUME NEW r \in Requests, Numbered(r), Private(r), Asked(r), Keeps(r), Others(r),
                        ids' = ids, links' = links, tx'[r].enq \subseteq tx[r].enq,
                        tx[r].enq \union lost \subseteq tx'[r].enq \union lost',
                        job' = job
                 PROVE  Numbered(r)' /\ Private(r)' /\ Asked(r)'
  <2> USE <1>SamePromises
  <2>1. Numbered(r)'
    BY Zenon DEF Numbered, Keeps
  <2>2. Private(r)'
    BY Zenon DEF Private, Keeps, Others
  <2>3. Asked(r)'
    BY Zenon DEF Asked, Keeps
  <2> QED BY <2>1, <2>2, <2>3, Zenon

<1>WaitingIs. PendingIsQueued <=> \A a \in Assets : Unscanned(a) => Waiting(a)
  BY Zenon DEF PendingIsQueued, Waiting, AtWork

\* A step of r that leaves rows and workers alone, and the requests of r where they were.
<1>StillWaiting. ASSUME PendingIsQueued, NEW r \in Requests, Others(r), row' = row, scan' = scan,
                        \A a \in Assets : job[a] # "none" => job'[a] # "none",
                        \A a \in Assets : a \in lost => a \in lost' \/ job'[a] # "none",
                        pc[r] = "hooks" => \A a \in tx[r].enq : \/ pc'[r] = "hooks" /\ a \in tx'[r].enq
                                                               \/ a \in lost' \/ job'[a] # "none"
                 PROVE  PendingIsQueued'
  <2> USE <1>StillWaiting
  <2>1. ASSUME NEW a \in Assets, Unscanned(a)' PROVE Waiting(a)'
    <3>1. Waiting(a)
      BY <2>1, <1>WaitingIs, Zenon DEF Unscanned, HasRow
    <3>2. ASSUME NEW q \in Requests, pc[q] = "hooks", a \in tx[q].enq PROVE Waiting(a)'
      <4>1. CASE q = r
        BY <3>2, <4>1, Zenon DEF Waiting
      <4>2. CASE q # r
        BY <3>2, <4>2, Zenon DEF Waiting, Others
      <4> QED BY <4>1, <4>2, Zenon
    <3>3. CASE \E w \in Workers : \E s \in scan[w] : s.asset = a /\ s.step \in AtWork
      BY <3>3, Zenon DEF Waiting
    <3> QED BY <3>1, <3>2, <3>3, Zenon DEF Waiting
  <2>2. (\A a \in Assets : Unscanned(a)' => Waiting(a)') => PendingIsQueued'
    BY Zenon DEF PendingIsQueued, Waiting, AtWork
  <2> QED BY <2>1, <2>2, Zenon

<1>UpsertQueues. ASSUME PhaseInv, QueueInv, Typed', NEW r \in Requests, NEW c \in Contents, Upsert(r, c)
                 PROVE  QueueInv'
  <2> USE <1>UpsertQueues
  <2>0. Typed /\ TypeRest /\ Numbered(r) /\ Private(r) /\ Asked(r) /\ IdsBound /\ PendingIsQueued
    BY Zenon DEF PhaseInv, FinalInv, QueueInv
  <2>1. row' = row /\ links' = links /\ job' = job /\ lost' = lost /\ scan' = scan
    BY Zenon DEF Upsert, jobVars, histVars
  <2>2. Upserted(r, c)
    BY <2>0, UpsertDoes, Zenon
  <2>3. /\ Others(r) /\ pc[r] # "hooks" /\ (\A q \in Requests : c \notin tx[q].held)
        /\ tx'[r].held = tx[r].held \union {c}
    BY <2>2, Zenon DEF Upserted
  <2>4. ids' = ids \/ ids' = [ids EXCEPT ![c] = ids[c] + 1]
    BY <2>2, Zenon DEF Upserted, Refuses, Inserts, Reuses
  <2>5. \A d \in Contents : ids[d] <= ids'[d] /\ ids[d] \in Nat /\ ids'[d] \in Nat
    BY <2>0, <2>4, <1>IdsGrow, ConstantsAssumption DEF Typed
  <2>6. IdsBound'
    <3>1. ASSUME NEW d \in Contents PROVE row[d].id <= ids'[d]
      <4>1. row[d].id \in 0..MaxIds /\ row[d].id <= ids[d]
        BY <2>0, Zenon DEF Typed, RowType, IdsBound
      <4> QED BY <2>5, <4>1
    <3>2. ASSUME NEW q \in Requests, NEW a \in Assets, <<q, a>> \in links PROVE a[2] <= ids'[a[1]]
      <4>1. a[1] \in Contents /\ a[2] \in Nat /\ a[2] <= ids[a[1]]
        BY <2>0, <3>2, AssetParts, <1>IdTypes, Zenon DEF IdsBound
      <4> QED BY <2>5, <4>1
    <3> QED BY <2>1, <3>1, <3>2, Zenon DEF IdsBound
  <2>7. PendingIsQueued'
    BY <2>0, <2>1, <2>3, <1>StillWaiting, Zenon
  <2>8. tx[r].assets \subseteq Assets /\ tx[r].enq \subseteq Assets /\ tx[r].fresh \subseteq tx[r].held
    BY <2>0, FieldsOf, Zenon DEF PhaseInv, FinalInv, Holds, Fields
  <2>9. \A d \in tx[r].assets : d[1] # c
    BY <2>0, <2>3, Zenon DEF Numbered
  <2>10. \A a \in tx[r].assets \union tx[r].enq : a[2] <= ids'[a[1]]
    <3> SUFFICES ASSUME NEW a \in tx[r].assets \union tx[r].enq PROVE a[2] <= ids'[a[1]]
      BY Zenon
    <3>1. a[1] \in Contents /\ a[2] \in Nat /\ a[2] <= ids[a[1]]
      BY <2>0, <2>8, AssetParts, <1>IdTypes, Zenon DEF Numbered
    <3> QED BY <2>5, <3>1
  <2>11. ASSUME NEW a \in Assets, Inserts(r, c, a) \/ Reuses(r, c, a)
         PROVE  /\ tx'[r].assets = tx[r].assets \union {a} /\ a[1] = c /\ a[2] <= ids'[c]
                /\ tx'[r].enq \subseteq tx[r].enq \union {a} /\ tx[r].enq \subseteq tx'[r].enq
                /\ tx'[r].fresh \subseteq tx[r].fresh \union {c}
                /\ tx'[r].upd = tx[r].upd \/ (tx'[r].upd = tx[r].upd \union {a} /\ a \in tx'[r].enq)
    <3>1. CASE Inserts(r, c, a)
      <4>1. a[2] = ids[c] + 1 /\ ids'[c] = ids[c] + 1
        BY <2>0, <3>1 DEF Inserts, Typed
      <4>2. a[2] <= ids'[c]
        BY <2>5, <4>1
      <4> QED BY <3>1, <4>2, Zenon DEF Inserts, Joins
    <3>2. CASE Reuses(r, c, a)
      <4>1. a[2] = row[c].id /\ ids' = ids /\ row[c].id <= ids[c]
        BY <2>0, <3>2 DEF Reuses, AssetOf, IdsBound
      <4>2. a[2] <= ids'[c]
        BY <4>1, Zenon
      <4>3. tx'[r].upd = tx[r].upd \/ (tx'[r].upd = tx[r].upd \union {a} /\ a \in tx'[r].enq)
        BY <3>2, Zenon DEF Reuses
      <4> QED BY <3>2, <4>2, <4>3, Zenon DEF Reuses, Joins
    <3> QED BY <2>11, <3>1, <3>2, Zenon
  <2>12. Numbered(r)' /\ Private(r)' /\ Asked(r)'
    <3>1. CASE Refuses(r)
      <4>1. /\ tx'[r].enq = tx[r].enq /\ tx'[r].assets = tx[r].assets /\ tx'[r].fresh = tx[r].fresh
            /\ tx'[r].upd = tx[r].upd
        BY <3>1, Zenon DEF Refuses
      <4>2. Numbered(r)'
        BY <2>0, <2>3, <2>10, <4>1, Zenon DEF Numbered
      <4>3. Private(r)' /\ Asked(r)'
        BY <2>0, <2>1, <2>3, <4>1, Zenon DEF Private, Asked, Others
      <4> QED BY <4>2, <4>3, Zenon
    <3>2. ASSUME NEW a \in Assets, Inserts(r, c, a) \/ Reuses(r, c, a)
          PROVE  Numbered(r)' /\ Private(r)' /\ Asked(r)'
      <4>1. Numbered(r)'
        <5>0. /\ tx'[r].assets = tx[r].assets \union {a} /\ a[1] = c /\ a[2] <= ids'[c]
              /\ tx'[r].enq \subseteq tx[r].enq \union {a}
          BY <2>11, <3>2, Zenon
        <5>1. ASSUME NEW b \in tx'[r].assets \union tx'[r].enq PROVE b[2] <= ids'[b[1]]
          BY <2>10, <5>0, Zenon
        <5>2. ASSUME NEW b \in tx'[r].assets PROVE b[1] \in tx'[r].held
          BY <2>0, <2>3, <5>0, Zenon DEF Numbered
        <5>3. ASSUME NEW b \in tx'[r].assets, NEW d \in tx'[r].assets, b[1] = d[1] PROVE b = d
          BY <2>0, <2>9, <5>0, <5>3, Zenon DEF Numbered
        <5> QED BY <5>1, <5>2, <5>3, Zenon DEF Numbered
      <4>2. Asked(r)'
        BY <2>0, <2>1, <2>11, <3>2, Zenon DEF Asked
      <4>3. ASSUME NEW b \in tx[r].assets, b[1] \in tx'[r].fresh
            PROVE  /\ \A q \in Requests : <<q, b>> \notin links /\ (q # r => b \notin tx'[q].enq)
                   /\ b \in tx'[r].enq \union lost
        <5>1. b[1] \in tx[r].fresh
          BY <2>9, <2>11, <3>2, <4>3, Zenon
        <5> QED BY <2>0, <2>3, <2>11, <3>2, <5>1, Zenon DEF Private, Others
      <4>4. ASSUME c \in tx'[r].fresh
            PROVE  /\ \A q \in Requests : <<q, a>> \notin links /\ (q # r => a \notin tx'[q].enq)
                   /\ a \in tx'[r].enq
        <5>1. Inserts(r, c, a)
          BY <2>3, <2>8, <3>2, <4>4, Zenon DEF Reuses
        <5>2. a[2] = ids[c] + 1 /\ a[1] = c
          BY <5>1 DEF Inserts
        <5>3. ~(a[2] <= ids[a[1]])
          BY <2>5, <5>2
        <5>4. ASSUME NEW q \in Requests PROVE <<q, a>> \notin links /\ (q # r => a \notin tx'[q].enq)
          <6>1. Numbered(q)
            BY Zenon DEF QueueInv
          <6> QED BY <2>0, <2>3, <5>3, <6>1, Zenon DEF IdsBound, Numbered, Others
        <5> QED BY <5>1, <5>4, Zenon DEF Inserts
      <4>5. Private(r)'
        <5> SUFFICES ASSUME NEW b \in tx'[r].assets, b[1] \in tx'[r].fresh
                     PROVE  /\ \A q \in Requests : <<q, b>> \notin links /\ (q # r => b \notin tx'[q].enq)
                            /\ b \in tx'[r].enq \union lost
          BY <2>1, Zenon DEF Private
        <5>1. b \in tx[r].assets \/ (b = a /\ c \in tx'[r].fresh)
          BY <2>11, <3>2, Zenon
        <5> QED BY <4>3, <4>4, <5>1, Zenon
      <4> QED BY <4>1, <4>2, <4>5, Zenon
    <3> QED BY <2>2, <3>1, <3>2, Zenon DEF Upserted
  <2>13. ASSUME NEW q \in Requests \ {r}, NEW b \in tx[q].assets, b[1] \in tx[q].fresh
         PROVE  b \in tx'[r].enq => b \in tx[r].enq
    <3>0. Numbered(q)
      BY Zenon DEF QueueInv
    <3>1. b[1] # c
      BY <2>3, <2>13, <3>0, Zenon DEF Numbered
    <3> QED BY <2>2, <2>11, <3>1, Zenon DEF Upserted, Refuses
  <2>14. \A q \in Requests : Numbered(q)' /\ Private(q)' /\ Asked(q)'
    BY <2>1, <2>3, <2>5, <2>12, <2>13, <1>SessionsKeep, Zenon
  <2> QED BY <2>6, <2>7, <2>14, Zenon DEF QueueInv

<1>CommitQueues. ASSUME PhaseInv, QueueInv, Typed', NEW r \in Requests, Commit(r)
                 PROVE  QueueInv'
  <2> USE <1>CommitQueues
  <2>0. Typed /\ TypeRest /\ Numbered(r) /\ Private(r) /\ Asked(r) /\ IdsBound /\ PendingIsQueued /\ Holds(r)
    BY Zenon DEF PhaseInv, FinalInv, QueueInv
  <2>1. ids' = ids /\ job' = job /\ lost' = lost /\ scan' = scan /\ links' = links \union ({r} \X tx[r].assets)
    BY Zenon DEF Commit, jobVars, histVars
  <2>2. /\ pc[r] = "open" /\ pc'[r] = IF tx[r].enq = {} THEN "cleaning" ELSE "hooks"
        /\ Over(r) /\ tx'[r].enq = tx[r].enq
    BY <2>0, CommitDoes, Zenon DEF Committed
  <2>3. tx[r].assets \subseteq Assets /\ tx[r].fresh \subseteq Contents /\ tx[r].enq \subseteq Assets
    BY <2>0, FieldsOf, Zenon DEF Fields
  <2>4. ASSUME NEW c \in tx[r].fresh
        PROVE  \E a \in tx[r].assets : a \in Assets /\ a[1] = c /\ row'[c].id = a[2] /\ a = <<c, a[2]>>
    <3>1. PICK i \in Ids : <<c, i>> \in tx[r].assets
      BY <2>0, Zenon DEF Holds
    <3>2. <<c, i>>[1] = c /\ <<c, i>>[2] = i
      BY Zenon
    <3>3. row'[c].id = i
      BY <2>0, <3>1, <3>2, FreshRow
    <3> QED BY <2>3, <3>1, <3>2, <3>3, Zenon
  <2>5. IdsBound'
    <3>1. ASSUME NEW c \in Contents PROVE row'[c].id <= ids[c]
      <4>1. CASE c \in tx[r].fresh
        BY <2>0, <2>4, <4>1, Zenon DEF Numbered
      <4>2. CASE c \notin tx[r].fresh
        BY <2>0, <4>2, OldRow, Zenon DEF IdsBound
      <4> QED BY <4>1, <4>2, Zenon
    <3>2. ASSUME NEW q \in Requests, NEW a \in Assets, <<q, a>> \in links' PROVE a[2] <= ids[a[1]]
      <4>1. <<q, a>> \in links \/ a \in tx[r].assets
        BY <2>1, <3>2
      <4> QED BY <2>0, <4>1, Zenon DEF IdsBound, Numbered
    <3> QED BY <2>1, <3>1, <3>2, Zenon DEF IdsBound
  <2>6. PendingIsQueued'
    <3>1. ASSUME NEW a \in Assets, Unscanned(a)' PROVE Waiting(a)'
      <4>0. a[1] \in Contents /\ a = <<a[1], a[2]>> /\ row'[a[1]].id = a[2]
        BY <3>1, AssetParts, Zenon DEF Unscanned, HasRow
      <4>1. ASSUME a \in tx[r].enq \union lost \/ job[a] # "none" PROVE Waiting(a)'
        BY <2>1, <2>2, <4>1, Zenon DEF Waiting
      <4>2. CASE a[1] \in tx[r].fresh
        <5>0. PICK b \in tx[r].assets : row'[a[1]].id = b[2] /\ b = <<a[1], b[2]>>
          BY <2>4, <4>2, Zenon
        <5>1. a \in tx[r].assets
          BY <4>0, <5>0, Zenon
        <5> QED BY <2>0, <4>1, <4>2, <5>1, Zenon DEF Private
      <4>3. CASE a[1] \notin tx[r].fresh /\ AssetOf(a[1]) \in tx[r].upd
        <5>1. AssetOf(a[1]) = a
          BY <2>0, <4>0, <4>3, OldRow, Zenon DEF AssetOf
        <5> QED BY <2>0, <4>1, <4>3, <5>1, Zenon DEF Asked
      <4>4. CASE a[1] \notin tx[r].fresh /\ AssetOf(a[1]) \notin tx[r].upd
        <5>1. row'[a[1]] = row[a[1]]
          BY <2>0, <4>0, <4>4, OldRow, Zenon
        <5>2. Waiting(a)
          BY <2>0, <3>1, <5>1, <1>WaitingIs, Zenon DEF Unscanned, HasRow
        <5>3. ASSUME NEW q \in Requests, pc[q] = "hooks", a \in tx[q].enq PROVE Waiting(a)'
          <6>1. q # r
            BY <2>2, <5>3, Zenon
          <6> QED BY <2>2, <5>3, <6>1, Zenon DEF Waiting, Over, Others
        <5>4. CASE \E w \in Workers : \E s \in scan[w] : s.asset = a /\ s.step \in AtWork
          BY <2>1, <5>4, Zenon DEF Waiting
        <5> QED BY <4>1, <5>2, <5>3, <5>4, Zenon DEF Waiting
      <4> QED BY <4>2, <4>3, <4>4, Zenon
    <3>2. (\A a \in Assets : Unscanned(a)' => Waiting(a)') => PendingIsQueued'
      BY Zenon DEF PendingIsQueued, Waiting, AtWork
    <3> QED BY <3>1, <3>2, Zenon
  <2>7. Numbered(r)' /\ Private(r)' /\ Asked(r)'
    BY <2>0, <2>1, <2>2, <1>QuietPromises, Zenon DEF Over, Numbered
  <2>8. ASSUME NEW q \in Requests \ {r}, NEW a \in tx[q].assets, a[1] \in tx[q].fresh, NEW x \in Requests,
               <<x, a>> \in links'
        PROVE  <<x, a>> \in links
    <3>1. a[1] \in tx[q].held
      BY <2>8, Zenon DEF QueueInv, Numbered
    <3>2. a \notin tx[r].assets
      BY <2>0, <2>8, <3>1, Zenon DEF PhaseInv, FinalInv, OneHolder, Numbered
    <3> QED BY <2>1, <2>8, <3>2
  <2>9. \A c \in Contents : ids[c] <= ids'[c]
    BY <2>0, <2>1, ConstantsAssumption DEF Typed
  <2>10. \A q \in Requests : Numbered(q)' /\ Private(q)' /\ Asked(q)'
    BY <2>1, <2>2, <2>7, <2>8, <2>9, <1>SessionsKeep, Zenon DEF Over
  <2> QED BY <2>5, <2>6, <2>10, Zenon DEF QueueInv

\* The steps of r that add no row, no link and no request.
<1>FewerQueues. ASSUME PhaseInv, QueueInv, Typed', NEW r \in Requests, Others(r),
                       row' = row, ids' = ids, scan' = scan, links' \subseteq links,
                       Numbered(r)', Private(r)', Asked(r)',
                       \A q \in Requests \ {r} : \A a \in tx[q].assets : a[1] \in tx[q].fresh =>
                           (a \in tx'[r].enq => a \in tx[r].enq),
                       \A a \in lost \ lost' : a \in tx[r].enq /\ job'[a] # "none",
                       \A a \in Assets : job[a] # "none" => job'[a] # "none",
                       pc[r] = "hooks" => \A a \in tx[r].enq : \/ pc'[r] = "hooks" /\ a \in tx'[r].enq
                                                              \/ a \in lost' \/ job'[a] # "none"
                PROVE  QueueInv'
  <2> USE <1>FewerQueues
  <2>0. Typed /\ IdsBound /\ PendingIsQueued
    BY Zenon DEF PhaseInv, FinalInv, QueueInv
  <2>1. IdsBound'
    BY <2>0, Zenon DEF IdsBound
  <2>2. PendingIsQueued'
    BY <2>0, <1>StillWaiting, Zenon
  <2>3. \A c \in Contents : ids[c] <= ids'[c]
    BY <2>0, ConstantsAssumption DEF Typed
  <2>4. \A q \in Requests : Numbered(q)' /\ Private(q)' /\ Asked(q)'
    BY <2>3, <1>SessionsKeep, Zenon
  <2> QED BY <2>1, <2>2, <2>4, Zenon DEF QueueInv

<1>RequestQueues. ASSUME PhaseInv, QueueInv, Typed', NEW r \in Requests, RequestStep(r)
                  PROVE  QueueInv'
  <2> USE <1>RequestQueues
  <2>0. Typed /\ TypeRest /\ Phase(r) /\ Numbered(r) /\ Private(r) /\ Asked(r) /\ IdsBound
    BY Zenon DEF PhaseInv, FinalInv, QueueInv
  <2>1. CASE Save(r)
    <3>1. row' = row /\ ids' = ids /\ scan' = scan /\ links' = links /\ job' = job /\ lost' = lost
      BY <2>1, Zenon DEF Save, jobVars, histVars
    <3>2. Others(r) /\ Keeps(r) /\ tx'[r].enq = tx[r].enq /\ pc[r] = "saving"
      BY <2>0, <2>1, SaveDoes, Zenon DEF Saved
    <3>3. Numbered(r)' /\ Private(r)' /\ Asked(r)'
      BY <2>0, <3>1, <3>2, <1>SamePromises, Zenon
    <3> QED BY <3>1, <3>2, <3>3, <1>FewerQueues, Zenon
  <2>2. CASE CleanEnd(r)
    <3>1. row' = row /\ ids' = ids /\ scan' = scan /\ links' = links /\ job' = job /\ lost' = lost /\ tx' = tx
      BY <2>2, Zenon DEF CleanEnd, storeVars, jobVars, histVars
    <3>2. Others(r) /\ pc[r] = "cleaning"
      BY <2>0, <2>2, RequestPhase, Zenon DEF RequestStep, CleanEnd
    <3>3. Numbered(r)' /\ Private(r)' /\ Asked(r)'
      BY <2>0, <3>1, Zenon DEF Numbered, Private, Asked
    <3> QED BY <3>1, <3>2, <3>3, <1>FewerQueues, Zenon
  <2>3. CASE Rollback(r)
    <3>1. row' = row /\ ids' = ids /\ scan' = scan /\ links' = links /\ job' = job /\ lost' = lost
      BY <2>3, Zenon DEF Rollback, storeVars, jobVars, histVars
    <3>2. Over(r) /\ tx'[r].enq = {} /\ pc[r] # "hooks"
      BY <2>0, <2>3, RollbackDoes, Zenon DEF RolledBack
    <3>3. Numbered(r)' /\ Private(r)' /\ Asked(r)' /\ Others(r)
      BY <3>2, <1>QuietPromises, Zenon DEF Over
    <3> QED BY <3>1, <3>2, <3>3, <1>FewerQueues, Zenon
  <2>4. CASE Unlink(r)
    <3> DEFINE A == {a \in Assets : <<r, a>> \in links}
    <3>1. /\ row' = row /\ ids' = ids /\ scan' = scan /\ links' \subseteq links /\ job' = job /\ lost' = lost
          /\ ToPurge(r, A) /\ pc[r] = "linked"
      BY <2>4, Zenon DEF Unlink, jobVars, histVars
    <3>2. Over(r) /\ tx'[r].enq = A
      BY <2>0, <3>1, ToPurgeDoes, Zenon DEF Drops
    <3>3. \A a \in A : a[2] <= ids'[a[1]]
      BY <2>0, <3>1, Zenon DEF IdsBound
    <3>4. Numbered(r)' /\ Private(r)' /\ Asked(r)' /\ Others(r)
      BY <3>2, <3>3, <1>QuietPromises, Zenon DEF Over
    <3>5. ASSUME NEW q \in Requests \ {r}, NEW a \in tx[q].assets, a[1] \in tx[q].fresh PROVE a \notin tx'[r].enq
      BY <3>2, <3>5, Zenon DEF QueueInv, Private
    <3> HIDE DEF A
    <3> QED BY <3>1, <3>2, <3>4, <3>5, <1>FewerQueues, Zenon
  <2>5. CASE SavepointFails(r)
    <3>1. /\ row' = row /\ ids' = ids /\ scan' = scan /\ links' = links /\ job' = job
          /\ lost' = lost \union tx[r].enq
      BY <2>5, Zenon DEF SavepointFails, storeVars, jobVars
    <3>2. Others(r) /\ Keeps(r) /\ tx'[r].enq = {} /\ pc[r] = "open"
      BY <2>0, <2>5, SavepointDoes, Zenon DEF SavepointUndone
    <3>3. Numbered(r)' /\ Private(r)' /\ Asked(r)'
      BY <2>0, <3>1, <3>2, <1>SamePromises, Zenon
    <3> QED BY <3>1, <3>2, <3>3, <1>FewerQueues, Zenon
  <2>6. CASE Crash(r)
    <3>1. row' = row /\ ids' = ids /\ scan' = scan /\ links' = links /\ job' = job /\ lost \subseteq lost'
      BY <2>6, Zenon DEF Crash, storeVars, jobVars
    <3>2. Over(r) /\ tx'[r].enq = {}
      BY <2>0, <2>6, CrashDoes, Zenon DEF Crashed
    <3>3. Numbered(r)' /\ Private(r)' /\ Asked(r)' /\ Others(r)
      BY <3>2, <1>QuietPromises, Zenon DEF Over
    <3>4. pc[r] = "hooks" => \A a \in tx[r].enq : a \in lost' \/ job'[a] # "none"
      BY <2>6, <3>1, Zenon DEF Crash
    <3> QED BY <3>1, <3>2, <3>3, <3>4, <1>FewerQueues, Zenon
  <2>7. ASSUME NEW a \in Assets, EnqueueScan(r, a) PROVE QueueInv'
    <3>1. row' = row /\ ids' = ids /\ scan' = scan /\ links' = links
      BY <2>7, Zenon DEF EnqueueScan, storeVars
    <3>2. /\ Others(r) /\ Keeps(r) /\ tx'[r].enq = tx[r].enq \ {a} /\ pc[r] = "hooks" /\ a \in tx[r].enq
          /\ pc'[r] = IF tx[r].enq \ {a} = {} THEN "cleaning" ELSE "hooks"
      BY <2>0, <2>7, EnqueueDoes, Zenon DEF Enqueued
    <3>3. /\ \A b \in Assets : job[b] # "none" => job'[b] # "none"
          /\ a \in lost' \/ job'[a] # "none"
          /\ \A b \in lost \ lost' : b = a /\ job'[b] # "none"
      <4>1. CASE job' = [job EXCEPT ![a] = IF job[a] = "none" THEN "queued" ELSE job[a]] /\ lost' = lost \ {a}
        <5>1. job'[a] # "none" /\ \A b \in Assets \ {a} : job'[b] = job[b]
          BY <2>0, <4>1, Zenon DEF Typed
        <5> QED BY <4>1, <5>1, Zenon
      <4>2. CASE job' = job /\ lost' = lost \union {a}
        BY <4>2, Zenon
      <4> QED BY <2>7, <4>1, <4>2, Zenon DEF EnqueueScan
    <3>4. Numbered(r)' /\ Private(r)' /\ Asked(r)'
      <4>1. tx'[r].assets = {} /\ tx'[r].upd = {}
        BY <2>0, <3>2, Zenon DEF Phase, Quiet, Keeps
      <4>2. \A b \in tx'[r].enq : b[2] <= ids'[b[1]]
        BY <2>0, <3>1, <3>2, Zenon DEF Numbered
      <4> QED BY <4>1, <4>2, <1>QuietPromises, Zenon
    <3>5. \A b \in tx[r].enq : (pc'[r] = "hooks" /\ b \in tx'[r].enq) \/ b \in lost' \/ job'[b] # "none"
      BY <3>2, <3>3, Zenon
    <3>6. \A b \in lost \ lost' : b \in tx[r].enq /\ job'[b] # "none"
      BY <3>2, <3>3, Zenon
    <3> QED BY <3>1, <3>2, <3>3, <3>4, <3>5, <3>6, <1>FewerQueues, Zenon
  <2>8. ASSUME NEW path \in Paths, CleanCheck(r, path) \/ CleanDelete(r, path) PROVE QueueInv'
    <3>1. row' = row /\ ids' = ids /\ scan' = scan /\ links' = links /\ job' = job /\ lost' = lost
      BY <2>8, Zenon DEF CleanCheck, CleanDelete, storeVars, jobVars, histVars
    <3>2. Others(r) /\ Keeps(r) /\ tx'[r].enq = tx[r].enq /\ pc[r] = "cleaning"
      BY <2>0, <2>8, CleanCheckDoes, CleanDeleteDoes, Zenon DEF Cleans
    <3>3. Numbered(r)' /\ Private(r)' /\ Asked(r)'
      BY <2>0, <3>1, <3>2, <1>SamePromises, Zenon
    <3> QED BY <3>1, <3>2, <3>3, <1>FewerQueues, Zenon
  <2> QED BY <2>1, <2>2, <2>3, <2>4, <2>5, <2>6, <2>7, <2>8, <1>CommitQueues, <1>UpsertQueues, Zenon
             DEF RequestStep

<1>PurgeQueues. ASSUME PhaseInv, QueueInv, Typed', NEW p \in Requests \union {Sweep}, Purge(p)
                PROVE  QueueInv'
  <2> USE <1>PurgeQueues
  <2>0. Typed /\ TypeRest /\ IdsBound /\ PendingIsQueued
    BY Zenon DEF PhaseInv, FinalInv, QueueInv
  <2>1. /\ ids' = ids /\ links' = links /\ job' = job /\ scan' = scan /\ lost' = lost
        /\ \/ \E a \in Assets, s \in PurgeType : Looks(p, a, s)
           \/ \E s \in purge[p], t \in PurgeType : Deletes(p, s, t)
           \/ \E a \in Assets : Quits(p, a)
    BY PurgeDoes, Zenon DEF PurgeEffect
  <2>2. NoRow.id = 0
    BY Zenon DEF NoRow
  <2>3. \A c \in Contents : row'[c] = row[c] \/ row'[c].id = 0
    <3>1. row' = row \/ \E a \in Assets : row' = [row EXCEPT ![a[1]] = NoRow]
      BY <2>1, Zenon DEF Looks, Deletes, Quits
    <3> QED BY <2>0, <2>2, <3>1, Zenon DEF Typed
  <2>4. IdsBound'
    <3>1. ASSUME NEW c \in Contents PROVE row'[c].id <= ids[c]
      <4>1. row[c].id <= ids[c] /\ ids[c] \in Nat
        BY <2>0, ConstantsAssumption DEF IdsBound, Typed
      <4> QED BY <2>3, <4>1
    <3> QED BY <2>0, <2>1, <3>1, Zenon DEF IdsBound
  <2>5. \/ tx' = tx /\ pc' = pc
        \/ /\ p \in Requests /\ Over(p) /\ pc[p] = "purging"
           /\ \E a \in Assets : tx'[p].enq = tx[p].enq \ {a}
    BY <2>1, PurgeSessions, Zenon DEF Looks, Deletes, PurgerIs
  <2>6. PendingIsQueued'
    <3>1. ASSUME NEW a \in Assets, Unscanned(a)' PROVE Waiting(a)'
      <4>0. a[1] \in Contents /\ a[2] # 0
        BY AssetParts DEF Ids
      <4>1. row'[a[1]] = row[a[1]]
        BY <2>3, <3>1, <4>0, Zenon DEF Unscanned, HasRow
      <4>2. Waiting(a)
        BY <2>0, <3>1, <4>1, <1>WaitingIs, Zenon DEF Unscanned, HasRow
      <4>3. ASSUME NEW q \in Requests, pc[q] = "hooks", a \in tx[q].enq PROVE pc'[q] = "hooks" /\ a \in tx'[q].enq
        BY <2>5, <4>3, Zenon DEF Over, Others
      <4> QED BY <2>1, <4>2, <4>3, Zenon DEF Waiting
    <3>2. (\A a \in Assets : Unscanned(a)' => Waiting(a)') => PendingIsQueued'
      BY Zenon DEF PendingIsQueued, Waiting, AtWork
    <3> QED BY <3>1, <3>2, Zenon
  <2>7. \A q \in Requests : Numbered(q)' /\ Private(q)' /\ Asked(q)'
    <3>1. CASE tx' = tx
      BY <2>1, <3>1, SameSessions, Zenon
    <3>2. CASE p \in Requests /\ Over(p) /\ \E a \in Assets : tx'[p].enq = tx[p].enq \ {a}
      <4>1. Numbered(p)
        BY <3>2, Zenon DEF QueueInv
      <4>2. Numbered(p)' /\ Private(p)' /\ Asked(p)'
        BY <2>1, <3>2, <4>1, <1>QuietPromises, Zenon DEF Over, Numbered
      <4>3. \A c \in Contents : ids[c] <= ids'[c]
        BY <2>0, <2>1, ConstantsAssumption DEF Typed
      <4>4. Others(p) /\ tx'[p].enq \subseteq tx[p].enq
        BY <3>2, Zenon DEF Over
      <4> QED BY <2>1, <3>2, <4>2, <4>3, <4>4, <1>SessionsKeep, Zenon
    <3> QED BY <2>5, <3>1, <3>2, Zenon
  <2> QED BY <2>4, <2>6, <2>7, Zenon DEF QueueInv

<1>JobQueues. ASSUME PhaseInv, QueueInv, NEW w \in Workers, QueueStep(w)
              PROVE  QueueInv'
  <2> USE <1>JobQueues
  <2>0. Typed /\ TypeRest /\ IdsBound /\ PendingIsQueued /\ Single(w)
    BY Zenon DEF PhaseInv, FinalInv, QueueInv
  <2>1. /\ row' = row /\ ids' = ids /\ links' = links /\ tx' = tx /\ pc' = pc /\ lost \subseteq lost'
        /\ \A v \in Workers \ {w} : scan'[v] = scan[v]
    BY <2>0, QueueDoes, Zenon DEF QueueEffect
  <2>2. w # "none"
    BY ConstantsAssumption, Zenon
  <2>3. \/ /\ \A a \in Assets : job[a] # "none" => job'[a] # "none"
           /\ scan' = scan \/ \E s \in scan[w] : job'[s.asset] # "none"
        \/ /\ \A a \in Assets : job[a] # "none" => job'[a] # "none"
           /\ scan[w] = {}
        \/ \E s \in scan[w] : /\ s.step \in {"succeed", "fail"}
                              /\ \A a \in Assets : job[a] # "none" /\ job'[a] = "none" =>
                                    a = s.asset /\ (Unscanned(a) \/ Dropped(a) => a \in lost')
    <3>1. ASSUME NEW a \in Assets, Claim(w, a)
          PROVE  scan[w] = {} /\ \A b \in Assets : job[b] # "none" => job'[b] # "none"
      BY <2>0, <2>2, <3>1, Zenon DEF Claim, Typed
    <3>2. ASSUME NEW s \in scan[w], Recover(w, s)
          PROVE  job'[s.asset] # "none" /\ \A b \in Assets : job[b] # "none" => job'[b] # "none"
      <4>1. s.asset \in Assets
        BY <2>0, ScanTyped, Zenon
      <4> QED BY <2>0, <3>2, <4>1, Zenon DEF Recover, Typed
    <3>3. ASSUME NEW s \in scan[w], Settle(w, s)
          PROVE  /\ s.step \in {"succeed", "fail"}
                 /\ \A a \in Assets : job[a] # "none" /\ job'[a] = "none" =>
                       a = s.asset /\ (Unscanned(a) \/ Dropped(a) => a \in lost')
      <4>1. s.asset \in Assets /\ s.step \in {"succeed", "fail"}
        BY <2>0, <3>3, ScanTyped, Zenon DEF Settle
      <4> DEFINE retry == s.step = "fail" /\ att[s.asset] < MaxAttempts
      <4>2. \/ job' = job
            \/ /\ job' = [job EXCEPT ![s.asset] = IF retry THEN "queued" ELSE "none"]
               /\ lost' = IF ~retry /\ (Unscanned(s.asset) \/ Dropped(s.asset)) THEN lost \union {s.asset} ELSE lost
        BY <3>3, Zenon DEF Settle, jobVars
      <4> HIDE DEF retry
      <4>3. CASE job' = job
        BY <4>1, <4>3, Zenon
      <4>4. CASE /\ job' = [job EXCEPT ![s.asset] = IF retry THEN "queued" ELSE "none"]
                 /\ lost' = IF ~retry /\ (Unscanned(s.asset) \/ Dropped(s.asset)) THEN lost \union {s.asset} ELSE lost
        BY <2>0, <4>1, <4>4, Zenon DEF Typed
      <4> QED BY <4>1, <4>2, <4>3, <4>4, Zenon
    <3> QED BY <3>1, <3>2, <3>3, Zenon DEF QueueStep
  <2>4. IdsBound'
    BY <2>0, <2>1, Zenon DEF IdsBound
  <2>6. PendingIsQueued'
    <3>1. ASSUME NEW a \in Assets, Unscanned(a)' PROVE Waiting(a)'
      <4>1. Waiting(a) /\ Unscanned(a)
        BY <2>0, <2>1, <3>1, <1>WaitingIs, Zenon DEF Unscanned, HasRow
      <4>2. CASE job[a] # "none"
        BY <2>3, <4>1, <4>2, Zenon DEF Waiting
      <4>3. CASE a \in lost \/ \E r \in Requests : pc[r] = "hooks" /\ a \in tx[r].enq
        BY <2>1, <4>3, Zenon DEF Waiting
      <4>4. ASSUME NEW v \in Workers, NEW t \in scan[v], t.asset = a, t.step \in AtWork PROVE Waiting(a)'
        <5>1. CASE v # w
          BY <2>1, <4>4, <5>1, Zenon DEF Waiting
        <5>2. CASE v = w
          <6>1. ASSUME NEW s \in scan[w] PROVE s = t
            BY <2>0, <4>4, <5>2, <6>1, Zenon DEF Single
          <6>2. ~ \E s \in scan[w] : s.step \in {"succeed", "fail"}
            BY <4>4, <6>1, Zenon DEF AtWork
          <6>3. scan' = scan \/ job'[a] # "none"
            BY <2>3, <4>4, <5>2, <6>1, <6>2, Zenon
          <6> QED BY <4>4, <6>3, Zenon DEF Waiting
        <5> QED BY <5>1, <5>2, Zenon
      <4> QED BY <4>1, <4>2, <4>3, <4>4, Zenon DEF Waiting
    <3>2. (\A a \in Assets : Unscanned(a)' => Waiting(a)') => PendingIsQueued'
      BY Zenon DEF PendingIsQueued, Waiting, AtWork
    <3> QED BY <3>1, <3>2, Zenon
  <2>7. ASSUME NEW q \in Requests PROVE Numbered(q)' /\ Private(q)' /\ Asked(q)'
    <3>1. ASSUME NEW a \in tx[q].upd, job[a] # "none" PROVE job'[a] # "none" \/ a \in tx[q].enq \union lost'
      <4>1. a \in Assets /\ (a \notin tx[q].enq => Dropped(a))
        BY <2>0, <3>1, FieldsOf, Zenon DEF Dropped, Fields
      <4> QED BY <2>3, <3>1, <4>1, Zenon
    <3> QED BY <2>1, <3>1, SameSessions, Zenon
  <2> QED BY <2>4, <2>6, <2>7, Zenon DEF QueueInv

<1>HandlerQueues. ASSUME PhaseInv, QueueInv, NEW w \in Workers, NEW s \in scan[w], HandlerStep(w, s)
                  PROVE  QueueInv'
  <2> USE <1>HandlerQueues
  <2>0. Typed /\ TypeRest /\ IdsBound /\ PendingIsQueued /\ Single(w)
    BY Zenon DEF PhaseInv, FinalInv, QueueInv
  <2>1. /\ ids' = ids /\ links' = links /\ tx' = tx /\ pc' = pc /\ job' = job /\ lost' = lost
        /\ \E place \in Places, step \in Steps : Progress(s, place, step) /\ Shifts(w, s, place, step)
    BY <2>0, HandlerDoes, Zenon DEF HandlerEffect
  <2>2. s.asset \in Assets /\ s.asset[1] \in Contents /\ row[s.asset[1]].place \in Places /\ s.place \in Places
    BY <2>0, ScanTyped, Zenon DEF Typed, RowType, ScanType
  <2>3. PICK place \in Places, step \in Steps : Progress(s, place, step) /\ Shifts(w, s, place, step)
    BY <2>1, Zenon
  <2>4. \/ row' = row
        \/ \E status \in {"scanning", "clean", "scan_error", "infected"}, pl \in Places :
              /\ SetRow(s.asset, pl, status)
              /\ (status = "scanning" <=> s.step = "start")
              /\ s.step \in {"start", "clean", "scan_error", "infected"}
    <3>1. CASE ScanRead(w, s) \/ Verdict(w, s) \/ MoveAway(w, s)
      BY <3>1, Zenon DEF ScanRead, Verdict, MoveAway, storeVars
    <3>2. CASE ScanStart(w, s) \/ WriteStatus(w, s) \/ WriteInfected(w, s)
      BY <2>2, <3>2, Zenon DEF ScanStart, WriteStatus, WriteInfected
    <3> QED BY <3>1, <3>2, Zenon DEF HandlerStep
  <2>5. \A c \in Contents : row'[c].id = row[c].id
    <3>1. ASSUME NEW status \in {"scanning", "clean", "scan_error", "infected"}, NEW pl \in Places,
                 SetRow(s.asset, pl, status)
          PROVE  \A c \in Contents : row'[c].id = row[c].id
      <4>1. status \in Statuses
        BY <3>1, Zenon DEF Statuses
      <4> QED BY <2>0, <2>2, <3>1, <4>1, SetRowDoes, Zenon DEF RowSet
    <3> QED BY <2>4, <3>1, Zenon
  <2>6. IdsBound'
    BY <2>0, <2>1, <2>5, Zenon DEF IdsBound
  <2>7. ASSUME NEW q \in Requests PROVE Numbered(q)' /\ Private(q)' /\ Asked(q)'
    BY <2>1, SameSessions, Zenon
    \* The worker goes on, unless it has just written the status of its asset.
  <2>8. ASSUME NEW a \in Assets, NEW v \in Workers, NEW t \in scan[v], t.asset = a, t.step \in AtWork,
               a = s.asset => step \in AtWork
        PROVE  Waiting(a)'
    <3>1. CASE v # w
      BY <2>3, <2>8, <3>1, Zenon DEF Waiting, Shifts
    <3>2. CASE v = w
      <4>1. a = s.asset
        BY <2>0, <2>8, <3>2, Zenon DEF Single
      <4> QED BY <2>3, <2>8, <4>1, Zenon DEF Waiting, Shifts
    <3> QED BY <3>1, <3>2, Zenon
  <2>9. ASSUME NEW a \in Assets, Unscanned(a), a = s.asset => step \in AtWork \/ s.step \notin AtWork
        PROVE  Waiting(a)'
    <3>1. Waiting(a)
      BY <2>0, <2>9, <1>WaitingIs, Zenon
    <3>2. ASSUME NEW v \in Workers, NEW t \in scan[v], t.asset = a, t.step \in AtWork PROVE Waiting(a)'
      <4>1. CASE v = w
        <5>1. t = s
          BY <2>0, <3>2, <4>1, Zenon DEF Single
        <5> QED BY <2>8, <2>9, <3>2, <5>1, Zenon
      <4>2. CASE v # w
        BY <2>3, <3>2, <4>2, Zenon DEF Waiting, Shifts
      <4> QED BY <4>1, <4>2, Zenon
    <3> QED BY <2>1, <3>1, <3>2, Zenon DEF Waiting
  <2>10. ASSUME NEW a \in Assets, Unscanned(a)' PROVE Waiting(a)'
    <3>0. a[1] \in Contents /\ a = <<a[1], a[2]>> /\ s.asset = <<s.asset[1], s.asset[2]>>
      BY <2>2, AssetParts, Zenon
    <3>1. CASE row' = row /\ s.step \in {"read", "scanning", "move"}
      <4>1. Unscanned(a)
        BY <2>10, <3>1, Zenon DEF Unscanned, HasRow
      <4>2. step \in AtWork \/ s.step \notin AtWork
        BY <2>3, <3>1, Zenon DEF Progress, AtWork
      <4> QED BY <2>9, <4>1, <4>2, Zenon
    <3>2. ASSUME NEW status \in {"scanning", "clean", "scan_error", "infected"}, NEW pl \in Places,
                 SetRow(s.asset, pl, status), (status = "scanning" <=> s.step = "start"),
                 s.step \in {"start", "clean", "scan_error", "infected"}
          PROVE  Waiting(a)'
      <4>1. /\ \A c \in Contents : row'[c] = row[c] \/ (c = s.asset[1] /\ HasRow(s.asset) /\ row'[c].scan = status)
            /\ HasRow(s.asset) => row'[s.asset[1]].scan = status
        <5>1. status \in Statuses
          BY <3>2, Zenon DEF Statuses
        <5> QED BY <2>0, <2>2, <3>2, <5>1, SetRowDoes DEF RowSet
      <4>2. CASE a = s.asset
        <5>1. row'[a[1]].scan = status
          BY <2>5, <2>10, <3>0, <4>1, <4>2, Zenon DEF Unscanned, HasRow
        <5>2. s.step = "start"
          BY <2>10, <3>2, <5>1, Zenon DEF Unscanned
        <5>3. step = "scanning"
          BY <2>3, <5>2, Zenon DEF Progress
        <5> QED BY <2>3, <4>2, <5>3, Zenon DEF Waiting, Shifts, AtWork
      <4>3. CASE a # s.asset
        <5>1. row'[a[1]] = row[a[1]]
          BY <2>5, <2>10, <3>0, <4>1, <4>3, Zenon DEF Unscanned, HasRow
        <5>2. Unscanned(a)
          BY <2>10, <5>1, Zenon DEF Unscanned, HasRow
        <5> QED BY <2>9, <4>3, <5>2, Zenon
      <4> QED BY <4>2, <4>3, Zenon
    <3>3. CASE ScanRead(w, s) \/ Verdict(w, s) \/ MoveAway(w, s)
      BY <3>1, <3>3, Zenon DEF ScanRead, Verdict, MoveAway, storeVars
    <3>4. CASE ScanStart(w, s) \/ WriteStatus(w, s) \/ WriteInfected(w, s)
      <4>1. PICK status \in {"scanning", "clean", "scan_error", "infected"}, pl \in Places :
              /\ SetRow(s.asset, pl, status)
              /\ (status = "scanning" <=> s.step = "start")
              /\ s.step \in {"start", "clean", "scan_error", "infected"}
        BY <2>2, <3>4, Zenon DEF ScanStart, WriteStatus, WriteInfected
      <4> QED BY <3>2, <4>1, Zenon
    <3> QED BY <3>3, <3>4, Zenon DEF HandlerStep
  <2>11. (\A a \in Assets : Unscanned(a)' => Waiting(a)') => PendingIsQueued'
    BY Zenon DEF PendingIsQueued, Waiting, AtWork
  <2> QED BY <2>6, <2>7, <2>10, <2>11, Zenon DEF QueueInv

<1>All. ASSUME PhaseInv, PhaseInv', QueueInv, Next
        PROVE  QueueInv'
  <2> USE <1>All
  <2>1. Typed'
    BY Zenon DEF PhaseInv, FinalInv
  <2> QED BY <2>1, NextCases, <1>RequestQueues, <1>PurgeQueues, <1>JobQueues, <1>HandlerQueues, Zenon

<1> QED BY <1>All, Zenon

LEMMA QueueAlways == Spec => []QueueInv
<1>1. QueueInv /\ UNCHANGED vars => QueueInv'
  <2> SUFFICES ASSUME QueueInv, UNCHANGED vars PROVE QueueInv'
    OBVIOUS
  <2>1. /\ row' = row /\ ids' = ids /\ links' = links /\ pc' = pc /\ tx' = tx /\ job' = job /\ scan' = scan
        /\ lost' = lost
    BY Zenon DEF vars, storeVars, procVars, jobVars, histVars
  <2>2. \A q \in Requests : Numbered(q)' /\ Private(q)' /\ Asked(q)'
    BY <2>1, SameSessions, Zenon
  <2>3. IdsBound' /\ PendingIsQueued'
    BY <2>1, Zenon DEF QueueInv, IdsBound, PendingIsQueued, Unscanned, HasRow
  <2> QED BY <2>2, <2>3, Zenon DEF QueueInv
<1>2. PhaseInv /\ PhaseInv' /\ QueueInv /\ [Next]_vars => QueueInv'
  BY <1>1, QueueNext, Zenon
<1> QED BY <1>2, QueueInit, PhaseAlways, PTL DEF Spec

\* An asset that waits for its scan is never forgotten silently: there is an
\* active job, a request that will enqueue it or a worker at it, unless the
\* request was dropped at one of the four places that "lost" records; for
\* any numbers of requests, workers, attempts and faults, also when the queue runs
\* a job twice at a time.
THEOREM PendingStaysQueued == Spec => []PendingIsQueued
<1>1. QueueInv => PendingIsQueued
  BY Zenon DEF QueueInv
<1> QED BY <1>1, QueueAlways, PTL

-----------------------------------------------------------------------------
(* The store.                                                              *)

Home(c) == <<"home", c>>

Away(c) == <<"quarantine", c>>

HasFile(c)   == Home(c) \in files \/ Away(c) \in files

LinkedTo(c)  == \E r \in Requests, a \in Assets : <<r, a>> \in links /\ a[1] = c

Purged(c)    == \E p \in Requests \union {Sweep} : \E s \in purge[p] : s.asset[1] = c

Cut(c)       == \E r \in Requests : \E path \in tx[r].cut : path[2] = c

MovedAway(c) == \E w \in Workers : \E s \in scan[w] :
                    s.asset[1] = c /\ s.step = "infected" /\ s.place = "quarantine"

Tracks(r, c) == Home(c) \in tx[r].trk \union tx[r].cut

\* Objects go to quarantine for good, with their row.
PlacesOK ==
    /\ \A c \in Contents : row[c].place = "quarantine" => row[c].scan = "infected"
    /\ \A r \in Requests : /\ \A s \in tx[r].cur : s.place = "home"
                           /\ \A path \in tx[r].trk \union tx[r].cut : path[1] = "home"
    /\ \A w \in Workers : \A s \in scan[w] :
          s.place = "quarantine" => s.step \in {"infected", "succeed", "fail"}

\* What a transaction uses has its row, and its object unless that comes next.
UseOK(c) ==
    \A r \in Requests : \A a \in tx[r].assets : a[1] = c =>
        /\ c \in tx[r].fresh \/ HasRow(a)
        /\ HasFile(c) \/ \E s \in tx[r].cur : s.asset = a

LinkOK(c) ==
    \A r \in Requests, a \in Assets : <<r, a>> \in links /\ a[1] = c => HasRow(a) /\ HasFile(c)

\* What is linked is not purged; where it leaves its home, it is in quarantine.
SafeOK(c) ==
    LinkedTo(c) =>
        /\ ~Purged(c)
        /\ row[c].place = "quarantine" \/ MovedAway(c) \/ Cut(c) => Away(c) \in files

\* An object that is used is at home; one that is in quarantine, or whose
\* purge has come to the row, is not.
HomeOK(c) ==
    /\ \A r \in Requests : Uses(r, c) => row[c].place = "home"
    /\ \/ row[c].place = "quarantine" \/ MovedAway(c)
       \/ \E p \in Requests \union {Sweep} : \E s \in purge[p] :
             s.asset[1] = c /\ (~s.del \/ s.path = Away(c))
       => Home(c) \notin files

OrphanOK(c) ==
    Home(c) \in files /\ row[c].id = 0 /\ c \notin left => \E r \in Requests : Tracks(r, c)

\* A session tracks what it has linked, or what it uses and may still link.
TrackOK(r, c) ==
    Tracks(r, c) =>
        /\ tx[r].after = "linked" => \E a \in Assets : <<r, a>> \in links /\ a[1] = c
        /\ pc[r] \in {"open", "saving"} \/ tx[r].after = "open" => Uses(r, c)

StoreOK(c) ==
    UseOK(c) /\ LinkOK(c) /\ SafeOK(c) /\ HomeOK(c) /\ OrphanOK(c) /\ \A r \in Requests : TrackOK(r, c)

StoreInv == PlacesOK /\ \A c \in Contents \ torn : ~Overlap(c) /\ StoreOK(c)

\* Nothing changes in the store of the content c, and nobody begins to delete or move it.
Stays(c) ==
    /\ row'[c].id = row[c].id /\ row'[c].place = row[c].place
    /\ (Home(c) \in files' <=> Home(c) \in files) /\ (Away(c) \in files' <=> Away(c) \in files)
    /\ \A q \in Requests, a \in Assets : a[1] = c /\ <<q, a>> \in links' => <<q, a>> \in links
    /\ \A p \in Requests \union {Sweep} : \A s \in purge'[p] : s.asset[1] = c => s \in purge[p]
    /\ MovedAway(c)' => MovedAway(c)

\* The session q takes nothing more of c.
Fewer(q, c) ==
    /\ \A a \in tx'[q].assets : a[1] = c =>
          /\ a \in tx[q].assets /\ (c \in tx[q].fresh => c \in tx'[q].fresh)
          /\ \A s \in tx[q].cur : s.asset = a => s \in tx'[q].cur
    /\ \A path \in tx'[q].cut : path[2] = c => path \in tx[q].cut

\* The places of rows, sessions and workers.
RowPlaces     == \A c \in Contents : row[c].place = "quarantine" => row[c].scan = "infected"

TxPlaces(r)   == /\ \A s \in tx[r].cur : s.place = "home"
                 /\ \A path \in tx[r].trk \union tx[r].cut : path[1] = "home"

ScanPlaces(w) == \A s \in scan[w] : s.place = "quarantine" => s.step \in {"infected", "succeed", "fail"}

LEMMA PlacesParts ==
    PlacesOK <=> RowPlaces /\ (\A r \in Requests : TxPlaces(r)) /\ \A w \in Workers : ScanPlaces(w)
BY Zenon DEF PlacesOK, RowPlaces, TxPlaces, ScanPlaces

\* What is not infected is at home.
LEMMA CleanIsHome ==
    ASSUME Typed, RowPlaces, NEW c \in Contents, row[c].scan # "infected"
    PROVE  row[c].place = "home"
<1>1. row[c].place \in Places
  BY Zenon DEF Typed, RowType
<1> QED BY <1>1, Zenon DEF RowPlaces, Places

RowPlaced(a, place, status) ==
    /\ HasRow(a) => row'[a[1]].place = place /\ row'[a[1]].scan = status
    /\ \A c \in Contents : (c = a[1] /\ HasRow(a)) \/ row'[c] = row[c]

LEMMA SetRowPlace ==
    ASSUME Typed, NEW a \in Assets, NEW place \in Places, NEW status \in Statuses, SetRow(a, place, status)
    PROVE  RowPlaced(a, place, status)
<1>0. a[1] \in Contents
  BY AssetParts, Zenon
<1>1. CASE HasRow(a)
  <2> DEFINE x == [id |-> a[2], place |-> place, scan |-> status]
  <2>1. row' = [row EXCEPT ![a[1]] = x] /\ x.place = place /\ x.scan = status
    BY <1>1, Zenon DEF SetRow
  <2> HIDE DEF x
  <2> QED BY <1>0, <1>1, <2>1, Zenon DEF Typed, RowPlaced
<1>2. CASE ~HasRow(a)
  BY <1>2, Zenon DEF SetRow, RowPlaced
<1> QED BY <1>1, <1>2, Zenon DEF RowPlaced

\* Every step keeps a row and the scan that works on it in agreement on where
\* the object is.
LEMMA PlacesNext == PhaseInv /\ QueueInv /\ PlacesOK /\ Exclusive /\ Next => PlacesOK'

<1>RequestPlaces. ASSUME PhaseInv, PlacesOK, NEW r \in Requests, RequestStep(r)
                  PROVE  TxPlaces(r)' /\ Others(r)
  <2> USE <1>RequestPlaces
  <2>0. Typed /\ TypeRest /\ Phase(r) /\ TxPlaces(r) /\ RowPlaces /\ \A c \in Contents : NoRowIsClear(c)
    BY PlacesParts, Zenon DEF PhaseInv, FinalInv
  <2>1. Others(r)
    BY <2>0, RequestPhase, Zenon
  <2>2. CASE Save(r)
    <3>1. PICK s \in tx[r].cur : Saved(r, s)
      BY <2>0, <2>2, SaveDoes, Zenon
    <3>2. PathOf(s)[1] = "home"
      <4>1. s.place = "home"
        BY <2>0, Zenon DEF TxPlaces
      <4> QED BY <4>1 DEF PathOf
    <3>3. tx'[r].cur = {} /\ tx'[r].cut = tx[r].cut /\ tx'[r].trk \subseteq tx[r].trk \union {PathOf(s)}
      BY <3>1, Zenon DEF Saved
    <3> QED BY <2>0, <2>1, <3>2, <3>3, Zenon DEF TxPlaces
  <2>3. CASE CleanEnd(r)
    <3>1. tx' = tx
      BY <2>3, Zenon DEF CleanEnd
    <3> QED BY <2>0, <2>1, <3>1, Zenon DEF TxPlaces
  <2>4. ASSUME Over(r), tx'[r].trk \subseteq tx[r].trk PROVE TxPlaces(r)'
    BY <2>0, <2>4, Zenon DEF Over, TxPlaces
  <2>5. CASE Commit(r) \/ Rollback(r) \/ Crash(r) \/ Unlink(r)
    <3>1. Over(r) /\ tx'[r].trk \subseteq tx[r].trk
      <4>1. CASE Unlink(r)
        <5>1. \E A : ToPurge(r, A)
          BY <4>1, Zenon DEF Unlink
        <5> QED BY <2>0, <5>1, ToPurgeDoes, Zenon DEF Drops
      <4> QED BY <2>0, <2>5, <4>1, CommitDoes, RollbackDoes, CrashDoes, Zenon DEF Committed, RolledBack, Crashed
    <3> QED BY <2>1, <2>4, <3>1, Zenon
  <2>6. CASE SavepointFails(r) \/ \E a \in Assets : EnqueueScan(r, a)
    <3>1. tx'[r].cur = tx[r].cur /\ tx'[r].trk = tx[r].trk /\ tx'[r].cut = tx[r].cut
      BY <2>0, <2>6, SavepointDoes, EnqueueDoes, Zenon DEF Enqueued, SavepointUndone
    <3> QED BY <2>0, <2>1, <3>1, Zenon DEF TxPlaces
  <2>7. ASSUME NEW path \in Paths, CleanCheck(r, path) \/ CleanDelete(r, path) PROVE TxPlaces(r)'
    <3>1. tx'[r].cur = tx[r].cur /\ tx'[r].trk \union tx'[r].cut \subseteq tx[r].trk \union tx[r].cut
      <4>1. CASE CleanCheck(r, path)
        <5>1. /\ Cleans(r, tx[r].trk \ {path}, IF RowHas(path) THEN {} ELSE {path})
              /\ path \in tx[r].trk
          BY <2>0, <4>1, CleanCheckDoes, Zenon
        <5> QED BY <5>1, Zenon DEF Cleans
      <4>2. CASE CleanDelete(r, path)
        BY <2>0, <4>2, CleanDeleteDoes, Zenon DEF Cleans
      <4> QED BY <2>7, <4>1, <4>2, Zenon
    <3> QED BY <2>0, <3>1, Zenon DEF TxPlaces
  <2>8. ASSUME NEW c \in Contents, Upsert(r, c) PROVE TxPlaces(r)'
    <3>1. Upserted(r, c)
      BY <2>0, <2>8, UpsertDoes, Zenon
    <3>2. tx'[r].trk = tx[r].trk /\ tx'[r].cut = tx[r].cut
      BY <3>1, Zenon DEF Upserted
    <3>3. CASE Refuses(r)
      BY <2>0, <3>2, <3>3, Zenon DEF Refuses, TxPlaces
    <3>4. ASSUME NEW a \in Assets, Joins(r, c, a, "home") PROVE TxPlaces(r)'
      <4> DEFINE x == [asset |-> a, place |-> "home"]
      <4>1. tx'[r].cur = {x} /\ x.place = "home"
        BY <3>4, Zenon DEF Joins
      <4> HIDE DEF x
      <4> QED BY <2>0, <3>2, <4>1, Zenon DEF TxPlaces
    <3>5. ASSUME NEW a \in Assets, Reuses(r, c, a) PROVE Joins(r, c, a, "home")
      <4>1. row[c].place = "home"
        BY <2>0, <3>5, CleanIsHome, Zenon DEF Reuses
      <4> QED BY <3>5, <4>1, Zenon DEF Reuses
    <3> QED BY <3>1, <3>3, <3>4, <3>5, Zenon DEF Upserted, Inserts
  <2> QED BY <2>1, <2>2, <2>3, <2>5, <2>6, <2>7, <2>8, Zenon DEF RequestStep

<1>CommitPlaces. ASSUME PhaseInv, QueueInv, RowPlaces, NEW r \in Requests, Commit(r)
                 PROVE  RowPlaces'
  <2> USE <1>CommitPlaces
  <2>0. Typed /\ Holds(r) /\ Numbered(r)
    BY Zenon DEF PhaseInv, FinalInv, QueueInv
  <2>1. ASSUME NEW c \in Contents, row'[c].place = "quarantine" PROVE row'[c].scan = "infected"
    <3>1. CASE c \in tx[r].fresh
      <4>1. PICK i \in Ids : <<c, i>> \in tx[r].assets
        BY <2>0, <3>1, Zenon DEF Holds
      <4>2. <<c, i>>[1] = c
        OBVIOUS
      <4>3. row'[c].place = "home"
        BY <2>0, <3>1, <4>1, <4>2, FreshRow
      <4> QED BY <2>1, <4>3, Zenon
    <3>2. CASE c \notin tx[r].fresh
      <4>1. row'[c].place = row[c].place /\ (row'[c] = row[c] \/ AssetOf(c) \in tx[r].upd)
        BY <2>0, <3>2, OldRow, Zenon
      <4>2. HasRow(AssetOf(c)) /\ AssetOf(c)[1] = c
        BY DEF HasRow, AssetOf
      <4>3. row[c].scan = "infected"
        BY <2>1, <4>1, Zenon DEF RowPlaces
      <4>4. AssetOf(c) \notin tx[r].upd
        BY <2>0, <4>2, <4>3, Zenon DEF Holds
      <4> QED BY <4>1, <4>3, <4>4, Zenon
    <3> QED BY <3>1, <3>2, Zenon
  <2> QED BY <2>1, Zenon DEF RowPlaces

<1>HandlerPlaces. ASSUME PhaseInv, PlacesOK, Exclusive, NEW w \in Workers, NEW s \in scan[w], HandlerStep(w, s)
                  PROVE  RowPlaces' /\ ScanPlaces(w)'
  <2> USE <1>HandlerPlaces
  <2>0. Typed /\ RowPlaces /\ ScanPlaces(w) /\ FinalInv
    BY PlacesParts, Zenon DEF PhaseInv, FinalInv
  <2>1. PICK place \in Places, step \in Steps : Progress(s, place, step) /\ Shifts(w, s, place, step)
    BY <2>0, HandlerDoes, Zenon DEF HandlerEffect
  <2>2. s.asset \in Assets /\ s.asset[1] \in Contents /\ row[s.asset[1]].place \in Places /\ s.place \in Places
    BY <2>0, ScanTyped, Zenon DEF Typed, RowType, ScanType
  <2>3. ScanPlaces(w)'
    <3>1. s.place = "quarantine" => s.step \in {"infected", "succeed", "fail"}
      BY <2>0, Zenon DEF ScanPlaces
    <3>2. s.step = "read" /\ step = "start" => place = "home"
      BY <2>0, <2>1, <2>2, CleanIsHome, Zenon DEF Progress
    <3>3. place = "quarantine" => step \in {"infected", "succeed", "fail"}
      BY <2>1, <3>1, <3>2, Zenon DEF Progress
    <3> QED BY <2>1, <3>3, Zenon DEF Shifts, ScanPlaces
  <2>4. RowPlaces'
    <3>1. CASE row' = row
      BY <2>0, <3>1, Zenon DEF RowPlaces
    <3>2. ASSUME NEW pl \in Places, NEW status \in Statuses, SetRow(s.asset, pl, status),
                 status = "infected" \/ (HasRow(s.asset) => pl = "home")
          PROVE  RowPlaces'
      <4>1. /\ HasRow(s.asset) => row'[s.asset[1]].place = pl /\ row'[s.asset[1]].scan = status
            /\ \A c \in Contents : (c = s.asset[1] /\ HasRow(s.asset)) \/ row'[c] = row[c]
        BY <2>0, <2>2, <3>2, SetRowPlace, Zenon DEF RowPlaced
      <4> QED BY <2>0, <3>2, <4>1, Zenon DEF RowPlaces
    <3>3. CASE ScanStart(w, s) \/ WriteStatus(w, s)
      <4>1. PICK status \in {"scanning", "clean", "scan_error"} : SetRow(s.asset, row[s.asset[1]].place, status)
        BY <3>3, Zenon DEF ScanStart, WriteStatus
      <4>2. s.step \in Trusting
        BY <3>3, Zenon DEF ScanStart, WriteStatus, Trusting
      <4>3. HasRow(s.asset) => row[s.asset[1]].place = "home"
        BY <2>0, <2>2, <4>2, Trusts, CleanIsHome, Zenon
      <4>4. status \in Statuses
        BY Zenon DEF Statuses
      <4> QED BY <2>2, <3>2, <4>1, <4>3, <4>4, Zenon
    <3>4. CASE WriteInfected(w, s)
      <4>1. SetRow(s.asset, s.place, "infected") /\ "infected" \in Statuses
        BY <3>4, Zenon DEF WriteInfected, Statuses
      <4> QED BY <2>2, <3>2, <4>1, Zenon
    <3> QED BY <3>1, <3>3, <3>4, Zenon DEF HandlerStep, ScanRead, Verdict, MoveAway, storeVars
  <2> QED BY <2>3, <2>4, Zenon

<1>All. ASSUME PhaseInv, QueueInv, PlacesOK, Exclusive, Next
        PROVE  PlacesOK'
  <2> USE <1>All
  <2>0. Typed /\ TypeRest /\ RowPlaces /\ (\A q \in Requests : TxPlaces(q)) /\ \A v \in Workers : ScanPlaces(v)
    BY PlacesParts, Zenon DEF PhaseInv, FinalInv
  <2>1. ASSUME NEW r \in Requests, RequestStep(r) PROVE PlacesOK'
    <3>1. scan' = scan
      BY <2>1, RequestScans, Zenon
    <3>2. TxPlaces(r)' /\ Others(r)
      BY <2>1, <1>RequestPlaces, Zenon
    <3>3. ASSUME NEW q \in Requests \ {r} PROVE TxPlaces(q)'
      BY <2>0, <3>2, Zenon DEF Others, TxPlaces
    <3>4. ASSUME NEW v \in Workers PROVE ScanPlaces(v)'
      BY <2>0, <3>1, Zenon DEF ScanPlaces
    <3>5. RowPlaces'
      <4>1. CASE Commit(r)
        BY <2>0, <4>1, <1>CommitPlaces, Zenon
      <4>2. CASE row' = row
        BY <2>0, <4>2, Zenon DEF RowPlaces
      <4> QED BY <2>1, <4>1, <4>2, Zenon DEF RequestStep, Save, CleanEnd, Rollback, Unlink, SavepointFails,
                 Crash, EnqueueScan, CleanCheck, CleanDelete, Upsert, storeVars
    <3>6. (\A q \in Requests : TxPlaces(q)') /\ \A v \in Workers : ScanPlaces(v)'
      BY <3>2, <3>3, <3>4, Zenon
    <3> QED BY <3>5, <3>6, Zenon DEF PlacesOK, RowPlaces, TxPlaces, ScanPlaces
  <2>2. ASSUME NEW p \in Requests \union {Sweep}, Purge(p) PROVE PlacesOK'
    <3>1. /\ scan' = scan
          /\ \/ \E a \in Assets, s \in PurgeType : Looks(p, a, s)
             \/ \E s \in purge[p], t \in PurgeType : Deletes(p, s, t)
             \/ \E a \in Assets : Quits(p, a)
      BY <2>2, PurgeDoes, Zenon DEF PurgeEffect
    <3>2. RowPlaces'
      <4>1. NoRow.place = "home"
        BY Zenon DEF NoRow
      <4>2. row' = row \/ \E c \in Contents : row' = [row EXCEPT ![c] = NoRow]
        BY <3>1, AssetParts, Zenon DEF Looks, Deletes, Quits
      <4>3. \A c \in Contents : row'[c] = row[c] \/ row'[c].place = "home"
        BY <2>0, <4>1, <4>2, Zenon DEF Typed
      <4> QED BY <2>0, <4>3, Zenon DEF RowPlaces
    <3>3. ASSUME NEW q \in Requests PROVE TxPlaces(q)'
      <4>1. tx' = tx \/ (Over(p) /\ tx'[p].trk = {})
        BY <3>1, Zenon DEF Looks, Deletes, Quits, Purges
      <4>2. tx'[q] = tx[q] \/ (tx'[q].cur = {} /\ tx'[q].trk = {} /\ tx'[q].cut = {})
        BY <4>1, Zenon DEF Over, Others
      <4> QED BY <2>0, <4>2, Zenon DEF TxPlaces
    <3>4. ASSUME NEW v \in Workers PROVE ScanPlaces(v)'
      BY <2>0, <3>1, Zenon DEF ScanPlaces
    <3> QED BY <3>2, <3>3, <3>4, Zenon DEF PlacesOK, RowPlaces, TxPlaces, ScanPlaces
  <2>3. ASSUME NEW w \in Workers, tx' = tx, RowPlaces', ScanPlaces(w)',
               \A v \in Workers \ {w} : scan'[v] = scan[v]
        PROVE  PlacesOK'
    <3>1. ASSUME NEW v \in Workers PROVE ScanPlaces(v)'
      BY <2>0, <2>3, Zenon DEF ScanPlaces
    <3>2. ASSUME NEW q \in Requests PROVE TxPlaces(q)'
      BY <2>0, <2>3, Zenon DEF TxPlaces
    <3> QED BY <2>3, <3>1, <3>2, Zenon DEF PlacesOK, RowPlaces, TxPlaces, ScanPlaces
  <2>4. ASSUME NEW w \in Workers, QueueStep(w) PROVE PlacesOK'
    <3>1. /\ row' = row /\ tx' = tx /\ \A v \in Workers \ {w} : scan'[v] = scan[v]
          /\ scan'[w] = {} \/ scan' = scan \/ \E x \in ScanType : scan'[w] = {x} /\ x.place = "home"
      BY <2>0, <2>4, QueueDoes, Zenon DEF QueueEffect
    <3>2. RowPlaces'
      BY <2>0, <3>1, Zenon DEF RowPlaces
    <3>3. ScanPlaces(w)'
      BY <2>0, <3>1, Zenon DEF ScanPlaces
    <3> QED BY <2>3, <3>1, <3>2, <3>3, Zenon
  <2>5. ASSUME NEW w \in Workers, NEW s \in scan[w], HandlerStep(w, s) PROVE PlacesOK'
    <3>1. tx' = tx /\ \A v \in Workers \ {w} : scan'[v] = scan[v]
      BY <2>0, <2>5, HandlerDoes, Zenon DEF Shifts, HandlerEffect
    <3> QED BY <2>3, <2>5, <3>1, <1>HandlerPlaces, Zenon
  <2> QED BY <2>1, <2>2, <2>4, <2>5, NextCases, Zenon

<1> QED BY <1>All, Zenon

\* Every step keeps StoreInv: what the steps have in common, then the steps of a
\* request, a purge and the workers.
LEMMA StoreNext == PhaseInv /\ QueueInv /\ StoreInv /\ Exclusive /\ [Next]_vars => StoreInv'

<1>HomeAndAway. ASSUME NEW c \in Contents, NEW d \in Contents
                PROVE  /\ Home(c)[1] = "home" /\ Home(c)[2] = c /\ Away(c)[1] = "quarantine" /\ Away(c)[2] = c
                       /\ Home(c) # Away(d) /\ (Home(c) = Home(d) => c = d) /\ (Away(c) = Away(d) => c = d)
  BY <1>HomeAndAway DEF Home, Away

<1>PathCases. ASSUME NEW path \in Paths
              PROVE  /\ path[2] \in Contents
                     /\ path = Home(path[2]) \/ path = Away(path[2])
                     /\ path[1] = "home" => path = Home(path[2])
  BY <1>PathCases DEF Home, Away, Paths, Places

<1>UsesIs. ASSUME Typed, NEW r \in Requests, NEW c \in Contents
           PROVE  Uses(r, c) <=> \E a \in tx[r].assets : a[1] = c
  <2> USE <1>UsesIs
  <2>1. ASSUME NEW i \in Ids, <<c, i>> \in tx[r].assets PROVE \E a \in tx[r].assets : a[1] = c
    <3>1. <<c, i>>[1] = c
      OBVIOUS
    <3> QED BY <2>1, <3>1, Zenon
  <2>2. ASSUME NEW a \in tx[r].assets, a[1] = c PROVE \E i \in Ids : <<c, i>> \in tx[r].assets
    <3>1. a \in Assets
      BY FieldsOf, Zenon DEF Fields
    <3> QED BY <2>2, <3>1, AssetParts, Zenon
  <2> QED BY <2>1, <2>2, Zenon DEF Uses

\* What a transaction uses, nobody deletes or moves.
<1>Alone. ASSUME NEW c, ~Overlap(c), NEW r \in Requests, Uses(r, c)
          PROVE  /\ ~Purged(c) /\ ~Cut(c) /\ ~MovedAway(c)
                 /\ \A w \in Workers : \A s \in scan[w] : ~(s.asset[1] = c /\ s.step = "infected")
  BY <1>Alone, Zenon DEF Overlap, Purged, Cut, MovedAway

<1>StoreFrame. ASSUME Typed, Typed', NEW c \in Contents, StoreOK(c), Stays(c), \A q \in Requests : Fewer(q, c)
               PROVE  UseOK(c)' /\ LinkOK(c)' /\ SafeOK(c)' /\ HomeOK(c)'
  <2> USE <1>StoreFrame
  <2>1. \A a \in Assets : a[1] = c => (HasRow(a)' <=> HasRow(a))
    BY Zenon DEF Stays, HasRow
  <2>2. HasFile(c)' <=> HasFile(c)
    BY Zenon DEF Stays, HasFile, Home, Away
  <2>3. (LinkedTo(c)' => LinkedTo(c)) /\ (Purged(c)' => Purged(c)) /\ (Cut(c)' => Cut(c))
    BY Zenon DEF Stays, Fewer, LinkedTo, Purged, Cut
  <2>4. ASSUME NEW q \in Requests, Uses(q, c)' PROVE Uses(q, c)
    <3>1. PICK i \in Ids : <<c, i>> \in tx'[q].assets
      BY <2>4, Zenon DEF Uses
    <3>2. <<c, i>>[1] = c
      OBVIOUS
    <3> QED BY <3>1, <3>2, Zenon DEF Fewer, Uses
  <2>5. UseOK(c)'
    <3> SUFFICES ASSUME NEW q \in Requests, NEW a \in tx'[q].assets, a[1] = c
                 PROVE  /\ c \in tx'[q].fresh \/ HasRow(a)'
                        /\ HasFile(c)' \/ \E s \in tx'[q].cur : s.asset = a
      BY Zenon DEF UseOK
    <3>1. a \in tx[q].assets /\ a \in Assets
      BY FieldsOf, Zenon DEF Fewer, Fields
    <3>2. /\ c \in tx[q].fresh \/ HasRow(a)
          /\ HasFile(c) \/ \E s \in tx[q].cur : s.asset = a
      BY <3>1, Zenon DEF StoreOK, UseOK
    <3> QED BY <2>1, <2>2, <3>1, <3>2, Zenon DEF Fewer
  <2>6. LinkOK(c)'
    BY <2>1, <2>2, Zenon DEF StoreOK, LinkOK, Stays
  <2>7. SafeOK(c)'
    <3>1. Away(c) \in files' <=> Away(c) \in files
      BY Zenon DEF Stays
    <3>2. row'[c].place = row[c].place /\ (MovedAway(c)' => MovedAway(c))
      BY Zenon DEF Stays
    <3> QED BY <2>3, <3>1, <3>2, Zenon DEF StoreOK, SafeOK, Away
  <2>8. HomeOK(c)'
    <3>1. /\ Home(c) \in files' <=> Home(c) \in files
          /\ row'[c].place = row[c].place /\ (MovedAway(c)' => MovedAway(c))
          /\ \A p \in Requests \union {Sweep} : \A s \in purge'[p] : s.asset[1] = c => s \in purge[p]
      BY Zenon DEF Stays
    <3> QED BY <2>4, <3>1, Zenon DEF StoreOK, HomeOK, Home, Away
  <2> QED BY <2>5, <2>6, <2>7, <2>8, Zenon

\* A step of the request r that leaves the store of c alone.
<1>RequestFrame. ASSUME Typed, Typed', NEW c \in Contents, StoreOK(c), NEW r \in Requests, Others(r), Stays(c), Fewer(r, c),
                        OrphanOK(c)', TrackOK(r, c)',
                        \A q \in Requests \ {r}, a \in Assets : <<q, a>> \in links => <<q, a>> \in links'
                 PROVE  StoreOK(c)'
  <2> USE <1>RequestFrame
  <2>1. ASSUME NEW q \in Requests \ {r} PROVE Fewer(q, c)
    BY Zenon DEF Fewer, Others
  <2>2. ASSUME NEW q \in Requests \ {r} PROVE TrackOK(q, c)'
    <3>1. tx'[q] = tx[q] /\ pc'[q] = pc[q] /\ TrackOK(q, c)
      BY Zenon DEF Others, StoreOK
    <3> QED BY <3>1, Zenon DEF TrackOK, Tracks, Uses, Home
  <2>3. UseOK(c)' /\ LinkOK(c)' /\ SafeOK(c)' /\ HomeOK(c)'
    BY <2>1, <1>StoreFrame, Zenon
  <2> QED BY <2>2, <2>3, Zenon DEF StoreOK

\* The other steps that leave the store of c and the sessions alone.
<1>OtherFrame. ASSUME Typed, Typed', NEW c \in Contents, StoreOK(c), Stays(c), tx' = tx, pc' = pc, links' = links,
                      left' = left
               PROVE  StoreOK(c)'
  <2> USE <1>OtherFrame
  <2>1. ASSUME NEW q \in Requests PROVE Fewer(q, c)
    BY Zenon DEF Fewer
  <2>2. ASSUME NEW q \in Requests PROVE TrackOK(q, c)'
    BY Zenon DEF StoreOK, TrackOK, Tracks, Uses, Home
  <2>3. UseOK(c)' /\ LinkOK(c)' /\ SafeOK(c)' /\ HomeOK(c)'
    BY <2>1, <1>StoreFrame, Zenon
  <2>4. OrphanOK(c)'
    BY Zenon DEF StoreOK, OrphanOK, Stays, Tracks, Home
  <2> QED BY <2>2, <2>3, <2>4, Zenon DEF StoreOK

<1>PairParts. \A x, y : <<x, y>>[1] = x /\ <<x, y>>[2] = y
  OBVIOUS

<1>TrackOthers. ASSUME NEW c, NEW r \in Requests, Others(r), NEW q \in Requests \ {r}, TrackOK(q, c),
                       \A a \in Assets : <<q, a>> \in links => <<q, a>> \in links'
                PROVE  TrackOK(q, c)'
  <2> USE <1>TrackOthers
  <2>1. tx'[q] = tx[q] /\ pc'[q] = pc[q]
    BY Zenon DEF Others
  <2> QED BY <2>1, Zenon DEF TrackOK, Tracks, Uses, Home

\* What a step leaves alone when the rows, the objects and their users stay.
<1>SameShelf. ASSUME NEW c \in Contents, StoreOK(c), row' = row, links' = links, purge' = purge, scan' = scan,
                     \A q \in Requests : tx'[q].cut = tx[q].cut,
                     HasFile(c) => HasFile(c)', Away(c) \in files => Away(c) \in files'
              PROVE  LinkOK(c)' /\ SafeOK(c)'
  <2> USE <1>SameShelf
  <2>1. LinkOK(c)'
    BY Zenon DEF StoreOK, LinkOK, HasRow
  <2>2. /\ LinkedTo(c)' <=> LinkedTo(c)
        /\ Purged(c)' <=> Purged(c)
        /\ Cut(c)' <=> Cut(c)
        /\ MovedAway(c)' <=> MovedAway(c)
    BY Zenon DEF LinkedTo, Purged, Cut, MovedAway
  <2>3. SafeOK(c)'
    BY <2>2, Zenon DEF StoreOK, SafeOK, Away
  <2> QED BY <2>1, <2>3, Zenon

<1>UpsertStore. ASSUME PhaseInv, QueueInv, PlacesOK, Typed', NEW c \in Contents, StoreOK(c),
                       NEW r \in Requests, NEW d \in Contents, Upsert(r, d)
                PROVE  StoreOK(c)'
  <2> USE <1>UpsertStore
  <2>0. /\ Typed /\ TypeRest /\ Phase(r) /\ RowPlaces /\ NoRowIsClear(c)
        /\ \A q \in Requests : Numbered(q)
    BY PlacesParts, Zenon DEF PhaseInv, FinalInv, QueueInv
  <2>1. row' = row /\ files' = files /\ links' = links /\ purge' = purge /\ scan' = scan /\ left' = left
    BY Zenon DEF Upsert, histVars
  <2>2. Upserted(r, d)
    BY <2>0, UpsertDoes, Zenon
  <2>3. /\ Others(r) /\ pc[r] \in {"idle", "open"} /\ \A q \in Requests : d \notin tx[q].held
        /\ tx'[r].trk = tx[r].trk /\ tx'[r].cut = tx[r].cut /\ tx'[r].after = tx[r].after
        /\ tx[r].assets \subseteq tx'[r].assets /\ tx[r].fresh \subseteq tx'[r].fresh
    BY <2>2, Zenon DEF Upserted, Refuses, Inserts, Reuses, Joins
  <2>4. \A q \in Requests : (Tracks(q, c) => Tracks(q, c)') /\ tx'[q].cut = tx[q].cut
    BY <2>3, Zenon DEF Others, Tracks, Home
  <2>5. OrphanOK(c)'
    BY <2>1, <2>4, Zenon DEF StoreOK, OrphanOK, Home
  <2>6. TrackOK(r, c)'
    <3> SUFFICES ASSUME Tracks(r, c)' PROVE tx'[r].after # "linked" /\ Uses(r, c)'
      BY Zenon DEF TrackOK
    <3>1. Tracks(r, c)
      BY <2>3, Zenon DEF Tracks, Home
    <3>2. pc[r] = "open"
      BY <2>0, <2>3, <3>1, Zenon DEF Phase, Tracks
    <3>3. Uses(r, c)
      BY <3>1, <3>2, Zenon DEF StoreOK, TrackOK
    <3>4. Uses(r, c)'
      BY <2>3, <3>3, Zenon DEF Uses
    <3> QED BY <2>0, <2>3, <3>2, <3>4, Zenon DEF Phase
  <2>7. CASE c # d
    <3>1. Stays(c)
      BY <2>1, Zenon DEF Stays, MovedAway
    <3>2. \A a \in tx'[r].assets : a[1] = c => a \in tx[r].assets
      BY <2>2, <2>7, Zenon DEF Upserted, Refuses, Inserts, Reuses, Joins
    <3>3. Fewer(r, c)
      BY <2>0, <2>3, <3>2, Zenon DEF Fewer, Phase
    <3> QED BY <2>0, <2>1, <2>3, <2>5, <2>6, <3>1, <3>3, <1>RequestFrame, Zenon
  <2>8. CASE c = d
    <3>1. \A q \in Requests : \A a \in tx[q].assets : a[1] # c
      BY <2>0, <2>3, <2>8, Zenon DEF Numbered
    <3>2. ASSUME NEW q \in Requests, NEW a \in tx'[q].assets, a[1] = c
          PROVE  q = r /\ (Inserts(r, c, a) \/ Reuses(r, c, a))
      <4>1. q = r
        BY <2>3, <3>1, <3>2, Zenon DEF Others
      <4> QED BY <2>2, <2>8, <3>1, <3>2, <4>1, Zenon DEF Upserted, Refuses, Inserts, Reuses, Joins
    <3>3. UseOK(c)'
      <4> SUFFICES ASSUME NEW q \in Requests, NEW a \in tx'[q].assets, a[1] = c
                   PROVE  (c \in tx'[q].fresh \/ HasRow(a)') /\ \E s \in tx'[q].cur : s.asset = a
        BY Zenon DEF UseOK
      <4>1. q = r /\ (Inserts(r, c, a) \/ Reuses(r, c, a))
        BY <3>2, Zenon
      <4>2. PICK place : tx'[r].cur = {[asset |-> a, place |-> place]}
        BY <4>1, Zenon DEF Inserts, Reuses, Joins
      <4>3. [asset |-> a, place |-> place].asset = a
        OBVIOUS
      <4>4. CASE Inserts(r, c, a)
        BY <4>1, <4>2, <4>3, <4>4, Zenon DEF Inserts
      <4>5. CASE Reuses(r, c, a)
        <5>1. HasRow(a)'
          BY <2>1, <4>5 DEF Reuses, AssetOf, HasRow
        <5> QED BY <4>1, <4>2, <4>3, <5>1, Zenon
      <4> QED BY <4>1, <4>4, <4>5, Zenon
    <3>4. ASSUME NEW q \in Requests, Uses(q, c)' PROVE row[c].place = "home"
      <4>1. PICK i \in Ids : <<c, i>> \in tx'[q].assets
        BY <3>4, Zenon DEF Uses
      <4>2. \E a : Inserts(r, c, a) \/ Reuses(r, c, a)
        BY <3>2, <4>1, <1>PairParts, Zenon
      <4>3. row[c].scan # "infected"
        BY <2>0, <4>2, Zenon DEF Inserts, Reuses, NoRowIsClear
      <4> QED BY <2>0, <4>3, CleanIsHome, Zenon
    <3>5. HomeOK(c)'
      <4>1. MovedAway(c)' <=> MovedAway(c)
        BY <2>1, Zenon DEF MovedAway
      <4> QED BY <2>1, <3>4, <4>1, Zenon DEF StoreOK, HomeOK, Home, Away
    <3>6. LinkOK(c)' /\ SafeOK(c)'
      <4>1. HasFile(c) => HasFile(c)'
        BY <2>1, Zenon DEF HasFile, Home, Away
      <4> QED BY <2>1, <2>4, <4>1, <1>SameShelf, Zenon
    <3>7. ASSUME NEW q \in Requests PROVE TrackOK(q, c)'
      BY <2>1, <2>3, <2>6, <1>TrackOthers, Zenon DEF StoreOK
    <3> QED BY <2>5, <3>3, <3>5, <3>6, <3>7, Zenon DEF StoreOK
  <2> QED BY <2>7, <2>8, Zenon

<1>SaveStore. ASSUME PhaseInv, PlacesOK, Typed', NEW c \in Contents, ~Overlap(c), StoreOK(c), NEW r \in Requests, Save(r)
              PROVE  StoreOK(c)'
  <2> USE <1>SaveStore
  <2>0. Typed /\ TypeRest /\ Phase(r) /\ TxPlaces(r)
    BY PlacesParts, Zenon DEF PhaseInv, FinalInv
  <2>1. row' = row /\ links' = links /\ purge' = purge /\ scan' = scan /\ left' = left
    BY Zenon DEF Save, histVars
  <2>2. PICK s \in tx[r].cur : Saved(r, s)
    BY <2>0, SaveDoes, Zenon
  <2> DEFINE d == s.asset[1]
  <2>3. /\ Others(r) /\ Keeps(r) /\ pc[r] = "saving" /\ tx'[r].cut = tx[r].cut /\ tx'[r].after = tx[r].after
        /\ s.asset \in Assets /\ d \in Contents /\ tx[r].cur = {s} /\ s.asset \in tx[r].assets
        /\ tx[r].after # "linked"
    BY <2>0, <2>2, AssetParts, Zenon DEF Saved, Phase
  <2>4. PathOf(s) = Home(d)
    BY <2>0, Zenon DEF PathOf, Home, TxPlaces
  <2>5. /\ \/ files' = files \union {Home(d)} /\ tx'[r].trk = tx[r].trk \union {Home(d)}
           \/ files' = files /\ tx'[r].trk = tx[r].trk
        /\ Home(d) \in files'
    BY <2>2, <2>4, Zenon DEF Saved, Writes
  <2> HIDE DEF d
  <2>6. Uses(r, d)
    BY <2>0, <2>3, <1>UsesIs, Zenon DEF d
  <2>7. Home(c) = Home(d) => c = d
    BY <2>3, <1>HomeAndAway, Zenon
  <2>8. TrackOK(r, c)'
    <3> SUFFICES ASSUME Tracks(r, c)' PROVE Uses(r, c)'
      BY <2>3, Zenon DEF TrackOK
    <3>1. Tracks(r, c) \/ c = d
      BY <2>3, <2>5, <2>7, Zenon DEF Tracks, Home
    <3>2. Uses(r, c)
      BY <2>3, <2>6, <3>1, Zenon DEF StoreOK, TrackOK
    <3> QED BY <2>3, <3>2, Zenon DEF Uses, Keeps
  <2>9. OrphanOK(c)'
    <3> SUFFICES ASSUME Home(c) \in files', row[c].id = 0, c \notin left PROVE \E q \in Requests : Tracks(q, c)'
      BY <2>1, Zenon DEF OrphanOK, Home
    <3>1. ASSUME NEW q \in Requests, Tracks(q, c) PROVE Tracks(q, c)'
      BY <2>3, <2>5, <3>1, Zenon DEF Tracks, Others, Home
    <3>2. CASE Home(c) \in files
      BY <3>1, <3>2, Zenon DEF StoreOK, OrphanOK
    <3>3. CASE Home(c) \notin files
      BY <2>5, <3>3, Zenon DEF Tracks, Home
    <3> QED BY <3>2, <3>3, Zenon
  <2>10. CASE c # d
    <3>1. Stays(c)
      <4>1. Home(c) # Home(d) /\ Away(c) # Home(d)
        BY <2>3, <2>7, <2>10, <1>HomeAndAway, Zenon
      <4> QED BY <2>1, <2>5, <4>1, Zenon DEF Stays, MovedAway
    <3>2. Fewer(r, c)
      BY <2>3, <2>10, Zenon DEF Fewer, Keeps, d
    <3> QED BY <2>0, <2>1, <2>3, <2>8, <2>9, <3>1, <3>2, <1>RequestFrame, Zenon
  <2>11. CASE c = d
    <3>1. HasFile(c)' /\ Uses(r, c)
      BY <2>5, <2>6, <2>11, Zenon DEF HasFile, Home
    <3>2. ~Purged(c) /\ ~MovedAway(c) /\ row[c].place = "home"
      BY <3>1, <1>Alone, Zenon DEF StoreOK, HomeOK
    <3>3. \A q \in Requests : /\ tx'[q].assets = tx[q].assets /\ tx'[q].fresh = tx[q].fresh
                              /\ tx'[q].cut = tx[q].cut
      BY <2>3, Zenon DEF Others, Keeps
    <3>4. UseOK(c)'
      BY <2>1, <3>1, <3>3, Zenon DEF StoreOK, UseOK, HasRow
    <3>5. LinkOK(c)' /\ SafeOK(c)'
      <4>1. Away(c) \in files => Away(c) \in files'
        BY <2>5, Zenon
      <4> QED BY <2>1, <3>1, <3>3, <4>1, <1>SameShelf, Zenon
    <3>6. HomeOK(c)'
      <4>1. ~Purged(c)' /\ ~MovedAway(c)'
        BY <2>1, <3>2, Zenon DEF Purged, MovedAway
      <4>2. row'[c].place = "home"
        BY <2>1, <3>2, Zenon
      <4> QED BY <4>1, <4>2, Zenon DEF HomeOK, Purged
    <3>7. ASSUME NEW q \in Requests PROVE TrackOK(q, c)'
      BY <2>1, <2>3, <2>8, <1>TrackOthers, Zenon DEF StoreOK
    <3> QED BY <2>9, <3>4, <3>5, <3>6, <3>7, Zenon DEF StoreOK
  <2> QED BY <2>10, <2>11, Zenon

<1>CommitStore. ASSUME PhaseInv, QueueInv, PlacesOK, Typed', NEW c \in Contents, ~Overlap(c), StoreOK(c),
                       NEW r \in Requests, Commit(r)
                PROVE  StoreOK(c)'
  <2> USE <1>CommitStore
  <2>0. /\ Typed /\ TypeRest /\ Phase(r) /\ Numbered(r) /\ Holds(r) /\ RowPlaces /\ NoRowIsClear(c)
        /\ tx[r].assets \subseteq Assets
    BY PlacesParts, FieldsOf, Zenon DEF PhaseInv, FinalInv, QueueInv, Fields
  <2>1. files' = files /\ purge' = purge /\ scan' = scan /\ left' = left
    BY Zenon DEF Commit, histVars
  <2>2. /\ pc[r] = "open" /\ pc'[r] \in {"cleaning", "hooks"} /\ Over(r) /\ Others(r)
        /\ tx'[r].trk = tx[r].trk /\ tx'[r].after = "linked" /\ tx[r].cur = {} /\ tx[r].cut = {}
    BY <2>0, CommitDoes, Zenon DEF Over, Phase, Committed
  <2>3. \A q \in Requests, a \in Assets : <<q, a>> \in links' <=> <<q, a>> \in links \/ (q = r /\ a \in tx[r].assets)
    <3>1. links' = links \union ({r} \X tx[r].assets)
      BY Zenon DEF Commit
    <3> QED BY <3>1
  <2>4. ASSUME c \in tx[r].fresh
        PROVE  /\ \A a \in Assets : a[1] = c => ~HasRow(a)
               /\ row'[c].id # 0 /\ row'[c].place = "home" /\ row[c].place = "home"
               /\ \A q \in Requests \ {r} : ~Uses(q, c)
    <3>1. PICK i \in Ids : <<c, i>> \in tx[r].assets
      BY <2>0, <2>4, Zenon DEF Holds
    <3>2. row'[c].id = i /\ row'[c].place = "home"
      BY <2>0, <2>4, <3>1, <1>PairParts, FreshRow
    <3>3. row[c].id = 0 /\ c \in tx[r].held
      BY <2>0, <2>4, Zenon DEF Holds
    <3>4. \A j \in Ids : j # 0
      BY ConstantsAssumption DEF Ids
    <3>5. \A a \in Assets : a[1] = c => ~HasRow(a)
      BY <3>3, <3>4, AssetParts, Zenon DEF HasRow
    <3>6. row[c].place = "home"
      BY <2>0, <3>3, CleanIsHome, Zenon DEF NoRowIsClear
    <3>7. ASSUME NEW q \in Requests \ {r}, NEW j \in Ids, <<c, j>> \in tx[q].assets PROVE FALSE
      <4>1. c \in tx[q].held
        BY <3>7, <1>PairParts, Zenon DEF QueueInv, Numbered
      <4> QED BY <3>3, <4>1, Zenon DEF PhaseInv, FinalInv, OneHolder
    <3> QED BY <3>2, <3>4, <3>5, <3>6, <3>7, Zenon DEF Uses
  <2>5. row'[c].place = row[c].place
    BY <2>0, <2>4, OldRow, Zenon
  <2>6. ASSUME NEW a \in Assets, a[1] = c, HasRow(a) PROVE HasRow(a)' /\ c \notin tx[r].fresh
    BY <2>0, <2>4, <2>6, OldRow, Zenon DEF HasRow
  <2>7. ASSUME NEW a \in tx[r].assets, a[1] = c PROVE HasRow(a)' /\ HasFile(c) /\ Uses(r, c)
    <3>1. (c \in tx[r].fresh \/ HasRow(a)) /\ HasFile(c) /\ a \in Assets
      BY <2>0, <2>2, <2>7, Zenon DEF StoreOK, UseOK
    <3>2. c \in tx[r].fresh => HasRow(a)'
      BY <2>0, <2>7, FreshRow, Zenon DEF HasRow
    <3> QED BY <2>0, <2>6, <2>7, <3>1, <3>2, <1>UsesIs, Zenon
  <2>8. HasFile(c)' <=> HasFile(c)
    BY <2>1, Zenon DEF HasFile, Home, Away
  <2>9. UseOK(c)'
    <3> SUFFICES ASSUME NEW q \in Requests, NEW a \in tx'[q].assets, a[1] = c
                 PROVE  /\ c \in tx'[q].fresh \/ HasRow(a)'
                        /\ HasFile(c)' \/ \E s \in tx'[q].cur : s.asset = a
      BY Zenon DEF UseOK
    <3>1. q # r /\ tx'[q] = tx[q] /\ a \in Assets
      BY <2>0, <2>2, FieldsOf, Zenon DEF Over, Others, Fields
    <3>2. /\ c \in tx[q].fresh \/ HasRow(a)
          /\ HasFile(c) \/ \E s \in tx[q].cur : s.asset = a
      BY <3>1, Zenon DEF StoreOK, UseOK
    <3> QED BY <2>6, <2>8, <3>1, <3>2, Zenon
  <2>10. LinkOK(c)'
    BY <2>3, <2>6, <2>7, <2>8, Zenon DEF StoreOK, LinkOK
  <2>11. /\ Purged(c)' <=> Purged(c)
         /\ MovedAway(c)' <=> MovedAway(c)
         /\ Cut(c)' => Cut(c)
    BY <2>1, <2>2, Zenon DEF Purged, MovedAway, Cut, Over, Others
  <2>12. SafeOK(c)'
    <3>1. CASE LinkedTo(c)
      BY <2>1, <2>5, <2>11, <3>1, Zenon DEF StoreOK, SafeOK, Away
    <3>2. CASE Uses(r, c)
      <4>1. ~Purged(c) /\ ~Cut(c) /\ ~MovedAway(c) /\ row[c].place = "home"
        BY <3>2, <1>Alone, Zenon DEF StoreOK, HomeOK
      <4> QED BY <2>5, <2>11, <4>1, Zenon DEF SafeOK
    <3>3. LinkedTo(c)' => LinkedTo(c) \/ Uses(r, c)
      BY <2>3, <2>7, Zenon DEF LinkedTo
    <3> QED BY <3>1, <3>2, <3>3, Zenon DEF SafeOK
  <2>13. HomeOK(c)'
    <3>1. ASSUME NEW q \in Requests, Uses(q, c)' PROVE Uses(q, c)
      BY <2>2, <3>1, Zenon DEF Uses, Over, Others
    <3> QED BY <2>1, <2>5, <2>11, <3>1, Zenon DEF StoreOK, HomeOK, Home, Away
  <2>14. \A q \in Requests : Tracks(q, c)' <=> Tracks(q, c)
    BY <2>2, Zenon DEF Tracks, Over, Others, Home
  <2>15. OrphanOK(c)'
    <3>1. row'[c].id = 0 => row[c].id = 0
      BY <2>0, <2>4, OldRow, Zenon
    <3> QED BY <2>1, <2>14, <3>1, Zenon DEF StoreOK, OrphanOK, Home
  <2>16. TrackOK(r, c)'
    <3> SUFFICES ASSUME Tracks(r, c)' PROVE \E a \in Assets : <<r, a>> \in links' /\ a[1] = c
      BY <2>2, Zenon DEF TrackOK
    <3>1. Uses(r, c)
      BY <2>2, <2>14, Zenon DEF StoreOK, TrackOK
    <3> QED BY <2>0, <2>3, <3>1, <1>UsesIs, Zenon
  <2>17. ASSUME NEW q \in Requests PROVE TrackOK(q, c)'
    BY <2>2, <2>3, <2>16, <1>TrackOthers, Zenon DEF StoreOK
  <2> QED BY <2>9, <2>10, <2>12, <2>13, <2>15, <2>17, Zenon DEF StoreOK

\* A session whose transaction is over.
<1>OverFewer. ASSUME NEW r \in Requests, Over(r), NEW c
              PROVE  Fewer(r, c)
  BY <1>OverFewer, Zenon DEF Over, Fewer

<1>CrashStore. ASSUME PhaseInv, PlacesOK, Typed', NEW c \in Contents, StoreOK(c), NEW r \in Requests, Crash(r)
               PROVE  StoreOK(c)'
  <2> USE <1>CrashStore
  <2>0. Typed /\ TypeRest /\ Phase(r) /\ TxPlaces(r)
    BY PlacesParts, Zenon DEF PhaseInv, FinalInv
  <2>1. row' = row /\ files' = files /\ links' = links /\ purge' = purge /\ scan' = scan
    BY Zenon DEF Crash, storeVars
  <2>2. Over(r) /\ Others(r) /\ tx'[r].trk = {} /\ tx'[r].cut = {}
    BY <2>0, CrashDoes, Zenon DEF Over, Crashed
  <2>3. ASSUME Tracks(r, c), row[c].id = 0 PROVE c \in left'
    <3>1. tx[r].after # "linked"
      <4> SUFFICES ASSUME tx[r].after = "linked" PROVE FALSE
        OBVIOUS
      <4>1. PICK a \in Assets : <<r, a>> \in links /\ a[1] = c
        BY <2>3, Zenon DEF StoreOK, TrackOK
      <4>2. row[c].id = a[2] /\ a[2] \in Ids
        BY <4>1, AssetParts, Zenon DEF StoreOK, LinkOK, HasRow
      <4> QED BY <2>3, <4>2, ConstantsAssumption DEF Ids
    <3>2. pc[r] # "hooks"
      BY <2>0, <3>1, Zenon DEF Phase
    <3>3. left' = left \union {path[2] : path \in tx[r].trk \union tx[r].cut}
      BY <3>1, <3>2, Zenon DEF Crash
    <3>4. Home(c) \in tx[r].trk \union tx[r].cut /\ Home(c)[2] = c
      BY <2>3, <1>HomeAndAway, Zenon DEF Tracks
    <3> QED BY <3>3, <3>4
  <2>4. left \subseteq left'
    BY Zenon DEF Crash
  <2>5. OrphanOK(c)'
    <3> SUFFICES ASSUME Home(c) \in files, row[c].id = 0, c \notin left' PROVE \E q \in Requests : Tracks(q, c)'
      BY <2>1, Zenon DEF OrphanOK, Home
    <3>1. PICK q \in Requests : Tracks(q, c)
      BY <2>4, Zenon DEF StoreOK, OrphanOK
    <3>2. q # r
      BY <2>3, <3>1, Zenon
    <3> QED BY <2>2, <3>1, <3>2, Zenon DEF Tracks, Others, Home
  <2>6. TrackOK(r, c)'
    BY <2>2, Zenon DEF TrackOK, Tracks
  <2>7. Stays(c)
    BY <2>1, Zenon DEF Stays, MovedAway
  <2> QED BY <2>0, <2>1, <2>2, <2>5, <2>6, <2>7, <1>OverFewer, <1>RequestFrame, Zenon

\* The steps of r that touch neither rows nor objects.
<1>QuietStore. ASSUME Typed, Typed', NEW c \in Contents, StoreOK(c), NEW r \in Requests, Others(r),
                      row' = row, files' = files, purge' = purge, scan' = scan, left' = left, links' \subseteq links,
                      \A q \in Requests \ {r}, a \in Assets : <<q, a>> \in links => <<q, a>> \in links',
                      Fewer(r, c), Tracks(r, c) => Tracks(r, c)' \/ row[c].id # 0, TrackOK(r, c)'
               PROVE  StoreOK(c)'
  <2> USE <1>QuietStore
  <2>1. Stays(c)
    BY Zenon DEF Stays, MovedAway
  <2>2. ASSUME NEW q \in Requests \ {r}, Tracks(q, c) PROVE Tracks(q, c)'
    BY <2>2, Zenon DEF Tracks, Others, Home
  <2>3. OrphanOK(c)'
    BY <2>2, Zenon DEF StoreOK, OrphanOK, Home
  <2> QED BY <2>1, <2>3, <1>RequestFrame, Zenon

<1>EndStore. ASSUME PhaseInv, Typed', NEW c \in Contents, StoreOK(c), NEW r \in Requests,
                    \/ Rollback(r) \/ Unlink(r) \/ SavepointFails(r) \/ CleanEnd(r)
                    \/ \E a \in Assets : EnqueueScan(r, a)
             PROVE  StoreOK(c)'
  <2> USE <1>EndStore
  <2>0. Typed /\ TypeRest /\ Phase(r) /\ TrackOK(r, c)
    BY Zenon DEF PhaseInv, FinalInv, StoreOK
  <2>1. row' = row /\ files' = files /\ purge' = purge /\ scan' = scan /\ left' = left
    BY Zenon DEF Rollback, Unlink, SavepointFails, CleanEnd, EnqueueScan, storeVars, histVars
  <2>2. ~Unlink(r) => links' = links
    BY Zenon DEF Rollback, SavepointFails, CleanEnd, EnqueueScan, storeVars
  <2>3. CASE Rollback(r)
    <3>1. /\ Over(r) /\ Others(r) /\ tx'[r].trk = tx[r].trk /\ tx'[r].cut = tx[r].cut
          /\ pc'[r] = "cleaning" /\ tx'[r].after = "done"
      BY <2>0, <2>3, RollbackDoes, Zenon DEF Over, Phase, RolledBack
    <3>2. links' = links
      BY <2>3, Zenon DEF Rollback, storeVars
    <3>3. Tracks(r, c) => Tracks(r, c)'
      BY <3>1, Zenon DEF Tracks, Home
    <3>4. TrackOK(r, c)'
      BY <3>1, Zenon DEF TrackOK
    <3> QED BY <2>0, <2>1, <3>1, <3>2, <3>3, <3>4, <1>OverFewer, <1>QuietStore, Zenon
  <2>4. CASE Unlink(r)
    <3>1. links' = {l \in links : l[1] # r} /\ pc[r] = "linked" /\ ToPurge(r, {a \in Assets : <<r, a>> \in links})
      BY <2>4, Zenon DEF Unlink
    <3>2. Over(r) /\ Others(r) /\ tx'[r].trk = {} /\ tx'[r].cut = {} /\ tx[r].trk = {} /\ tx[r].cut = {}
      BY <2>0, <3>1, ToPurgeDoes, Zenon DEF Over, Phase, Drops
    <3>3. /\ links' \subseteq links
          /\ \A q \in Requests \ {r}, a \in Assets : <<q, a>> \in links => <<q, a>> \in links'
      BY <3>1
    <3>4. ~Tracks(r, c) /\ TrackOK(r, c)'
      BY <3>2, Zenon DEF Tracks, TrackOK
    <3> QED BY <2>0, <2>1, <3>2, <3>3, <3>4, <1>OverFewer, <1>QuietStore, Zenon
  <2>5. CASE SavepointFails(r) \/ \E a \in Assets : EnqueueScan(r, a)
    <3>1. /\ Others(r) /\ Keeps(r) /\ tx'[r].cur = tx[r].cur /\ tx'[r].trk = tx[r].trk /\ tx'[r].cut = tx[r].cut
          /\ \/ pc[r] = "open" /\ pc'[r] = "cleaning" /\ tx'[r].after = "open"
             \/ pc'[r] \in {"cleaning", "hooks"} /\ tx'[r].after = tx[r].after
      BY <2>0, <2>5, SavepointDoes, EnqueueDoes, Zenon DEF Enqueued, SavepointUndone
    <3>2. links' = links
      BY <2>5, Zenon DEF SavepointFails, EnqueueScan, storeVars
    <3>3. Fewer(r, c) /\ (Tracks(r, c) <=> Tracks(r, c)') /\ (Uses(r, c) => Uses(r, c)')
      BY <3>1, Zenon DEF Fewer, Keeps, Tracks, Uses, Home
    <3>4. TrackOK(r, c)'
      BY <2>0, <3>1, <3>2, <3>3, Zenon DEF TrackOK
    <3> QED BY <2>0, <2>1, <3>1, <3>2, <3>3, <3>4, <1>QuietStore, Zenon
  <2>6. CASE CleanEnd(r)
    <3>1. tx' = tx /\ links' = links /\ ~Tracks(r, c)
      BY <2>6, Zenon DEF CleanEnd, storeVars, Tracks
    <3>2. Others(r)
      BY <2>0, <2>6, RequestPhase, Zenon DEF RequestStep
    <3>3. Fewer(r, c) /\ TrackOK(r, c)'
      BY <3>1, Zenon DEF Fewer, TrackOK, Tracks, Home
    <3> QED BY <2>0, <2>1, <3>1, <3>2, <3>3, <1>QuietStore, Zenon
  <2> QED BY <2>3, <2>4, <2>5, <2>6, Zenon

<1>CleanCheckStore. ASSUME PhaseInv, PlacesOK, Typed', NEW c \in Contents, StoreOK(c),
                           NEW r \in Requests, NEW path \in Paths, CleanCheck(r, path)
                    PROVE  StoreOK(c)'
  <2> USE <1>CleanCheckStore
  <2>0. Typed /\ TypeRest /\ TxPlaces(r) /\ TrackOK(r, c)
    BY PlacesParts, Zenon DEF PhaseInv, FinalInv, StoreOK
  <2>1. row' = row /\ files' = files /\ purge' = purge /\ scan' = scan /\ left' = left /\ links' = links
    BY Zenon DEF CleanCheck, storeVars, histVars
  <2> DEFINE cut == IF RowHas(path) THEN {} ELSE {path}
  <2>2. Cleans(r, tx[r].trk \ {path}, cut) /\ path \in tx[r].trk /\ tx[r].cut = {}
    BY <2>0, CleanCheckDoes, Zenon
  <2>3. /\ Others(r) /\ Keeps(r) /\ tx'[r].cur = tx[r].cur /\ tx'[r].after = tx[r].after /\ pc' = pc
        /\ tx'[r].trk = tx[r].trk \ {path} /\ tx'[r].cut = cut
    BY <2>2, Zenon DEF Cleans
  <2>4. path[1] = "home" /\ path = Home(path[2]) /\ path[2] \in Contents
    BY <2>0, <2>2, <1>PathCases, Zenon DEF TxPlaces
  <2>5. (Uses(r, c) => Uses(r, c)') /\ (Tracks(r, c)' => Tracks(r, c))
    BY <2>2, <2>3, Zenon DEF Uses, Keeps, Tracks, Home
  <2>6. TrackOK(r, c)'
    BY <2>0, <2>1, <2>3, <2>5, Zenon DEF TrackOK
  <2>7. CASE path[2] # c \/ RowHas(path)
    <3>1. Home(c) # path \/ RowHas(path)
      BY <2>4, <2>7, <1>HomeAndAway, Zenon
    <3>2. Tracks(r, c) => Tracks(r, c)' \/ row[c].id # 0
      <4>1. CASE Home(c) # path
        BY <2>2, <2>3, <4>1, Zenon DEF Tracks, Home
      <4>2. CASE Home(c) = path /\ RowHas(path)
        BY <4>2, <1>HomeAndAway, Zenon DEF RowHas
      <4> QED BY <3>1, <4>1, <4>2, Zenon
    <3>3. Fewer(r, c)
      BY <2>3, <2>7, Zenon DEF Fewer, Keeps
    <3> QED BY <2>0, <2>1, <2>3, <2>6, <3>2, <3>3, <1>QuietStore, Zenon
  <2>8. CASE path[2] = c /\ ~RowHas(path)
    <3>1. Tracks(r, c)'
      BY <2>3, <2>4, <2>8, Zenon DEF Tracks, Home
    <3>2. OrphanOK(c)'
      BY <3>1, Zenon DEF OrphanOK
    <3>3. \A q \in Requests : /\ tx'[q].assets = tx[q].assets /\ tx'[q].fresh = tx[q].fresh
                              /\ tx'[q].cur = tx[q].cur
      BY <2>3, Zenon DEF Others, Keeps
    <3>4. (HasFile(c)' <=> HasFile(c)) /\ \A a : HasRow(a)' <=> HasRow(a)
      BY <2>1, Zenon DEF HasFile, Home, Away, HasRow
    <3>5. UseOK(c)' /\ LinkOK(c)'
      <4>1. UseOK(c)'
        <5> SUFFICES ASSUME NEW q \in Requests, NEW a \in tx'[q].assets, a[1] = c
                     PROVE  /\ c \in tx'[q].fresh \/ HasRow(a)'
                            /\ HasFile(c)' \/ \E s \in tx'[q].cur : s.asset = a
          BY Zenon DEF UseOK
        <5>1. /\ c \in tx[q].fresh \/ HasRow(a)
              /\ HasFile(c) \/ \E s \in tx[q].cur : s.asset = a
          BY <3>3, Zenon DEF StoreOK, UseOK
        <5> QED BY <3>3, <3>4, <5>1, Zenon
      <4>2. LinkOK(c)'
        BY <2>1, <3>4, Zenon DEF StoreOK, LinkOK
      <4> QED BY <4>1, <4>2, Zenon
    <3>6. /\ Purged(c)' <=> Purged(c)
          /\ MovedAway(c)' <=> MovedAway(c)
          /\ LinkedTo(c)' <=> LinkedTo(c)
      BY <2>1, Zenon DEF Purged, MovedAway, LinkedTo
    <3>7. HomeOK(c)'
      BY <2>1, <3>3, <3>6, Zenon DEF StoreOK, HomeOK, Uses, Home, Away
    <3>8. ASSUME LinkedTo(c) PROVE Away(c) \in files
      <4>1. PICK q \in Requests, a \in Assets : <<q, a>> \in links /\ a[1] = c
        BY <3>8, Zenon DEF LinkedTo
      <4>2. row[c].id = a[2] /\ a[2] \in Ids
        BY <4>1, AssetParts, Zenon DEF StoreOK, LinkOK, HasRow
      <4>3. row[c].id # 0
        BY <4>2, ConstantsAssumption DEF Ids
      <4>4. row[c].place # "home" /\ row[c].place \in Places
        BY <2>0, <2>4, <2>8, <4>3, Zenon DEF RowHas, Typed, RowType
      <4> QED BY <3>8, <4>4, Zenon DEF StoreOK, SafeOK, Places
    <3>9. SafeOK(c)'
      BY <2>1, <3>6, <3>8, Zenon DEF StoreOK, SafeOK, Away
    <3>10. ASSUME NEW q \in Requests PROVE TrackOK(q, c)'
      BY <2>1, <2>3, <2>6, <1>TrackOthers, Zenon DEF StoreOK
    <3> QED BY <3>2, <3>5, <3>7, <3>9, <3>10, Zenon DEF StoreOK
  <2> QED BY <2>7, <2>8, Zenon

<1>CleanDeleteStore. ASSUME PhaseInv, PlacesOK, Typed', NEW c \in Contents, ~Overlap(c), StoreOK(c),
                            NEW r \in Requests, NEW path \in Paths, CleanDelete(r, path)
                     PROVE  StoreOK(c)'
  <2> USE <1>CleanDeleteStore
  <2>0. Typed /\ TypeRest /\ Phase(r) /\ TxPlaces(r) /\ TrackOK(r, c)
    BY PlacesParts, Zenon DEF PhaseInv, FinalInv, StoreOK
  <2>1. /\ row' = row /\ purge' = purge /\ scan' = scan /\ links' = links
        /\ (files' = files \ {path} /\ left' = left) \/ (files' = files /\ left' = left \union {path[2]})
    BY Zenon DEF CleanDelete
  <2>2. Cleans(r, tx[r].trk, {}) /\ path \in tx[r].cut
    BY <2>0, CleanDeleteDoes, Zenon
  <2>3. /\ Others(r) /\ Keeps(r) /\ tx'[r].cur = tx[r].cur /\ tx'[r].after = tx[r].after /\ pc' = pc
        /\ tx'[r].trk = tx[r].trk /\ tx'[r].cut = {} /\ \A x \in tx[r].cut : x = path
    BY <2>0, <2>2, Zenon DEF Cleans, Phase
  <2>4. path[1] = "home" /\ path = Home(path[2]) /\ path[2] \in Contents
    BY <2>0, <2>2, <1>PathCases, Zenon DEF TxPlaces
  <2>5. (Uses(r, c) => Uses(r, c)') /\ (Tracks(r, c)' => Tracks(r, c))
    BY <2>3, Zenon DEF Uses, Keeps, Tracks, Home
  <2>6. TrackOK(r, c)'
    BY <2>0, <2>1, <2>3, <2>5, Zenon DEF TrackOK
  <2>7. CASE path[2] # c \/ files' = files
    <3>1. Stays(c)
      <4>1. path[2] # c => Home(c) # path /\ Away(c) # path
        BY <2>4, <1>HomeAndAway, Zenon
      <4>2. (Home(c) \in files' <=> Home(c) \in files) /\ (Away(c) \in files' <=> Away(c) \in files)
        BY <2>1, <2>7, <4>1, Zenon
      <4> QED BY <2>1, <4>2, Zenon DEF Stays, MovedAway
    <3>2. Fewer(r, c)
      BY <2>3, Zenon DEF Fewer, Keeps
    <3>3. OrphanOK(c)'
      <4> SUFFICES ASSUME Home(c) \in files', row[c].id = 0, c \notin left' PROVE \E q \in Requests : Tracks(q, c)'
        BY <2>1, Zenon DEF OrphanOK, Home
      <4>1. Home(c) \in files /\ c \notin left
        BY <2>1, Zenon
      <4>2. PICK q \in Requests : Tracks(q, c)
        BY <4>1, Zenon DEF StoreOK, OrphanOK
      <4>3. Home(c) # path
        <5>1. CASE path[2] # c
          BY <2>4, <5>1, <1>HomeAndAway, Zenon
        <5>2. CASE files' = files \ {path}
          BY <5>2, Zenon
        <5> QED BY <2>1, <5>1, <5>2, Zenon
      <4>4. Tracks(q, c)'
        BY <2>3, <4>2, <4>3, Zenon DEF Tracks, Others, Home
      <4> QED BY <4>4, Zenon
    <3> QED BY <2>0, <2>1, <2>3, <2>6, <3>1, <3>2, <3>3, <1>RequestFrame, Zenon
  <2>8. CASE path[2] = c /\ files' # files
    <3>1. Home(c) \notin files' /\ (Away(c) \in files => Away(c) \in files')
      <4>1. path = Home(c) /\ Home(c) # Away(c)
        BY <2>4, <2>8, <1>HomeAndAway, Zenon
      <4> QED BY <2>1, <2>8, <4>1, Zenon
    <3>2. Cut(c) /\ \A q \in Requests : ~Uses(q, c)
      BY <2>2, <2>8, Zenon DEF Cut, Overlap
    <3>3. ASSUME NEW q \in Requests, NEW a \in tx'[q].assets PROVE a[1] # c
      <4>1. tx'[q].assets = tx[q].assets
        BY <2>3, Zenon DEF Others, Keeps
      <4> QED BY <2>0, <3>2, <4>1, <1>UsesIs, Zenon
    <3>4. UseOK(c)'
      BY <3>3, Zenon DEF UseOK
    <3>5. LinkedTo(c) => ~Purged(c) /\ Away(c) \in files'
      BY <3>1, <3>2, Zenon DEF StoreOK, SafeOK
    <3>6. /\ Purged(c)' <=> Purged(c)
          /\ LinkedTo(c)' <=> LinkedTo(c)
      BY <2>1, Zenon DEF Purged, LinkedTo
    <3>7. SafeOK(c)'
      BY <3>5, <3>6, Zenon DEF SafeOK, Away
    <3>8. LinkOK(c)'
      BY <2>1, <3>5, Zenon DEF StoreOK, LinkOK, LinkedTo, HasFile, HasRow, Away
    <3>9. HomeOK(c)'
      BY <3>1, <3>3, <1>PairParts, Zenon DEF HomeOK, Home, Uses
    <3>10. OrphanOK(c)'
      BY <3>1, Zenon DEF OrphanOK, Home
    <3>11. ASSUME NEW q \in Requests PROVE TrackOK(q, c)'
      BY <2>1, <2>3, <2>6, <1>TrackOthers, Zenon DEF StoreOK
    <3> QED BY <3>4, <3>7, <3>8, <3>9, <3>10, <3>11, Zenon DEF StoreOK
  <2> QED BY <2>7, <2>8, Zenon

<1>RequestStore. ASSUME PhaseInv, QueueInv, PlacesOK, Typed', NEW c \in Contents, ~Overlap(c), StoreOK(c),
                        NEW r \in Requests, RequestStep(r)
                 PROVE  StoreOK(c)'
  BY <1>RequestStore, <1>UpsertStore, <1>SaveStore, <1>CommitStore, <1>EndStore, <1>CrashStore,
     <1>CleanCheckStore, <1>CleanDeleteStore, Zenon
     DEF RequestStep

\* The session of a purger has nothing that the store could miss.
<1>PurgerQuiet. ASSUME PhaseInv, Typed', NEW c \in Contents, NEW p \in Requests \union {Sweep},
                       (p # Sweep => pc[p] = "purging"), NEW a, Purges(p, a)
                PROVE  /\ \A q \in Requests : Fewer(q, c) /\ (Tracks(q, c)' <=> Tracks(q, c))
                       /\ \A q \in Requests : TrackOK(q, c) /\ links' = links => TrackOK(q, c)'
  <2> USE <1>PurgerQuiet
  <2>1. CASE tx' = tx /\ pc' = pc
    BY <2>1, Zenon DEF Fewer, Tracks, TrackOK, Uses, Home
  <2>2. CASE p \in Requests /\ Over(p) /\ tx'[p].trk = {}
    <3>0. p # Sweep /\ Phase(p)
      BY <2>2, ConstantsAssumption, Zenon DEF PhaseInv
    <3>1. tx[p].trk = {} /\ tx[p].cut = {} /\ tx'[p].cut = {}
      BY <2>2, <3>0, Zenon DEF Phase, Over
    <3>2. (Tracks(p, c)' <=> Tracks(p, c)) /\ TrackOK(p, c)'
      BY <2>2, <3>1, Zenon DEF Tracks, TrackOK
    <3>3. ASSUME NEW q \in Requests \ {p} PROVE Fewer(q, c) /\ (Tracks(q, c)' <=> Tracks(q, c))
      BY <2>2, Zenon DEF Over, Others, Fewer, Tracks, Home
    <3>4. Others(p)
      BY <2>2, Zenon DEF Over
    <3>5. ASSUME NEW q \in Requests \ {p}, TrackOK(q, c), links' = links PROVE TrackOK(q, c)'
      BY <2>2, <3>4, <3>5, <1>TrackOthers, Zenon
    <3> QED BY <2>2, <3>2, <3>3, <3>5, <1>OverFewer, Zenon
  <2> QED BY <2>1, <2>2, Zenon DEF Purges

\* What nobody uses or links, and is not at home, is of no concern.
<1>GoneStore. ASSUME NEW c \in Contents, \A q \in Requests : \A a \in tx'[q].assets : a[1] # c,
                     ~LinkedTo(c)', Home(c) \notin files', \A q \in Requests : TrackOK(q, c)'
              PROVE  StoreOK(c)'
  <2> USE <1>GoneStore
  <2>1. UseOK(c)'
    BY Zenon DEF UseOK
  <2>2. LinkOK(c)' /\ SafeOK(c)'
    BY Zenon DEF LinkOK, SafeOK, LinkedTo
  <2>3. HomeOK(c)'
    BY <1>PairParts, Zenon DEF HomeOK, Uses, Home
  <2>4. OrphanOK(c)'
    BY Zenon DEF OrphanOK, Home
  <2> QED BY <2>1, <2>2, <2>3, <2>4, Zenon DEF StoreOK

<1>PurgedAlone. ASSUME Typed, NEW c \in Contents, ~Overlap(c), StoreOK(c),
                       NEW p \in Requests \union {Sweep}, NEW s \in purge[p], s.asset[1] = c
                PROVE  (\A q \in Requests : \A a \in tx[q].assets : a[1] # c) /\ ~LinkedTo(c)
  <2> USE <1>PurgedAlone
  <2>1. Purged(c)
    BY Zenon DEF Purged
  <2>2. \A q \in Requests : ~Uses(q, c)
    BY Zenon DEF Overlap
  <2> QED BY <2>1, <2>2, <1>UsesIs, Zenon DEF StoreOK, SafeOK

<1>PurgeStore. ASSUME PhaseInv, Typed', NEW c \in Contents, ~Overlap(c), StoreOK(c),
                      NEW p \in Requests \union {Sweep}, Purge(p)
               PROVE  StoreOK(c)'
  <2> USE <1>PurgeStore
  <2>0. Typed /\ TypeRest /\ Purging(p)
    BY Zenon DEF PhaseInv, FinalInv
  <2>1. links' = links /\ scan' = scan /\ left' = left
    BY PurgeDoes, Zenon DEF PurgeEffect
  <2>3. MovedAway(c)' <=> MovedAway(c)
    BY <2>1, Zenon DEF MovedAway
  <2>4. LinkedTo(c)' <=> LinkedTo(c)
    BY <2>1, Zenon DEF LinkedTo
  <2>5. ASSUME NEW a \in Assets, NEW s \in PurgeType, Looks(p, a, s) PROVE StoreOK(c)'
    <3>0. /\ HasRow(a) /\ ~Linked(a) /\ s.asset = a /\ s.path = <<row[a[1]].place, a[1]>>
          /\ s.del = (s.path \in files) /\ purge' = [purge EXCEPT ![p] = {s}]
          /\ row' = row /\ files' = files /\ tx' = tx /\ pc' = pc
      BY <2>5, Zenon DEF Looks
    <3>1. CASE a[1] # c
      <4>1. \A q \in Requests \union {Sweep} : \A u \in purge'[q] : u.asset[1] = c => u \in purge[q]
        <5>1. purge'[p] = {s} /\ \A q \in (Requests \union {Sweep}) \ {p} : purge'[q] = purge[q]
          BY <2>0, <3>0, Zenon DEF TypeRest
        <5> QED BY <3>0, <3>1, <5>1, Zenon
      <4>2. Stays(c)
        BY <2>1, <2>3, <3>0, <4>1, Zenon DEF Stays
      <4> QED BY <2>0, <2>1, <3>0, <4>2, <1>OtherFrame, Zenon
    <3>2. CASE a[1] = c
      <4>1. ~LinkedTo(c)
        <5> SUFFICES ASSUME NEW q \in Requests, NEW b \in Assets, <<q, b>> \in links, b[1] = c PROVE FALSE
          BY Zenon DEF LinkedTo
        <5>1. row[c].id = b[2] /\ row[c].id = a[2] /\ b = <<b[1], b[2]>> /\ a = <<a[1], a[2]>>
          BY <3>0, <3>2, AssetParts, Zenon DEF StoreOK, LinkOK, HasRow
        <5>2. b = a
          BY <3>2, <5>1, Zenon
        <5> QED BY <3>0, <5>2, Zenon DEF Linked
      <4>2. SafeOK(c)'
        BY <2>4, <4>1, Zenon DEF SafeOK
      <4>3. UseOK(c)' /\ LinkOK(c)' /\ OrphanOK(c)' /\ \A q \in Requests : TrackOK(q, c)'
        <5>1. UseOK(c)'
          BY <3>0, Zenon DEF StoreOK, UseOK, HasFile, HasRow, Home, Away
        <5>2. LinkOK(c)'
          BY <2>1, <3>0, Zenon DEF StoreOK, LinkOK, HasFile, HasRow, Home, Away
        <5>3. OrphanOK(c)'
          BY <2>1, <3>0, Zenon DEF StoreOK, OrphanOK, Tracks, Home
        <5>4. ASSUME NEW q \in Requests PROVE TrackOK(q, c)'
          BY <2>1, <3>0, Zenon DEF StoreOK, TrackOK, Tracks, Uses, Home
        <5> QED BY <5>1, <5>2, <5>3, <5>4, Zenon
      <4>4. ~s.del \/ s.path = Away(c) => Home(c) \notin files
        <5>1. s.path = Home(c) \/ (s.path = Away(c) /\ row[c].place = "quarantine")
          <6>1. row[c].place \in Places
            BY <2>0, Zenon DEF Typed, RowType
          <6> QED BY <3>0, <3>2, <6>1, Zenon DEF Places, Home, Away
        <5>2. Home(c) # Away(c)
          BY <1>HomeAndAway, Zenon
        <5> QED BY <3>0, <5>1, <5>2, Zenon DEF StoreOK, HomeOK
      <4>5. ASSUME NEW q \in Requests \union {Sweep}, NEW t \in purge'[q], t.asset[1] = c,
                   ~t.del \/ t.path = Away(c)
            PROVE  Home(c) \notin files
        <5>1. t = s \/ t \in purge[q]
          BY <2>0, <3>0, Zenon DEF TypeRest
        <5> QED BY <4>4, <4>5, <5>1, Zenon DEF StoreOK, HomeOK
      <4>6. HomeOK(c)'
        <5>1. /\ \A q \in Requests : Uses(q, c)' => row'[c].place = "home"
              /\ row'[c].place = "quarantine" \/ MovedAway(c)' => Home(c) \notin files
          BY <2>3, <3>0, Zenon DEF StoreOK, HomeOK, Uses
        <5> QED BY <3>0, <4>5, <5>1, Zenon DEF HomeOK, Home, Away
      <4> QED BY <4>2, <4>3, <4>6, Zenon DEF StoreOK
    <3> QED BY <3>1, <3>2, Zenon
  <2>6. ASSUME NEW s \in purge[p], NEW t \in PurgeType, Deletes(p, s, t) PROVE StoreOK(c)'
    <3>0. /\ t.asset = s.asset /\ purge' = [purge EXCEPT ![p] = {t}] /\ files' = files \ {s.path}
          /\ row' = row /\ tx' = tx /\ pc' = pc
      BY <2>6, Zenon DEF Deletes
    <3>1. /\ s.path \in Paths /\ s.path[2] = s.asset[1] /\ s.asset[1] \in Contents
          /\ s.path = Home(s.asset[1]) \/ s.path = Away(s.asset[1])
      BY <2>0, PurgeTyping, <1>PathCases, AssetParts, Zenon DEF Purging
    <3>2. CASE s.asset[1] # c
      <4>1. Home(c) # s.path /\ Away(c) # s.path
        BY <3>1, <3>2, <1>HomeAndAway, Zenon
      <4>2. \A q \in Requests \union {Sweep} : \A u \in purge'[q] : u.asset[1] = c => u \in purge[q]
        <5>1. purge'[p] = {t} /\ \A q \in (Requests \union {Sweep}) \ {p} : purge'[q] = purge[q]
          BY <2>0, <3>0, Zenon DEF TypeRest
        <5> QED BY <3>0, <3>2, <5>1, Zenon
      <4>3. Stays(c)
        BY <2>1, <2>3, <3>0, <4>1, <4>2, Zenon DEF Stays
      <4> QED BY <2>0, <2>1, <3>0, <4>3, <1>OtherFrame, Zenon
    <3>3. CASE s.asset[1] = c
      <4>1. (\A q \in Requests : \A a \in tx'[q].assets : a[1] # c) /\ ~LinkedTo(c)'
        BY <2>0, <2>4, <3>0, <3>3, <1>PurgedAlone, Zenon
      <4>2. Home(c) \notin files'
        BY <3>0, <3>1, <3>3, Zenon DEF StoreOK, HomeOK
      <4>3. ASSUME NEW q \in Requests PROVE TrackOK(q, c)'
        BY <2>1, <3>0, Zenon DEF StoreOK, TrackOK, Tracks, Uses, Home
      <4> QED BY <4>1, <4>2, <4>3, <1>GoneStore, Zenon
    <3> QED BY <3>2, <3>3, Zenon
  <2>7. ASSUME NEW a \in Assets, Quits(p, a) PROVE StoreOK(c)'
    <3>0. /\ (p # Sweep => pc[p] = "purging") /\ Purges(p, a) /\ files' = files
          /\ purge' = [purge EXCEPT ![p] = {}] /\ a[1] \in Contents
      BY <2>7, AssetParts, Zenon DEF Quits
    <3>1. /\ \A q \in Requests : Fewer(q, c) /\ (Tracks(q, c)' <=> Tracks(q, c))
          /\ \A q \in Requests : TrackOK(q, c)'
      BY <2>1, <3>0, <1>PurgerQuiet, Zenon DEF StoreOK
    <3>2. CASE row'[c] = row[c]
      <4>0. \A q \in Requests \union {Sweep} : \A u \in purge'[q] : u.asset[1] = c => u \in purge[q]
        BY <2>0, <3>0, Zenon DEF TypeRest
      <4>1. Stays(c)
        BY <2>1, <2>3, <3>0, <3>2, <4>0, Zenon DEF Stays
      <4>2. OrphanOK(c)'
        BY <2>1, <3>0, <3>1, <3>2, Zenon DEF StoreOK, OrphanOK, Home
      <4>3. UseOK(c)' /\ LinkOK(c)' /\ SafeOK(c)' /\ HomeOK(c)'
        BY <2>0, <3>1, <4>1, <1>StoreFrame, Zenon
      <4> QED BY <3>1, <4>2, <4>3, Zenon DEF StoreOK
    <3>3. CASE row'[c] # row[c]
      <4>1. a[1] = c
        BY <2>0, <2>7, <3>0, <3>3, Zenon DEF Quits, Typed
      <4>2. PICK s \in purge[p] : s.asset = a /\ ~s.del
        BY <2>7, <3>3, Zenon DEF Quits
      <4>3. (\A q \in Requests : \A b \in tx[q].assets : b[1] # c) /\ ~LinkedTo(c)
        BY <2>0, <4>1, <4>2, <1>PurgedAlone, Zenon
      <4>4. \A q \in Requests : \A b \in tx'[q].assets : b[1] # c
        BY <3>1, <4>3, Zenon DEF Fewer
      <4>5. Home(c) \notin files'
        BY <3>0, <4>1, <4>2, Zenon DEF StoreOK, HomeOK
      <4> QED BY <2>4, <3>1, <4>3, <4>4, <4>5, <1>GoneStore, Zenon
    <3> QED BY <3>2, <3>3, Zenon
  <2> QED BY <2>5, <2>6, <2>7, PurgeDoes, Zenon DEF PurgeEffect

<1>HandlerStore. ASSUME PhaseInv, PlacesOK, Typed', NEW c \in Contents, ~Overlap(c), ~Overlap(c)', StoreOK(c),
                        NEW w \in Workers, NEW s \in scan[w], HandlerStep(w, s)
                 PROVE  StoreOK(c)'
  <2> USE <1>HandlerStore
  <2>0. Typed /\ TypeRest /\ ScanPlaces(w)
    BY PlacesParts, Zenon DEF PhaseInv, FinalInv
  <2>1. links' = links /\ tx' = tx /\ pc' = pc /\ purge' = purge /\ left' = left
    BY <2>0, HandlerDoes, Zenon DEF HandlerEffect
  <2>2. PICK place \in Places, step \in Steps : Progress(s, place, step) /\ Shifts(w, s, place, step)
    BY <2>0, HandlerDoes, Zenon DEF HandlerEffect
  <2>3. /\ s.asset \in Assets /\ s.asset[1] \in Contents /\ row[s.asset[1]].place \in Places /\ s.place \in Places
        /\ s.place = "quarantine" => s.step \in {"infected", "succeed", "fail"}
    BY <2>0, ScanTyped, Zenon DEF Typed, RowType, ScanType, ScanPlaces
  <2>4. ASSUME s.asset[1] # c \/ step # "infected" \/ place # "quarantine", MovedAway(c)' PROVE MovedAway(c)
    <3>1. PICK v \in Workers : \E x \in scan'[v] :
              x.asset[1] = c /\ x.step = "infected" /\ x.place = "quarantine"
      BY <2>4, Zenon DEF MovedAway
    <3>2. v # w
      BY <2>2, <2>4, <3>1, Zenon DEF Shifts
    <3> QED BY <2>2, <3>1, <3>2, Zenon DEF Shifts, MovedAway
  <2>5. ASSUME row'[c].id = row[c].id, row'[c].place = row[c].place, MovedAway(c)' => MovedAway(c),
               Home(c) \in files' <=> Home(c) \in files, Away(c) \in files' <=> Away(c) \in files
        PROVE  StoreOK(c)'
    <3>1. Stays(c)
      BY <2>1, <2>5, Zenon DEF Stays
    <3> QED BY <2>0, <2>1, <3>1, <1>OtherFrame, Zenon
  <2>6. ASSUME NEW q \in Requests PROVE TrackOK(q, c)'
    BY <2>1, Zenon DEF StoreOK, TrackOK, Tracks, Uses, Home
  <2>7. ASSUME \A q \in Requests : ~Uses(q, c) PROVE UseOK(c)' /\ \A q \in Requests : ~Uses(q, c)'
    <3>1. \A q \in Requests : \A a \in tx'[q].assets : a[1] # c
      BY <2>0, <2>1, <2>7, <1>UsesIs, Zenon
    <3> QED BY <2>1, <2>7, <3>1, Zenon DEF UseOK, Uses
  <2>8. CASE ScanRead(w, s) \/ Verdict(w, s)
    <3>1. row' = row /\ files' = files
      BY <2>8, Zenon DEF ScanRead, Verdict, storeVars
    <3>2. s.step \in {"read", "scanning"}
      BY <2>8, Zenon DEF ScanRead, Verdict
    <3>3. step # "infected"
      BY <2>2, <3>2, Zenon DEF Progress
    <3> QED BY <2>4, <2>5, <3>1, <3>3, Zenon
  <2>9. CASE ScanStart(w, s) \/ WriteStatus(w, s)
    <3>1. PICK status \in {"scanning", "clean", "scan_error"} : SetRow(s.asset, row[s.asset[1]].place, status)
      BY <2>9, Zenon DEF ScanStart, WriteStatus
    <3>2. status \in Statuses
      BY Zenon DEF Statuses
    <3>3. row'[c].id = row[c].id
      BY <2>0, <2>3, <3>1, <3>2, SetRowDoes, Zenon DEF RowSet
    <3>4. row'[c].place = row[c].place
      <4>1. /\ HasRow(s.asset) => row'[s.asset[1]].place = row[s.asset[1]].place
            /\ (c = s.asset[1] /\ HasRow(s.asset)) \/ row'[c] = row[c]
        BY <2>0, <2>3, <3>1, <3>2, SetRowPlace, Zenon DEF RowPlaced
      <4> QED BY <4>1, Zenon
    <3>5. files' = files /\ s.step \in {"start", "clean", "scan_error"}
      BY <2>9, Zenon DEF ScanStart, WriteStatus
    <3>6. step # "infected"
      BY <2>2, <3>5, Zenon DEF Progress
    <3> QED BY <2>4, <2>5, <3>3, <3>4, <3>5, <3>6, Zenon
  <2>10. CASE MoveAway(w, s)
    <3> DEFINE d == s.asset[1]
    <3>1. row' = row /\ s.step = "move" /\ s.place = "home" /\ step = "infected"
      <4>1. row' = row /\ s.step = "move"
        BY <2>10, Zenon DEF MoveAway
      <4> QED BY <2>2, <2>3, <4>1, Zenon DEF Progress, Places
    <3>2. CASE Home(d) \notin files
      <4>1. files' = files /\ place = "home"
        BY <2>2, <2>10, <3>1, <3>2, Zenon DEF MoveAway, Progress, Home
      <4> QED BY <2>4, <2>5, <3>1, <4>1, Zenon
    <3>3. CASE Home(d) \in files /\ d # c
      <4>1. files' = (files \ {Home(d)}) \union {Away(d)}
        BY <2>10, <3>1, <3>3, Zenon DEF MoveAway, Home, Away
      <4>2. Home(c) # Home(d) /\ Away(c) # Away(d) /\ Home(c) # Away(d) /\ Away(c) # Home(d)
        BY <2>3, <3>3, <1>HomeAndAway, Zenon
      <4> QED BY <2>4, <2>5, <3>1, <3>3, <4>1, <4>2, Zenon
    <3>4. CASE Home(d) \in files /\ d = c
      <4>1. files' = (files \ {Home(c)}) \union {Away(c)}
        BY <2>10, <3>1, <3>4, Zenon DEF MoveAway, Home, Away
      <4>2. Home(c) \notin files' /\ Away(c) \in files'
        BY <4>1, <1>HomeAndAway, Zenon
      <4>3. \E v \in Workers : \E x \in scan'[v] : x.asset[1] = c /\ x.step = "infected"
        BY <2>2, <3>1, <3>4, Zenon DEF Shifts
      <4>4. \A q \in Requests : ~Uses(q, c)
        BY <2>1, <4>3, Zenon DEF Overlap, Uses
      <4>5. UseOK(c)' /\ \A q \in Requests : ~Uses(q, c)'
        BY <2>7, <4>4, Zenon
      <4>6. LinkOK(c)'
        BY <2>1, <3>1, <4>2, Zenon DEF StoreOK, LinkOK, HasRow, HasFile, Away
      <4>7. SafeOK(c)'
        BY <2>1, <4>2, Zenon DEF StoreOK, SafeOK, LinkedTo, Purged, Away
      <4>8. HomeOK(c)' /\ OrphanOK(c)'
        BY <4>2, <4>5, Zenon DEF HomeOK, OrphanOK, Home
      <4> QED BY <2>6, <4>5, <4>6, <4>7, <4>8, Zenon DEF StoreOK
    <3> QED BY <3>2, <3>3, <3>4, Zenon
  <2>11. CASE WriteInfected(w, s)
    <3>1. /\ SetRow(s.asset, s.place, "infected") /\ "infected" \in Statuses /\ files' = files
          /\ s.step = "infected"
      BY <2>11, Zenon DEF WriteInfected, Statuses
    <3>2. \A e \in Contents : row'[e].id = row[e].id
      BY <2>0, <2>3, <3>1, SetRowDoes, Zenon DEF RowSet
    <3>3. /\ HasRow(s.asset) => row'[s.asset[1]].place = s.place
          /\ \A e \in Contents : (e = s.asset[1] /\ HasRow(s.asset)) \/ row'[e] = row[e]
      BY <2>0, <2>3, <3>1, SetRowPlace, Zenon DEF RowPlaced
    <3>4. step # "infected"
      BY <2>2, <3>1, Zenon DEF Progress
    <3>5. CASE s.asset[1] # c
      BY <2>4, <2>5, <3>1, <3>2, <3>3, <3>4, <3>5, Zenon
    <3>6. CASE s.asset[1] = c
      <4>1. \A q \in Requests : ~Uses(q, c)
        BY <3>1, <3>6, Zenon DEF Overlap
      <4>2. UseOK(c)' /\ \A q \in Requests : ~Uses(q, c)'
        BY <2>7, <4>1, Zenon
      <4>3. row'[c].place = "quarantine" => row[c].place = "quarantine" \/ MovedAway(c)
        BY <3>1, <3>3, <3>6, Zenon DEF MovedAway
      <4>4. MovedAway(c)' => MovedAway(c)
        BY <2>4, <3>4, Zenon
      <4>5. LinkOK(c)'
        BY <2>1, <3>1, <3>2, Zenon DEF StoreOK, LinkOK, HasRow, HasFile, Home, Away
      <4>6. SafeOK(c)'
        <5>1. (LinkedTo(c)' <=> LinkedTo(c)) /\ (Purged(c)' <=> Purged(c)) /\ (Cut(c)' <=> Cut(c))
          BY <2>1, Zenon DEF LinkedTo, Purged, Cut
        <5> QED BY <3>1, <4>3, <4>4, <5>1, Zenon DEF StoreOK, SafeOK, Away
      <4>7. HomeOK(c)'
        BY <2>1, <3>1, <4>2, <4>3, <4>4, Zenon DEF StoreOK, HomeOK, Home, Away
      <4>8. OrphanOK(c)'
        BY <2>1, <3>1, <3>2, Zenon DEF StoreOK, OrphanOK, Tracks, Home
      <4> QED BY <2>6, <4>2, <4>5, <4>6, <4>7, <4>8, Zenon DEF StoreOK
    <3> QED BY <3>5, <3>6, Zenon
  <2> QED BY <2>8, <2>9, <2>10, <2>11, Zenon DEF HandlerStep

<1>JobStore. ASSUME PhaseInv, Typed', NEW c \in Contents, StoreOK(c), NEW w \in Workers, QueueStep(w)
             PROVE  StoreOK(c)'
  <2> USE <1>JobStore
  <2>0. Typed /\ TypeRest
    BY Zenon DEF PhaseInv, FinalInv
  <2>1. /\ row' = row /\ files' = files /\ links' = links /\ tx' = tx /\ pc' = pc /\ purge' = purge /\ left' = left
        /\ \A v \in Workers \ {w} : scan'[v] = scan[v]
        /\ scan'[w] = {} \/ scan' = scan \/ \E x \in ScanType : scan'[w] = {x} /\ x.step = "read"
    BY <2>0, QueueDoes, Zenon DEF QueueEffect
  <2>2. MovedAway(c)' => MovedAway(c)
    <3>1. \A v \in Workers : \A x \in scan'[v] : x.step = "infected" => x \in scan[v]
      BY <2>1, Zenon
    <3> QED BY <3>1, Zenon DEF MovedAway
  <2>3. Stays(c)
    BY <2>1, <2>2, Zenon DEF Stays
  <2> QED BY <2>0, <2>1, <2>3, <1>OtherFrame, Zenon

<1>All. ASSUME PhaseInv, QueueInv, StoreInv, Exclusive, Next
        PROVE  StoreInv'
  <2> USE <1>All
  <2>0. PlacesOK' /\ Typed' /\ PlacesOK
    BY PlacesNext, PhaseNext, Zenon DEF StoreInv, PhaseInv, FinalInv
  <2>1. ASSUME NEW c \in Contents \ torn' PROVE ~Overlap(c)' /\ StoreOK(c)'
    <3>1. c \notin torn /\ ~Overlap(c)'
      BY <2>1, Zenon DEF Next, NoteOverlap
    <3>2. ~Overlap(c) /\ StoreOK(c)
      BY <3>1, Zenon DEF StoreInv
    <3>3. StoreOK(c)'
      BY <2>0, <3>1, <3>2, NextCases, <1>RequestStore, <1>PurgeStore, <1>JobStore, <1>HandlerStore, Zenon
    <3> QED BY <3>1, <3>3, Zenon
  <2> QED BY <2>0, <2>1, Zenon DEF StoreInv

<1>Stutter. ASSUME PhaseInv, StoreInv, UNCHANGED vars PROVE StoreInv'
  <2>1. /\ row' = row /\ files' = files /\ links' = links /\ tx' = tx /\ pc' = pc /\ purge' = purge
        /\ scan' = scan /\ left' = left /\ torn' = torn
    BY <1>Stutter, Zenon DEF vars, storeVars, procVars, jobVars, histVars
  <2>2. Typed /\ Typed'
    BY <1>Stutter, FinalStutter, Zenon DEF PhaseInv, FinalInv
  <2>3. PlacesOK'
    BY <1>Stutter, <2>1, Zenon DEF StoreInv, PlacesOK
  <2>4. ASSUME NEW c \in Contents \ torn PROVE ~Overlap(c)' /\ StoreOK(c)'
    <3>1. Stays(c)
      BY <2>1, Zenon DEF Stays, MovedAway
    <3>2. Overlap(c)' <=> Overlap(c)
      BY <2>1, Zenon DEF Overlap, Uses
    <3> QED BY <1>Stutter, <2>1, <2>2, <3>1, <3>2, <1>OtherFrame, Zenon DEF StoreInv
  <2> QED BY <2>1, <2>3, <2>4, Zenon DEF StoreInv

<1> QED BY <1>All, <1>Stutter, Zenon

LEMMA StoreInit == Init => StoreInv
<1> SUFFICES ASSUME Init PROVE StoreInv
  OBVIOUS
<1>1. \A r \in Requests : tx[r].assets = {} /\ tx[r].cur = {} /\ tx[r].trk = {} /\ tx[r].cut = {}
  BY Zenon DEF Init, NoTx
<1>2. PlacesOK
  <2>1. \A c \in Contents : row[c].place = "home"
    BY Zenon DEF Init, NoRow
  <2>2. \A w \in Workers : scan[w] = {}
    BY Zenon DEF Init
  <2> QED BY <1>1, <2>1, <2>2, Zenon DEF PlacesOK
<1>3. ASSUME NEW c \in Contents PROVE ~Overlap(c) /\ StoreOK(c)
  <2>1. files = {} /\ links = {}
    BY Zenon DEF Init
  <2>2. \A q \in Requests : ~Uses(q, c) /\ ~Tracks(q, c)
    BY <1>1, Zenon DEF Uses, Tracks
  <2>3. UseOK(c) /\ LinkOK(c) /\ SafeOK(c) /\ HomeOK(c) /\ OrphanOK(c)
    BY <1>1, <2>1, <2>2, Zenon DEF UseOK, LinkOK, SafeOK, LinkedTo, HomeOK, OrphanOK
  <2> QED BY <2>2, <2>3, Zenon DEF Overlap, StoreOK, TrackOK
<1> QED BY <1>2, <1>3, Zenon DEF StoreInv

LEMMA StoreAlways == Exclusive => (Spec => []StoreInv)
<1> SUFFICES ASSUME Exclusive PROVE Spec => []StoreInv
  OBVIOUS
<1>1. PhaseInv /\ QueueInv /\ StoreInv /\ [Next]_vars => StoreInv'
  BY StoreNext, Zenon
<1> QED BY <1>1, StoreInit, PhaseAlways, QueueAlways, PTL DEF Spec

\* As long as the queue does not run a scan job twice at a time, what a memo or
\* letter links is there, row and object, for any number of contents, requests,
\* workers and faults: through duplicate uploads, rollbacks with the clean-up
\* of the session hooks, deletions, purges and quarantine, unless one of those
\* that had begun overlapped with an upload of the content.
THEOREM LinkedKeepsFile == ASSUME Exclusive PROVE Spec => []LinkedHasFile
<1>1. StoreInv => LinkedHasFile
  <2> SUFFICES ASSUME StoreInv, NEW r \in Requests, NEW a \in Assets, <<r, a>> \in links, a[1] \notin torn
               PROVE  HasRow(a) /\ \E place \in Places : <<place, a[1]>> \in files
    BY Zenon DEF LinkedHasFile
  <2>1. a[1] \in Contents
    BY AssetParts, Zenon
  <2>2. HasRow(a) /\ HasFile(a[1])
    BY <2>1, Zenon DEF StoreInv, StoreOK, LinkOK
  <2> QED BY <2>2, Zenon DEF HasFile, Home, Away, Places
<1> QED BY <1>1, StoreAlways, PTL

\* Under the same condition, an object without a row is one that a transaction
\* still uses or its session hooks still track, or was left behind by a process
\* that died or a delete that failed.
THEOREM NoOrphansLeft == ASSUME Exclusive PROVE Spec => []NoOrphans
<1>1. StoreInv => NoOrphans
  <2> SUFFICES ASSUME StoreInv, NEW c \in Contents, <<"home", c>> \in files, row[c].id = 0, c \notin torn \union left
               PROVE  \E r \in Requests : <<"home", c>> \in tx[r].trk \union tx[r].cut
    BY Zenon DEF NoOrphans
  <2> QED BY Zenon DEF StoreInv, StoreOK, OrphanOK, Tracks, Home
<1> QED BY <1>1, StoreAlways, PTL

=============================================================================
