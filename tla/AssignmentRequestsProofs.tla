---------------------- MODULE AssignmentRequestsProofs ----------------------
(***************************************************************************)
(* The invariants of assignment confirmation, for any number of users,     *)
(* concurrent web requests and assignment requests.                        *)
(***************************************************************************)
EXTENDS AssignmentRequests, FiniteSetTheorems, SequenceTheorems, TLAPS

\* The flush before _pending_for_role locks the workflow for the rest of the
\* transaction.
HasWorkflow(s) ==
    tx[s].pc \in {"flushed", "select", "cancel"} \/ (tx[s].pc = "commit" /\ tx[s].kind = "assign")

\* Under that lock an assignment chooses every row that is pending.
HasChosen(s) ==
    tx[s].pc = "cancel" \/ (tx[s].pc = "commit" /\ tx[s].kind = "assign")

Serialised(s) ==
    /\ HasWorkflow(s) => wfLock = s
    /\ HasChosen(s) => \A r \in Pending : tx[s].fate[r] # "keep"
    /\ tx[s].pc \in {"select", "cancel"} => tx[s].kind = "assign"
    /\ tx[s].pc = "revert" => tx[s].kind = "edit"

\* There is room for the requests that are on their way.
Room == Len(reqs) + Assigning <= MaxReqs

\* The inductive invariant behind AtMostOnePending: only the last request can
\* be pending.
PendingInv ==
    /\ TypeOK /\ Room /\ \A s \in Sessions : Serialised(s)
    /\ Pending \subseteq {Len(reqs)}

\* A session that rejects r: it holds the row, r is still pending, and the
\* role is still with the target.
Rejects(s, r) ==
    /\ tx[s].pc \in {"revert", "commit"} /\ tx[s].kind = "edit"
    /\ tx[s].pc = "commit" => wfLock = s
    /\ r \in Pending /\ tx[s].fate[r] # "keep" /\ reqLock[r] = s
    /\ tx[s].before = field /\ reqs[r].target = field /\ tx[s].to = reqs[r].prev

\* The rows a session is about to commit are locked by it; an assignment
\* changes the role, an edit does not; a rejection is as above.
Careful(s) ==
    /\ tx[s].pc \in {"commit", "revert"} => Chosen(s) \subseteq Locked(s)
    /\ tx[s].kind # "set"
    /\ tx[s].kind = "assign" => tx[s].to # tx[s].before /\ ~Rejecting(s)
    /\ tx[s].kind = "edit" /\ ~Rejecting(s) => tx[s].to = tx[s].before /\ tx[s].pc # "revert"
    /\ Rejecting(s) => \E r \in Ids : Rejects(s, r)

RejectionInv ==
    /\ \A s \in Sessions : Careful(s)
    /\ PendingIsCurrent /\ RejectionTakesEffect
    /\ \A r \in 1..Len(reqs) : reqs[r].prev # reqs[r].target
-----------------------------------------------------------------------------
(* What the steps have in common. *)

\* How a step of s changes the number of sessions that assign.
LEMMA AssignCount ==
    ASSUME NEW s \in Sessions, \A t \in Sessions \ {s} : tx'[t] = tx[t]
    PROVE  /\ Assigning \in Nat /\ Assigning' \in Nat
           /\ tx'[s].kind = tx[s].kind => Assigning' = Assigning
           /\ Assigning' <= Assigning + 1
           /\ tx'[s].kind # "assign" => Assigning' <= Assigning
           /\ tx[s].kind = "assign" /\ tx'[s].kind # "assign" => Assigning' = Assigning - 1
<1> DEFINE A == {t \in Sessions : tx[t].kind = "assign"}
           B == {t \in Sessions : tx'[t].kind = "assign"}
<1>1. IsFiniteSet(A) /\ IsFiniteSet(B)
  BY ConstantsAssumption, FS_Subset, Zenon
<1>2. Cardinality(A) \in Nat /\ Cardinality(B) \in Nat
  BY <1>1, FS_CardinalityType, Zenon
<1>3. CASE tx'[s].kind = "assign" /\ tx[s].kind # "assign"
  <2>1. B = A \union {s} /\ s \notin A
    BY <1>3
  <2>2. Cardinality(B) = Cardinality(A) + 1
    BY <1>1, <2>1, FS_AddElement, Zenon
  <2> QED BY <1>2, <1>3, <2>2 DEF Assigning
<1>4. CASE tx'[s].kind # "assign" /\ tx[s].kind = "assign"
  <2>1. B = A \ {s} /\ s \in A
    BY <1>4, Zenon
  <2>2. Cardinality(B) = Cardinality(A) - 1
    BY <1>1, <2>1, FS_RemoveElement, Zenon
  <2> QED BY <1>2, <1>4, <2>2 DEF Assigning
<1>5. CASE tx'[s].kind = "assign" <=> tx[s].kind = "assign"
  <2>1. A = B
    BY <1>5, Zenon
  <2>2. Assigning = Cardinality(A) /\ Assigning' = Cardinality(A)
    BY <2>1, Zenon DEF Assigning
  <2> QED BY <1>2, <1>5, <2>2
<1> QED BY <1>3, <1>4, <1>5, Zenon

\* Idle is a transaction.
LEMMA IdleType ==
    /\ Idle.pc = "idle" /\ Idle.kind = "edit" /\ Idle.to = Idle.before
    /\ \A r \in Ids : Idle.fate[r] = "keep"
    /\ Idle \in Transaction
BY Zenon DEF Idle, Owners, WfStatus, Transaction

\* The requests of the table have ids.
LEMMA RowIds ==
    ASSUME TypeOK
    PROVE  /\ Len(reqs) \in Nat /\ 1..Len(reqs) \subseteq Ids /\ Pending \subseteq Ids
           /\ \A r \in 1..Len(reqs) : reqs[r] \in Row
<1>1. Len(reqs) \in Nat /\ Len(reqs) <= MaxReqs /\ MaxReqs \in Nat
  BY ConstantsAssumption DEF TypeOK
<1>2. 1..Len(reqs) \subseteq Ids
  BY <1>1 DEF Ids
<1>3. ASSUME NEW r \in 1..Len(reqs)
      PROVE  reqs[r] \in Row
  BY ElementOfSeq, Zenon DEF TypeOK
<1> QED BY <1>1, <1>2, <1>3, Zenon DEF Pending

\* Release(s): the session is idle, and its locks are free.
LEMMA Released ==
    ASSUME TypeOK, NEW s \in Sessions, Release(s)
    PROVE  /\ tx'[s] = Idle /\ \A t \in Sessions \ {s} : tx'[t] = tx[t]
           /\ wfLock' \in Sessions \union {NoSession} /\ (wfLock # s => wfLock' = wfLock)
           /\ reqLock' \in [Ids -> Sessions \union {NoSession}]
           /\ \A r \in Ids : reqLock[r] # s => reqLock'[r] = reqLock[r]
BY Zenon DEF TypeOK, Release

\* A step that leaves the table alone leaves its pending rows.
LEMMA SameRows ==
    ASSUME reqs' = reqs
    PROVE  Pending' = Pending
BY Zenon DEF Pending

\* What COMMIT makes of the table: the rows chosen are final, and an
\* assignment to somebody adds a row.
LEMMA Committed ==
    ASSUME TypeOK, NEW s \in Sessions, Commit(s)
    PROVE  /\ reqs' \in Seq(Row)
           /\ \A r \in 1..Len(reqs) :
                /\ reqs'[r].target = reqs[r].target /\ reqs'[r].prev = reqs[r].prev
                /\ reqs'[r].status = IF tx[s].fate[r] = "keep" THEN reqs[r].status ELSE tx[s].fate[r]
           /\ IF tx[s].kind = "assign" /\ tx[s].to # NoUser
              THEN /\ Len(reqs') = Len(reqs) + 1
                   /\ reqs'[Len(reqs) + 1] =
                        [status |-> NewStatus(s), target |-> tx[s].to, prev |-> tx[s].before]
              ELSE Len(reqs') = Len(reqs)
<1> DEFINE n == Len(reqs)
           f == tx[s].fate
<1>1. n \in Nat /\ 1..n \subseteq Ids /\ \A r \in 1..n : reqs[r] \in Row
  BY RowIds, Zenon
<1>2. /\ f \in [Ids -> Final \union {"keep"}] /\ tx[s].to \in Owners /\ tx[s].before \in Owners
      /\ tx[s].becomes \in WfStatus
  BY Zenon DEF TypeOK, Transaction
<1>3. ASSUME NEW r \in 1..n
      PROVE  /\ Resolved(s)[r] = IF f[r] = "keep" THEN reqs[r] ELSE [reqs[r] EXCEPT !.status = f[r]]
             /\ Resolved(s)[r] \in Row
  <2>1. reqs[r] \in Row /\ f[r] \in Final \union {"keep"}
    BY <1>1, <1>2, Zenon
  <2>2. Resolved(s)[r] = IF f[r] = "keep" THEN reqs[r] ELSE [reqs[r] EXCEPT !.status = f[r]]
    BY Zenon DEF Resolved
  <2> QED BY <2>1, <2>2, Zenon DEF Row, Final
<1>4. Resolved(s) \in Seq(Row) /\ Len(Resolved(s)) = n
  <2>1. Resolved(s) \in [1..n -> Row]
    BY <1>3, Zenon DEF Resolved
  <2>2. Resolved(s) \in Seq(Row)
    BY <1>1, <2>1, SeqDef
  <2>3. DOMAIN Resolved(s) = 1..n
    BY Zenon DEF Resolved
  <2> QED BY <1>1, <2>2, <2>3, LenProperties
<1>5. NewStatus(s) \in ReqStatus
  BY <1>2, Zenon DEF NewStatus, ReqStatus
<1>6. NewReqs(s) \in Seq(Row)
  <2>1. CASE tx[s].kind = "assign" /\ tx[s].to # NoUser
    <3> DEFINE x == [status |-> NewStatus(s), target |-> tx[s].to, prev |-> tx[s].before]
    <3>1. x \in Row
      BY <1>2, <1>5, <2>1, Zenon DEF Row, Owners
    <3>2. NewReqs(s) = <<x>>
      BY <2>1, Zenon DEF NewReqs
    <3> HIDE DEF x
    <3> QED BY <3>1, <3>2
  <2>2. CASE ~(tx[s].kind = "assign" /\ tx[s].to # NoUser)
    BY <2>2 DEF NewReqs
  <2> QED BY <2>1, <2>2, Zenon
<1>7. IF tx[s].kind = "assign" /\ tx[s].to # NoUser
      THEN Len(NewReqs(s)) = 1 /\ NewReqs(s)[1] =
             [status |-> NewStatus(s), target |-> tx[s].to, prev |-> tx[s].before]
      ELSE Len(NewReqs(s)) = 0
  BY Zenon DEF NewReqs
<1>8. reqs' = Resolved(s) \o NewReqs(s)
  BY Zenon DEF Commit
<1>9. /\ reqs' \in Seq(Row) /\ Len(reqs') = n + Len(NewReqs(s))
      /\ \A r \in 1..(n + Len(NewReqs(s))) :
           reqs'[r] = IF r <= n THEN Resolved(s)[r] ELSE NewReqs(s)[r - n]
  BY <1>4, <1>6, <1>8, ConcatProperties
<1>10. ASSUME NEW r \in 1..n
       PROVE  /\ reqs'[r].target = reqs[r].target /\ reqs'[r].prev = reqs[r].prev
              /\ reqs'[r].status = IF f[r] = "keep" THEN reqs[r].status ELSE f[r]
  <2>1. reqs'[r] = Resolved(s)[r]
    <3>1. Len(NewReqs(s)) \in Nat
      BY <1>7
    <3> QED BY <1>1, <1>9, <3>1
  <2>2. reqs'[r] = IF f[r] = "keep" THEN reqs[r] ELSE [reqs[r] EXCEPT !.status = f[r]]
    BY <1>3, <2>1, Zenon
  <2>3. reqs[r] \in Row
    BY <1>1, Zenon
  <2> HIDE DEF f, n
  <2> QED BY <2>2, <2>3, Zenon DEF Row
<1> QED BY <1>1, <1>7, <1>9, <1>10
-----------------------------------------------------------------------------
(* At most one request is pending. *)

LEMMA PendingInit == Init => PendingInv
<1> SUFFICES ASSUME Init PROVE PendingInv
  OBVIOUS
<1>1. \A s \in Sessions : tx[s] = Idle
  BY Zenon DEF Init
<1>2. reqs = <<>> /\ Len(reqs) = 0 /\ Pending = {}
  BY DEF Init, Pending
<1>3. TypeOK
  BY <1>2, IdleType, ConstantsAssumption, EmptySeq DEF Init, TypeOK, Owners, WfStatus
<1>4. Room
  <2>1. {s \in Sessions : tx[s].kind = "assign"} = {}
    BY <1>1, IdleType, Zenon
  <2>2. Assigning = 0
    BY <2>1, FS_EmptySet, Zenon DEF Assigning
  <2> QED BY <1>2, <2>2, ConstantsAssumption DEF Room
<1> QED BY <1>1, <1>2, <1>3, <1>4, IdleType, Zenon DEF PendingInv, Serialised, HasWorkflow, HasChosen

\* A step of s that leaves workflow and requests as they are.
Apart(s) ==
    /\ field' = field /\ status' = status /\ reqs' = reqs
    /\ tx' \in [Sessions -> Transaction] /\ \A t \in Sessions \ {s} : tx'[t] = tx[t]
    /\ wfLock' \in Sessions \union {NoSession} /\ \A t \in Sessions \ {s} : wfLock = t => wfLock' = t
    /\ reqLock' \in [Ids -> Sessions \union {NoSession}]
    /\ \A t \in Sessions \ {s}, r \in Ids : reqLock[r] = t => reqLock'[r] = t
    /\ \/ tx'[s].kind = tx[s].kind \/ tx'[s].kind # "assign"
       \/ Len(reqs) + Assigning < MaxReqs

LEMMA PendingApart ==
    ASSUME PendingInv, NEW s \in Sessions, Apart(s), Serialised(s)'
    PROVE  PendingInv'
<1>1. Pending' = Pending
  BY SameRows, Zenon DEF Apart
<1>2. TypeOK'
  BY Zenon DEF Apart, PendingInv, TypeOK
<1>3. Room'
  <2>1. /\ Assigning \in Nat /\ Assigning' \in Nat
        /\ tx'[s].kind = tx[s].kind => Assigning' = Assigning
        /\ Assigning' <= Assigning + 1 /\ (tx'[s].kind # "assign" => Assigning' <= Assigning)
    BY AssignCount, Zenon DEF Apart
  <2>2. Len(reqs) \in Nat /\ MaxReqs \in Nat /\ Len(reqs) + Assigning <= MaxReqs
    BY RowIds, ConstantsAssumption, Zenon DEF PendingInv, Room
  <2> QED BY <2>1, <2>2 DEF Apart, Room
<1>4. ASSUME NEW t \in Sessions \ {s} PROVE Serialised(t)'
  <2>1. Serialised(t) /\ tx'[t] = tx[t] /\ (wfLock = t => wfLock' = t)
    BY Zenon DEF PendingInv, Apart
  <2> QED BY <1>1, <2>1, Zenon DEF Serialised, HasWorkflow, HasChosen
<1>5. Pending' \subseteq {Len(reqs')}
  BY <1>1, Zenon DEF PendingInv, Apart
<1> QED BY <1>2, <1>3, <1>4, <1>5, Zenon DEF PendingInv

\* Every step but COMMIT is one of those.
LEMMA ApartSteps ==
    ASSUME TypeOK, NEW s \in Sessions,
           \/ \E kind \in Kinds, u \in Owners, st \in Statuses \union {status}, self \in BOOLEAN :
                 Load(s, kind, u, st, self)
           \/ \E r \in Ids, ok \in BOOLEAN : Answer(s, r, ok)
           \/ Listen(s) \/ FlushWorkflow(s) \/ FlushListened(s) \/ SelectPending(s)
           \/ FlushCancelled(s) \/ Revert(s) \/ Abort(s)
    PROVE  Apart(s)
<1>0. /\ tx \in [Sessions -> Transaction] /\ tx[s] \in Transaction
      /\ wfLock \in Sessions \union {NoSession} /\ reqLock \in [Ids -> Sessions \union {NoSession}]
      /\ NoSession \notin Sessions /\ field \in Owners /\ status \in WfStatus
  BY ConstantsAssumption, Zenon DEF TypeOK
<1>1. ASSUME NEW kind \in Kinds, NEW u \in Owners, NEW st \in Statuses \union {status},
             NEW self \in BOOLEAN, Load(s, kind, u, st, self)
      PROVE  Apart(s)
  <2> DEFINE x == [Idle EXCEPT !.pc = "loaded", !.kind = kind, !.self = self,
                      !.before = field, !.to = u, !.was = status, !.becomes = st]
  <2>1. x \in Transaction
    BY <1>0, IdleType, ConstantsAssumption, ZenonT(30) DEF Transaction, WfStatus
  <2>2. x.kind = kind
    BY IdleType, Zenon DEF Transaction
  <2>3. tx' = [tx EXCEPT ![s] = x] /\ (kind = "assign" => Len(reqs) + Assigning < MaxReqs)
    BY <1>1, Zenon DEF Load
  <2> HIDE DEF x
  <2> QED BY <1>0, <1>1, <2>1, <2>2, <2>3, Zenon DEF Load, Apart
<1>2. ASSUME NEW r \in Ids, NEW ok \in BOOLEAN, Answer(s, r, ok)
      PROVE  Apart(s)
  <2>1. r \in 1..Len(reqs) /\ reqs[r].prev \in Owners
    <3>1. r \in 1..Len(reqs)
      BY <1>2, Zenon DEF Answer, Pending
    <3>2. reqs[r] \in Row
      BY <3>1, RowIds, Zenon
    <3> QED BY <3>1, <3>2, Zenon DEF Row
  <2>2. tx'[s] \in Transaction /\ tx'[s].kind = "edit"
    BY <1>0, <1>2, <2>1, IdleType, ZenonT(30) DEF Answer, Transaction, Final, ReqStatus
  <2>3. tx' \in [Sessions -> Transaction] /\ \A t \in Sessions \ {s} : tx'[t] = tx[t]
    BY <1>0, <1>2, <2>2, ZenonT(30) DEF Answer
  <2>4. /\ reqLock' \in [Ids -> Sessions \union {NoSession}]
        /\ \A t \in Sessions \ {s}, q \in Ids : reqLock[q] = t => reqLock'[q] = t
    BY <1>0, <1>2, Zenon DEF Answer
  <2> QED BY <1>0, <1>2, <2>2, <2>3, <2>4, Zenon DEF Answer, Apart
<1>3. CASE Listen(s)
  <2> DEFINE f == [r \in Ids |-> IF r \in Pending THEN Resolution(s, r) ELSE "keep"]
  <2>1. f \in [Ids -> Final \union {"keep"}]
    BY Zenon DEF Resolution, Final, ReqStatus
  <2>2. tx' = [tx EXCEPT ![s].pc = "flush", ![s].fate = f]
    BY <1>3, Zenon DEF Listen
  <2> HIDE DEF f
  <2>3. tx'[s] \in Transaction /\ tx'[s].kind = tx[s].kind
    BY <1>0, <2>1, <2>2, Zenon DEF Transaction
  <2>4. tx' \in [Sessions -> Transaction] /\ \A t \in Sessions \ {s} : tx'[t] = tx[t]
    BY <1>0, <2>2, <2>3, Zenon
  <2> QED BY <1>0, <1>3, <2>3, <2>4, Zenon DEF Listen, Apart
<1>4. CASE FlushWorkflow(s) \/ Revert(s)
  <2>0. PICK p \in {"flushed", "commit"} : tx' = [tx EXCEPT ![s].pc = p]
    BY <1>4, Zenon DEF FlushWorkflow, Revert
  <2>1. tx'[s] \in Transaction /\ tx'[s].kind = tx[s].kind
    BY <1>0, <2>0, Zenon DEF Transaction
  <2>2. tx' \in [Sessions -> Transaction] /\ \A t \in Sessions \ {s} : tx'[t] = tx[t]
    BY <1>0, <2>0, <2>1, Zenon
  <2> QED BY <1>0, <1>4, <2>1, <2>2, Zenon DEF FlushWorkflow, Revert, Apart
<1>5. ASSUME NEW from, NEW to \in {"select", "commit"}, FlushRequests(s, from, to)
      PROVE  Apart(s)
  <2>1. tx'[s] \in Transaction /\ tx'[s].kind = tx[s].kind
    BY <1>0, <1>5, Zenon DEF FlushRequests, Transaction
  <2>2. tx' \in [Sessions -> Transaction] /\ \A t \in Sessions \ {s} : tx'[t] = tx[t]
    BY <1>0, <1>5, <2>1, Zenon DEF FlushRequests
  <2>3. /\ reqLock' \in [Ids -> Sessions \union {NoSession}]
        /\ \A t \in Sessions \ {s}, q \in Ids : reqLock[q] = t => reqLock'[q] = t
    BY <1>0, <1>5, Zenon DEF FlushRequests
  <2> QED BY <1>0, <1>5, <2>1, <2>2, <2>3, Zenon DEF FlushRequests, Apart
<1>6. CASE FlushListened(s) \/ FlushCancelled(s)
  BY <1>5, <1>6, Zenon DEF FlushListened, FlushCancelled
<1>7. CASE SelectPending(s)
  <2> DEFINE f == [r \in Ids |-> IF r \in Pending /\ tx[s].fate[r] = "keep"
                               THEN "cancelled" ELSE tx[s].fate[r]]
  <2>1. f \in [Ids -> Final \union {"keep"}]
    BY <1>0, Zenon DEF Transaction, Final, ReqStatus
  <2>2. tx' = [tx EXCEPT ![s].pc = "cancel", ![s].fate = f]
    BY <1>0, <1>7, Zenon DEF SelectPending
  <2> HIDE DEF f
  <2>3. tx'[s] \in Transaction /\ tx'[s].kind = tx[s].kind
    BY <1>0, <2>1, <2>2, Zenon DEF Transaction
  <2>4. tx' \in [Sessions -> Transaction] /\ \A t \in Sessions \ {s} : tx'[t] = tx[t]
    BY <1>0, <2>2, <2>3, Zenon
  <2> QED BY <1>0, <1>7, <2>3, <2>4, Zenon DEF SelectPending, Apart
<1>8. CASE Abort(s)
  <2>1. Release(s)
    BY <1>8, Zenon DEF Abort
  <2>2. tx'[s] \in Transaction /\ tx'[s].kind = "edit" /\ tx' \in [Sessions -> Transaction]
    BY <1>0, <2>1, IdleType, Zenon DEF Release
  <2> QED BY <1>0, <1>8, <2>1, <2>2, Released, Zenon DEF Abort, Apart
<1> QED BY <1>1, <1>2, <1>3, <1>4, <1>6, <1>7, <1>8, Zenon

\* COMMIT: an assignment has chosen all pending rows, and holds the workflow.
LEMMA PendingCommit ==
    ASSUME PendingInv, NEW s \in Sessions, Commit(s)
    PROVE  PendingInv'
<1> DEFINE n == Len(reqs)
           adds == tx[s].kind = "assign" /\ tx[s].to # NoUser
<1>1. TypeOK /\ Release(s) /\ Serialised(s) /\ tx[s].pc = "commit"
  BY Zenon DEF PendingInv, Commit
<1>2. /\ tx'[s] = Idle /\ \A t \in Sessions \ {s} : tx'[t] = tx[t]
      /\ wfLock' \in Sessions \union {NoSession} /\ (wfLock # s => wfLock' = wfLock)
      /\ reqLock' \in [Ids -> Sessions \union {NoSession}]
  BY <1>1, Released, Zenon
<1>3. n \in Nat /\ 1..n \subseteq Ids /\ MaxReqs \in Nat
  BY <1>1, RowIds, ConstantsAssumption, Zenon
<1>4. /\ reqs' \in Seq(Row) /\ Len(reqs') = IF adds THEN n + 1 ELSE n
      /\ \A r \in 1..n : reqs'[r].status = IF tx[s].fate[r] = "keep" THEN reqs[r].status ELSE tx[s].fate[r]
  BY <1>1, Committed, Zenon
<1>5. tx[s] \in Transaction
  BY <1>1, Zenon DEF TypeOK
<1>6. Room' /\ Len(reqs') <= MaxReqs
  <2>1. /\ Assigning \in Nat /\ Assigning' \in Nat /\ Assigning' <= Assigning
        /\ tx[s].kind = "assign" => Assigning' = Assigning - 1
    BY <1>2, AssignCount, IdleType, Zenon
  <2>2. n + Assigning <= MaxReqs
    BY Zenon DEF PendingInv, Room
  <2>3. Len(reqs') + Assigning' <= MaxReqs
    BY <1>3, <1>4, <2>1, <2>2
  <2> QED BY <1>3, <1>4, <2>1, <2>3 DEF Room
<1>7. TypeOK'
  <2>1. field' \in Owners /\ status' \in WfStatus
    BY <1>1, <1>5, Zenon DEF Commit, TypeOK, Transaction
  <2>2. tx' \in [Sessions -> Transaction]
    BY <1>1, IdleType, Zenon DEF Release, TypeOK
  <2> QED BY <1>2, <1>4, <1>6, <2>1, <2>2, Zenon DEF TypeOK
<1>8. ASSUME NEW r \in 1..n, r \in Pending'
      PROVE  r \in Pending /\ tx[s].fate[r] = "keep"
  <2>1. tx[s].fate[r] \in Final \union {"keep"} /\ reqs'[r].status = "pending"
    BY <1>3, <1>5, <1>8, Zenon DEF Transaction, Pending
  <2> QED BY <1>4, <2>1, Zenon DEF Final, Pending
<1>9. Pending' \subseteq 1..Len(reqs')
  BY Zenon DEF Pending
<1>10. tx[s].kind = "assign" => Pending' \subseteq {n + 1} /\ Pending' \intersect 1..n = {}
  <2>1. ASSUME tx[s].kind = "assign", NEW r \in Pending' PROVE r \notin 1..n
    BY <1>1, <1>8, <2>1, Zenon DEF Serialised, HasChosen
  <2>2. ASSUME tx[s].kind = "assign", NEW r \in Pending' PROVE r = n + 1
    BY <1>3, <1>4, <1>9, <2>1, <2>2
  <2> QED BY <2>1, <2>2, Zenon
<1>11. Pending' \subseteq {Len(reqs')}
  <2>1. CASE tx[s].kind = "assign"
    <3>1. ASSUME NEW r \in Pending' PROVE r = Len(reqs')
      BY <1>3, <1>4, <1>9, <1>10, <2>1, Zenon
    <3> QED BY <3>1, Zenon
  <2>2. CASE tx[s].kind # "assign"
    <3>1. Pending' \subseteq Pending /\ Len(reqs') = n
      BY <1>4, <1>8, <1>9, <2>2, Zenon
    <3> QED BY <3>1, Zenon DEF PendingInv
  <2> QED BY <2>1, <2>2, Zenon
<1>12. ASSUME NEW t \in Sessions PROVE Serialised(t)'
  <2>1. CASE t = s
    BY <1>2, <2>1, IdleType, Zenon DEF Serialised, HasWorkflow, HasChosen
  <2>2. CASE t # s
    <3>1. Serialised(t) /\ tx'[t] = tx[t] /\ (wfLock = t => wfLock' = t)
      BY <1>2, <2>2, Zenon DEF PendingInv
    <3>2. HasChosen(t) => tx[s].kind # "assign"
      BY <1>1, <2>2, <3>1, Zenon DEF Serialised, HasWorkflow, HasChosen
    <3>3. tx[s].kind # "assign" => Pending' \subseteq Pending
      BY <1>4, <1>8, <1>9, Zenon
    <3> QED BY <3>1, <3>2, <3>3, Zenon DEF Serialised, HasWorkflow, HasChosen
  <2> QED BY <2>1, <2>2, Zenon
<1> QED BY <1>6, <1>7, <1>11, <1>12, Zenon DEF PendingInv

LEMMA PendingNext == PendingInv /\ [Next]_vars => PendingInv'
<1> SUFFICES ASSUME PendingInv, [Next]_vars PROVE PendingInv'
  OBVIOUS
<1>0. TypeOK /\ tx \in [Sessions -> Transaction] /\ \A s \in Sessions : Serialised(s)
  BY Zenon DEF PendingInv, TypeOK
<1>1. ASSUME NEW s \in Sessions, NEW kind \in Kinds, NEW u \in Owners,
             NEW st \in Statuses \union {status}, NEW self \in BOOLEAN, Load(s, kind, u, st, self)
      PROVE  PendingInv'
  <2>1. tx'[s].pc = "loaded"
    BY <1>0, <1>1, IdleType, Zenon DEF Load, Transaction
  <2>2. Serialised(s)'
    BY <2>1, Zenon DEF Serialised, HasWorkflow, HasChosen
  <2> QED BY <1>0, <1>1, <2>2, ApartSteps, PendingApart, Zenon
<1>2. ASSUME NEW s \in Sessions, NEW r \in Ids, NEW ok \in BOOLEAN, Answer(s, r, ok)
      PROVE  PendingInv'
  <2>1. tx'[s].pc \in {"commit", "revert"} /\ tx'[s].kind = "edit"
    BY <1>0, <1>2, IdleType, Zenon DEF Answer, Transaction
  <2>2. Serialised(s)'
    BY <2>1, Zenon DEF Serialised, HasWorkflow, HasChosen
  <2> QED BY <1>0, <1>2, <2>2, ApartSteps, PendingApart, Zenon
<1>3. ASSUME NEW s \in Sessions, Listen(s) PROVE PendingInv'
  <2>1. tx'[s].pc = "flush"
    BY <1>0, <1>3, Zenon DEF Listen, Transaction
  <2>2. Serialised(s)'
    BY <2>1, Zenon DEF Serialised, HasWorkflow, HasChosen
  <2> QED BY <1>0, <1>3, <2>2, ApartSteps, PendingApart, Zenon
<1>4. ASSUME NEW s \in Sessions, FlushWorkflow(s) PROVE PendingInv'
  <2>1. tx'[s].pc = "flushed" /\ wfLock' = s
    BY <1>0, <1>4, Zenon DEF FlushWorkflow, Transaction
  <2>2. Serialised(s)'
    BY <2>1, Zenon DEF Serialised, HasWorkflow, HasChosen
  <2> QED BY <1>0, <1>4, <2>2, ApartSteps, PendingApart, Zenon
<1>5. ASSUME NEW s \in Sessions, FlushListened(s) PROVE PendingInv'
  <2>1. /\ tx[s].pc = "flushed" /\ wfLock' = wfLock /\ tx'[s].kind = tx[s].kind
        /\ tx'[s].pc = IF tx[s].kind = "assign" THEN "select" ELSE "commit"
    BY <1>0, <1>5, Zenon DEF FlushListened, FlushRequests, Transaction
  <2>2. Serialised(s)'
    BY <1>0, <2>1, Zenon DEF Serialised, HasWorkflow, HasChosen
  <2> QED BY <1>0, <1>5, <2>2, ApartSteps, PendingApart, Zenon
<1>6. ASSUME NEW s \in Sessions, SelectPending(s) PROVE PendingInv'
  <2>1. /\ tx[s].pc = "select" /\ wfLock' = wfLock /\ tx'[s].kind = tx[s].kind /\ tx'[s].pc = "cancel"
        /\ \A r \in Ids : tx'[s].fate[r] = IF r \in Pending /\ tx[s].fate[r] = "keep"
                                          THEN "cancelled" ELSE tx[s].fate[r]
    BY <1>0, <1>6, Zenon DEF SelectPending, Transaction
  <2>2. Pending' = Pending /\ Pending \subseteq Ids
    BY <1>0, <1>6, RowIds, SameRows, Zenon DEF SelectPending
  <2>3. Serialised(s)'
    BY <1>0, <2>1, <2>2, Zenon DEF Serialised, HasWorkflow, HasChosen
  <2> QED BY <1>0, <1>6, <2>3, ApartSteps, PendingApart, Zenon
<1>7. ASSUME NEW s \in Sessions, FlushCancelled(s) PROVE PendingInv'
  <2>1. /\ tx[s].pc = "cancel" /\ wfLock' = wfLock /\ tx'[s].kind = tx[s].kind
        /\ tx'[s].pc = "commit" /\ tx'[s].fate = tx[s].fate /\ reqs' = reqs
    BY <1>0, <1>7, Zenon DEF FlushCancelled, FlushRequests, Transaction
  <2>2. Serialised(s)'
    BY <1>0, <2>1, SameRows, Zenon DEF Serialised, HasWorkflow, HasChosen
  <2> QED BY <1>0, <1>7, <2>2, ApartSteps, PendingApart, Zenon
<1>8. ASSUME NEW s \in Sessions, Revert(s) PROVE PendingInv'
  <2>1. /\ tx[s].pc = "revert" /\ wfLock' = s /\ tx'[s].kind = tx[s].kind
        /\ tx'[s].pc = "commit" /\ tx'[s].fate = tx[s].fate /\ reqs' = reqs
    BY <1>0, <1>8, Zenon DEF Revert, Transaction
  <2>2. Serialised(s)'
    BY <1>0, <2>1, SameRows, Zenon DEF Serialised, HasWorkflow, HasChosen
  <2> QED BY <1>0, <1>8, <2>2, ApartSteps, PendingApart, Zenon
<1>9. ASSUME NEW s \in Sessions, Abort(s) PROVE PendingInv'
  <2>1. tx'[s] = Idle
    BY <1>0, <1>9, Released, Zenon DEF Abort
  <2>2. Serialised(s)'
    BY <2>1, IdleType, Zenon DEF Serialised, HasWorkflow, HasChosen
  <2> QED BY <1>0, <1>9, <2>2, ApartSteps, PendingApart, Zenon
<1>10. CASE UNCHANGED vars
  BY <1>10, Zenon DEF vars, PendingInv, TypeOK, Room, Assigning, Serialised, HasWorkflow, HasChosen, Pending
<1> QED BY Zenon, <1>1, <1>2, <1>3, <1>4, <1>5, <1>6, <1>7, <1>8, <1>9, <1>10, PendingCommit
        DEF Next, Step, Victim

\* The table, the locks and the transactions keep their types.
THEOREM TypesKept == Spec => []TypeOK
<1>1. PendingInv => TypeOK
  BY Zenon DEF PendingInv
<1> QED BY PendingInit, PendingNext, <1>1, PTL DEF Spec

\* The unique index on the pending rows of a role is never hit, however many
\* assignments, edits, task synchronisations and answers run at once.
THEOREM IndexNeverHit == Spec => []AtMostOnePending
<1>1. PendingInv => AtMostOnePending
  <2> SUFFICES ASSUME PendingInv PROVE AtMostOnePending
    OBVIOUS
  <2>1. Pending = {} \/ Pending = {Len(reqs)}
    BY Zenon DEF PendingInv
  <2>2. Cardinality(Pending) = 0 \/ Cardinality(Pending) = 1
    BY <2>1, FS_EmptySet, FS_Singleton, Zenon
  <2> QED BY <2>2 DEF AtMostOnePending
<1> QED BY PendingInit, PendingNext, <1>1, PTL DEF Spec
-----------------------------------------------------------------------------
(* A rejection gives back the role that was rejected, and nothing else, if   *)
(* nobody sets the role without sync_assignment_requests_for_changed_roles.  *)

LEMMA RejectionInit == Init => RejectionInv
<1> SUFFICES ASSUME Init PROVE RejectionInv
  OBVIOUS
<1>1. \A s \in Sessions : tx[s] = Idle
  BY DEF Init
<1>2. reqs = <<>> /\ 1..Len(reqs) = {} /\ Pending = {}
  BY DEF Init, Pending
<1>3. ASSUME NEW s \in Sessions PROVE Careful(s)
  BY <1>1, IdleType, Zenon DEF Careful, Rejecting
<1> QED BY <1>2, <1>3, Zenon DEF RejectionInv, PendingIsCurrent, RejectionTakesEffect

LEMMA RejectionApart ==
    ASSUME RejectionInv, NEW s \in Sessions, Apart(s), Careful(s)'
    PROVE  RejectionInv'
<1>1. Pending' = Pending /\ reqs' = reqs /\ field' = field
  BY SameRows, Zenon DEF Apart
<1>2. ASSUME NEW t \in Sessions \ {s} PROVE Careful(t)'
  <2>1. Careful(t) /\ tx'[t] = tx[t] /\ (wfLock = t => wfLock' = t)
    BY Zenon DEF RejectionInv, Apart
  <2>2. \A r \in Ids : reqLock[r] = t => reqLock'[r] = t
    BY Zenon DEF Apart
  <2>3. Rejecting(t)' <=> Rejecting(t)
    BY <2>1, Zenon DEF Rejecting
  <2>4. ASSUME NEW r \in Ids, Rejects(t, r) PROVE Rejects(t, r)'
    BY <1>1, <2>1, <2>2, <2>4, Zenon DEF Rejects
  <2>5. Chosen(t)' = Chosen(t) /\ Locked(t) \subseteq Locked(t)'
    BY <2>1, <2>2, Zenon DEF Chosen, Locked
  <2> QED BY <2>1, <2>3, <2>4, <2>5, Zenon DEF Careful
<1>3. PendingIsCurrent' /\ RejectionTakesEffect'
  BY <1>1, Zenon DEF RejectionInv, PendingIsCurrent, RejectionTakesEffect
<1> QED BY <1>1, <1>2, <1>3, Zenon DEF RejectionInv

\* Two sessions cannot reject, or assign and reject, at the same time: each
\* would hold the only pending row.
LEMMA OneHolder ==
    ASSUME PendingInv, RejectionInv, NEW s \in Sessions, NEW t \in Sessions \ {s},
           tx[s].pc = "commit", tx[s].kind = "assign" \/ Rejecting(s), NEW r \in Ids
    PROVE  ~Rejects(t, r)
<1> SUFFICES ASSUME Rejects(t, r) PROVE FALSE
  OBVIOUS
<1>1. r \in Pending /\ r = Len(reqs) /\ reqLock[r] = t
  BY Zenon DEF Rejects, PendingInv
<1>2. Careful(s) /\ Serialised(s)
  BY Zenon DEF PendingInv, RejectionInv
<1>3. tx[s].fate[r] # "keep"
  <2>1. CASE tx[s].kind = "assign"
    BY <1>1, <1>2, <2>1, Zenon DEF Serialised, HasChosen
  <2>2. CASE Rejecting(s)
    BY <1>1, <1>2, <2>2, Zenon DEF Careful, Rejects, PendingInv
  <2> QED BY <2>1, <2>2, Zenon
<1>4. reqLock[r] = s
  BY <1>2, <1>3, Zenon DEF Careful, Chosen, Locked
<1> QED BY <1>1, <1>4, Zenon

\* COMMIT of an assignment, of a rejection, and of any other change.
LEMMA RejectionCommit ==
    ASSUME PendingInv, RejectionInv, NEW s \in Sessions, Commit(s)
    PROVE  RejectionInv'
<1> DEFINE n == Len(reqs)
           f == tx[s].fate
<1>1. TypeOK /\ Release(s) /\ Serialised(s) /\ Careful(s) /\ tx[s].pc = "commit" /\ tx[s] \in Transaction
  BY Zenon DEF PendingInv, RejectionInv, Commit, TypeOK
<1>2. /\ tx'[s] = Idle /\ \A t \in Sessions \ {s} : tx'[t] = tx[t]
      /\ \A t \in Sessions \ {s} : wfLock = t => wfLock' = t
      /\ \A t \in Sessions \ {s}, r \in Ids : reqLock[r] = t => reqLock'[r] = t
  BY <1>1, Released, Zenon
<1>3. n \in Nat /\ 1..n \subseteq Ids /\ \A r \in 1..n : reqs[r] \in Row
  BY <1>1, RowIds, Zenon
<1>4. \A r \in 1..n : /\ reqs'[r].target = reqs[r].target /\ reqs'[r].prev = reqs[r].prev
                      /\ reqs'[r].status = IF f[r] = "keep" THEN reqs[r].status ELSE f[r]
  BY <1>1, Committed, Zenon
<1>5. /\ tx[s].kind # "set" /\ field' = IF tx[s].to # tx[s].before THEN tx[s].to ELSE field
      /\ tx[s].kind \in {"assign", "set", "edit"} /\ f \in [Ids -> Final \union {"keep"}]
      /\ tx[s].to \in Owners
  BY <1>1, Zenon DEF Commit, Careful, Transaction
<1>6. ASSUME NEW r \in 1..n, r \in Pending'
      PROVE  r \in Pending /\ f[r] = "keep"
  <2>1. f[r] \in Final \union {"keep"} /\ reqs'[r].status = "pending"
    BY <1>3, <1>5, <1>6, Zenon DEF Pending
  <2> QED BY <1>4, <2>1, Zenon DEF Final, Pending
<1>7. Careful(s)'
  BY <1>2, IdleType, Zenon DEF Careful, Rejecting
<1>8. ASSUME NEW t \in Sessions \ {s}, \A r \in Ids : Rejects(t, r) => Rejects(t, r)'
      PROVE  Careful(t)'
  <2>1. Careful(t) /\ tx'[t] = tx[t]
    BY <1>2, Zenon DEF RejectionInv
  <2>2. Rejecting(t)' <=> Rejecting(t)
    BY <2>1, Zenon DEF Rejecting
  <2>3. Chosen(t)' = Chosen(t) /\ Locked(t) \subseteq Locked(t)'
    BY <1>2, <2>1, Zenon DEF Chosen, Locked
  <2> QED BY <1>8, <2>1, <2>2, <2>3, Zenon DEF Careful
<1>9. CASE tx[s].kind = "assign"
  <2>1. tx[s].to # tx[s].before /\ field' = tx[s].to
    BY <1>1, <1>5, <1>9, Zenon DEF Careful
  <2>2. ASSUME NEW r \in Pending' PROVE r \notin 1..n
    BY <1>1, <1>6, <1>9, <2>2, Zenon DEF Serialised, HasChosen
  <2>3. CASE tx[s].to = NoUser
    <3>1. Len(reqs') = n
      BY <1>1, <2>3, Committed, Zenon
    <3>2. Pending' = {}
      BY <2>2, <3>1, Zenon DEF Pending
    <3>3. \A r \in 1..n : reqs'[r].target # field'
      BY <1>3, <1>4, <2>1, <2>3, ConstantsAssumption, Zenon DEF Row
    <3>4. RejectionTakesEffect'
      <4>1. reqs' # <<>> => n \in 1..n
        BY <1>1, <1>3, <3>1, Committed, EmptySeq
      <4> QED BY <3>1, <3>3, <4>1, Zenon DEF RejectionTakesEffect
    <3>5. \A r \in 1..Len(reqs') : reqs'[r].prev # reqs'[r].target
      BY <1>4, <3>1, Zenon DEF RejectionInv
    <3> QED BY <1>1, <1>7, <1>8, <1>9, <3>2, <3>4, <3>5, OneHolder, Zenon DEF RejectionInv, PendingIsCurrent
  <2>4. CASE tx[s].to # NoUser
    <3>1. /\ Len(reqs') = n + 1
          /\ reqs'[n + 1] = [status |-> NewStatus(s), target |-> tx[s].to, prev |-> tx[s].before]
      BY <1>1, <1>9, <2>4, Committed, Zenon
    <3>2. reqs'[n + 1].target = field' /\ reqs'[n + 1].prev # field' /\ reqs'[n + 1].status = NewStatus(s)
      BY <2>1, <3>1
    <3>3. NewStatus(s) # "rejected"
      BY <1>1, Zenon DEF NewStatus, Transaction, WfStatus
    <3>4. Pending' \subseteq {n + 1}
      BY <1>3, <2>2, <3>1 DEF Pending
    <3>5. PendingIsCurrent' /\ RejectionTakesEffect'
      BY <3>1, <3>2, <3>3, <3>4, Zenon DEF PendingIsCurrent, RejectionTakesEffect
    <3>6. ASSUME NEW r \in 1..Len(reqs') PROVE reqs'[r].prev # reqs'[r].target
      <4>1. CASE r \in 1..n
        BY <1>4, <4>1, Zenon DEF RejectionInv
      <4>2. CASE r \notin 1..n
        <5>1. r = n + 1
          BY <1>3, <3>1, <4>2
        <5> QED BY <3>2, <5>1, Zenon
      <4> QED BY <4>1, <4>2, Zenon
    <3> QED BY <1>1, <1>7, <1>8, <1>9, <3>5, <3>6, OneHolder, Zenon DEF RejectionInv
  <2> QED BY <2>3, <2>4, Zenon
<1>10. CASE tx[s].kind # "assign"
  <2>1. Len(reqs') = n /\ Pending' \subseteq Pending /\ tx[s].kind = "edit"
    <3>1. Len(reqs') = n
      BY <1>1, <1>10, Committed, Zenon
    <3> QED BY <1>5, <1>6, <1>10, <3>1, Zenon DEF Pending
  <2>2. \A r \in 1..Len(reqs') : reqs'[r].prev # reqs'[r].target
    BY <1>4, <2>1, Zenon DEF RejectionInv
  <2>3. reqs' # <<>> => reqs # <<>> /\ n \in 1..n
    <3>1. reqs' # <<>> => Len(reqs') \in Nat \ {0}
      BY <1>1, Committed, EmptySeq, Zenon
    <3>2. Len(<<>>) = 0
      BY EmptySeq, Zenon
    <3> QED BY <1>3, <2>1, <3>1, <3>2
  <2>4. CASE Rejecting(s)
    <3>1. PICK r \in Ids : Rejects(s, r)
      BY <1>1, <2>4, Zenon DEF Careful
    <3>2. /\ r \in Pending /\ r = n /\ r \in 1..n /\ f[r] # "keep"
          /\ reqs[r].target = field /\ tx[s].before = field /\ tx[s].to = reqs[r].prev
      BY <3>1, Zenon DEF Rejects, PendingInv, Pending
    <3>3. field' # field
      BY <1>5, <3>2, Zenon DEF RejectionInv
    <3>4. Pending' = {}
      BY <1>6, <2>1, <3>2, Zenon DEF PendingInv
    <3>5. RejectionTakesEffect'
      BY <1>4, <2>1, <3>2, <3>3, Zenon DEF RejectionTakesEffect
    <3> QED BY <1>1, <1>7, <1>8, <2>2, <2>4, <3>4, <3>5, OneHolder, Zenon DEF RejectionInv, PendingIsCurrent
  <2>5. CASE ~Rejecting(s)
    <3>1. field' = field
      BY <1>1, <1>5, <2>1, <2>5, Zenon DEF Careful
    <3>2. PendingIsCurrent'
      <4>1. Pending \subseteq 1..n
        BY Zenon DEF Pending
      <4> QED BY <1>4, <2>1, <3>1, <4>1, Zenon DEF RejectionInv, PendingIsCurrent
    <3>3. RejectionTakesEffect'
      <4>1. ASSUME reqs' # <<>>, reqs'[n].status = "rejected" PROVE reqs[n].status = "rejected"
        <5>1. n \in 1..n /\ n \in Ids
          BY <1>3, <2>3, <4>1, Zenon
        <5>2. f[n] # "rejected"
          BY <2>5, <5>1, Zenon DEF Rejecting
        <5> QED BY <1>4, <4>1, <5>1, <5>2, Zenon
      <4> QED BY <1>4, <2>1, <2>3, <3>1, <4>1, Zenon DEF RejectionInv, RejectionTakesEffect
    <3>4. ASSUME NEW t \in Sessions \ {s}, NEW r \in Ids, Rejects(t, r) PROVE Rejects(t, r)'
      <4>1. r \in Pending /\ reqLock[r] = t /\ r \in 1..n
        BY <3>4, Zenon DEF Rejects, Pending
      <4>2. f[r] = "keep"
        BY <1>1, <4>1, Zenon DEF Careful, Chosen, Locked
      <4>3. r \in Pending'
        BY <1>4, <2>1, <4>1, <4>2, Zenon DEF Pending
      <4>4. reqs'[r].target = reqs[r].target /\ reqs'[r].prev = reqs[r].prev
        BY <1>4, <4>1, Zenon
      <4> QED BY <1>2, <3>1, <3>4, <4>3, <4>4, Zenon DEF Rejects
    <3> QED BY <1>7, <1>8, <2>2, <3>2, <3>3, <3>4, Zenon DEF RejectionInv
  <2> QED BY <2>4, <2>5, Zenon
<1> QED BY <1>9, <1>10, Zenon

\* A step that keeps who moves what, and rejects nothing, is careful.
LEMMA CarefulStep ==
    ASSUME NEW s \in Sessions, Careful(s), tx[s].pc \notin {"idle", "revert", "commit"},
           tx'[s].kind = tx[s].kind, tx'[s].to = tx[s].to, tx'[s].before = tx[s].before,
           tx'[s].pc # "revert", tx'[s].pc = "commit" => Chosen(s)' \subseteq Locked(s)',
           \A r \in Ids : tx'[s].fate[r] \in {tx[s].fate[r], "accepted", "cancelled", "moved", "keep"}
    PROVE  Careful(s)'
<1>1. ~Rejecting(s)
  BY Zenon DEF Careful, Rejects
<1>2. ~Rejecting(s)'
  BY <1>1, Zenon DEF Rejecting
<1> QED BY <1>1, <1>2, Zenon DEF Careful

LEMMA RejectionNext ==
    ASSUME "set" \notin Kinds, PendingInv, RejectionInv, [Next]_vars
    PROVE  RejectionInv'
<1>0. TypeOK /\ tx \in [Sessions -> Transaction] /\ \A s \in Sessions : Careful(s) /\ Serialised(s)
  BY Zenon DEF PendingInv, TypeOK, RejectionInv
<1>1. ASSUME NEW s \in Sessions, NEW kind \in Kinds, NEW u \in Owners,
             NEW st \in Statuses \union {status}, NEW self \in BOOLEAN, Load(s, kind, u, st, self)
      PROVE  RejectionInv'
  <2>1. /\ tx'[s].pc = "loaded" /\ tx'[s].kind = kind /\ tx'[s].before = field /\ tx'[s].to = u
        /\ tx'[s].fate = Idle.fate
    BY <1>0, <1>1, IdleType, Zenon DEF Load, Transaction
  <2>2. ~Rejecting(s)'
    BY <2>1, IdleType, Zenon DEF Rejecting
  <2>3. kind # "set" /\ (kind = "assign" => u # field) /\ (kind = "edit" => u = field)
    BY <1>1, Zenon DEF Load
  <2>4. Careful(s)'
    BY <2>1, <2>2, <2>3, Zenon DEF Careful
  <2> QED BY <1>0, <1>1, <2>4, ApartSteps, RejectionApart, Zenon
<1>2. ASSUME NEW s \in Sessions, NEW r \in Ids, NEW ok \in BOOLEAN, Answer(s, r, ok)
      PROVE  RejectionInv'
  <2>1. r \in Pending /\ reqs[r].target = field /\ Pending' = Pending /\ reqs' = reqs /\ field' = field
    BY <1>2, SameRows, Zenon DEF Answer, RejectionInv, PendingIsCurrent
  <2>2. reqLock'[r] = s
    BY <1>0, <1>2, Zenon DEF Answer, TypeOK
  <2>3. /\ tx'[s].kind = "edit"
        /\ \A q \in Ids : tx'[s].fate[q] = IF q = r THEN IF ok THEN "accepted" ELSE "rejected" ELSE "keep"
        /\ IF ok THEN tx'[s].pc = "commit" /\ tx'[s].to = tx'[s].before
           ELSE tx'[s].pc = "revert" /\ tx'[s].before = field /\ tx'[s].to = reqs[r].prev
    BY <1>0, <1>2, <2>1, IdleType, Zenon DEF Answer, Transaction
  <2>4. Chosen(s)' \subseteq Locked(s)'
    BY <2>2, <2>3, Zenon DEF Chosen, Locked
  <2>5. Rejecting(s)' <=> ~ok
    BY <2>3, Zenon DEF Rejecting
  <2>6. ~ok => Rejects(s, r)'
    BY <2>1, <2>2, <2>3, Zenon DEF Rejects
  <2>7. Careful(s)'
    BY <2>3, <2>4, <2>5, <2>6, Zenon DEF Careful
  <2> QED BY <1>0, <1>2, <2>7, ApartSteps, RejectionApart, Zenon
<1>3. ASSUME NEW s \in Sessions, Listen(s) PROVE RejectionInv'
  <2>1. /\ tx[s].pc = "loaded" /\ tx'[s].pc = "flush" /\ tx'[s].kind = tx[s].kind
        /\ tx'[s].to = tx[s].to /\ tx'[s].before = tx[s].before
        /\ \A r \in Ids : tx'[s].fate[r] = IF r \in Pending THEN Resolution(s, r) ELSE "keep"
    BY <1>0, <1>3, Zenon DEF Listen, Transaction
  <2>2. \A r \in Ids : Resolution(s, r) \in {"accepted", "cancelled", "moved", "keep"}
    BY Zenon DEF Resolution
  <2>3. Careful(s)'
    BY <1>0, <2>1, <2>2, CarefulStep, Zenon
  <2> QED BY <1>0, <1>3, <2>3, ApartSteps, RejectionApart, Zenon
<1>4. ASSUME NEW s \in Sessions, FlushWorkflow(s) PROVE RejectionInv'
  <2>1. /\ tx[s].pc = "flush" /\ tx'[s].pc = "flushed" /\ tx'[s].kind = tx[s].kind
        /\ tx'[s].to = tx[s].to /\ tx'[s].before = tx[s].before /\ tx'[s].fate = tx[s].fate
    BY <1>0, <1>4, Zenon DEF FlushWorkflow, Transaction
  <2>2. Careful(s)'
    BY <1>0, <2>1, CarefulStep, Zenon
  <2> QED BY <1>0, <1>4, <2>2, ApartSteps, RejectionApart, Zenon
<1>5. ASSUME NEW s \in Sessions, FlushListened(s) \/ FlushCancelled(s) PROVE RejectionInv'
  <2>1. PICK from \in {"flushed", "cancel"}, to \in {"select", "commit"} : FlushRequests(s, from, to)
    BY <1>5, Zenon DEF FlushListened, FlushCancelled
  <2>2. /\ tx[s].pc = from /\ tx'[s].pc = to /\ tx'[s].kind = tx[s].kind
        /\ tx'[s].to = tx[s].to /\ tx'[s].before = tx[s].before /\ tx'[s].fate = tx[s].fate
    BY <1>0, <2>1, Zenon DEF FlushRequests, Transaction
  <2>3. Chosen(s)' \subseteq Locked(s)'
    BY <2>1, <2>2, Zenon DEF FlushRequests, Chosen, Locked
  <2>4. Careful(s)'
    BY <1>0, <2>2, <2>3, CarefulStep, Zenon
  <2> QED BY <1>0, <1>5, <2>4, ApartSteps, RejectionApart, Zenon
<1>6. ASSUME NEW s \in Sessions, SelectPending(s) PROVE RejectionInv'
  <2>1. /\ tx[s].pc = "select" /\ tx'[s].pc = "cancel" /\ tx'[s].kind = tx[s].kind
        /\ tx'[s].to = tx[s].to /\ tx'[s].before = tx[s].before
        /\ \A r \in Ids : tx'[s].fate[r] \in {tx[s].fate[r], "cancelled"}
    BY <1>0, <1>6, Zenon DEF SelectPending, Transaction
  <2>2. Careful(s)'
    BY <1>0, <2>1, CarefulStep, Zenon
  <2> QED BY <1>0, <1>6, <2>2, ApartSteps, RejectionApart, Zenon
<1>7. ASSUME NEW s \in Sessions, Revert(s) PROVE RejectionInv'
  <2>1. /\ tx[s].pc = "revert" /\ tx'[s].pc = "commit" /\ tx'[s].kind = tx[s].kind /\ wfLock' = s
        /\ tx'[s].to = tx[s].to /\ tx'[s].before = tx[s].before /\ tx'[s].fate = tx[s].fate
        /\ reqLock' = reqLock /\ reqs' = reqs /\ field' = field
    BY <1>0, <1>7, Zenon DEF Revert, Transaction
  <2>2. Careful(s) /\ tx[s].kind = "edit" /\ Rejecting(s)
    BY <1>0, <2>1, Zenon DEF Careful, Serialised
  <2>3. PICK r \in Ids : Rejects(s, r)
    BY <2>2, Zenon DEF Careful
  <2>4. Rejects(s, r)' /\ Rejecting(s)'
    BY <2>1, <2>2, <2>3, SameRows, Zenon DEF Rejects, Rejecting
  <2>5. Chosen(s)' = Chosen(s) /\ Locked(s)' = Locked(s)
    BY <2>1, Zenon DEF Chosen, Locked
  <2>6. Careful(s)'
    BY <2>1, <2>2, <2>4, <2>5, Zenon DEF Careful
  <2> QED BY <1>0, <1>7, <2>6, ApartSteps, RejectionApart, Zenon
<1>8. ASSUME NEW s \in Sessions, Abort(s) PROVE RejectionInv'
  <2>1. tx'[s] = Idle
    BY <1>0, <1>8, Released, Zenon DEF Abort
  <2>2. Careful(s)'
    BY <2>1, IdleType, Zenon DEF Careful, Rejecting
  <2> QED BY <1>0, <1>8, <2>2, ApartSteps, RejectionApart, Zenon
<1>9. CASE UNCHANGED vars
  <2>1. /\ field' = field /\ status' = status /\ reqs' = reqs /\ wfLock' = wfLock
        /\ reqLock' = reqLock /\ tx' = tx
    BY <1>9, Zenon DEF vars
  <2>2. ASSUME NEW s \in Sessions PROVE Careful(s)'
    BY <1>0, <2>1, Zenon DEF Careful, Chosen, Locked, Rejecting, Rejects, Pending
  <2> QED BY <2>1, <2>2, Zenon DEF RejectionInv, PendingIsCurrent, RejectionTakesEffect, Pending
<1> QED BY Zenon, <1>1, <1>2, <1>3, <1>4, <1>5, <1>6, <1>7, <1>8, <1>9, RejectionCommit
        DEF Next, Step, Victim

LEMMA RejectionAlways ==
    ASSUME "set" \notin Kinds
    PROVE  Spec => [](PendingIsCurrent /\ RevertIsCurrent /\ RejectionTakesEffect)
<1>1. PendingInv /\ RejectionInv /\ [Next]_vars => (PendingInv /\ RejectionInv)'
  BY PendingNext, RejectionNext, Zenon
<1>2. RejectionInv => PendingIsCurrent /\ RevertIsCurrent /\ RejectionTakesEffect
  <2> SUFFICES ASSUME RejectionInv PROVE RevertIsCurrent
    BY Zenon DEF RejectionInv
  <2>1. ASSUME NEW s \in Sessions, Rejecting(s) PROVE field = tx[s].before
    BY <2>1, Zenon DEF RejectionInv, Careful, Rejects
  <2> QED BY <2>1, Zenon DEF RevertIsCurrent
<1> QED BY PendingInit, RejectionInit, <1>1, <1>2, PTL DEF Spec

\* While every change of the role goes through
\* sync_assignment_requests_for_changed_roles: a pending request asks the user
\* who has the role, and a rejection in progress gives back the role it was
\* asked about.
THEOREM RequestsFit ==
    ASSUME "set" \notin Kinds
    PROVE  Spec => [](PendingIsCurrent /\ RevertIsCurrent)
  BY RejectionAlways, PTL

\* Under the same assumption, once reject_assignment_request has committed the
\* role is not with the user who rejected it.
THEOREM RejectionsFit ==
    ASSUME "set" \notin Kinds
    PROVE  Spec => []RejectionTakesEffect
  BY RejectionAlways, PTL
=============================================================================
