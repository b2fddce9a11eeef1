------------------------- MODULE AssignmentRequests -------------------------
(***************************************************************************)
(* Assignment confirmation (services/workflow/assignment_requests.py and   *)
(* the before_flush listener of models/workflow.py).                       *)
(*                                                                         *)
(* Giving a role of a workflow to another user creates a request that the  *)
(* user accepts or rejects; rejecting gives the role back.  The model has  *)
(* one workflow and one role: the roles are handled one after the other by *)
(* the same code.  Web requests are transactions at READ COMMITTED: a      *)
(* SELECT sees what is committed, an UPDATE or SELECT FOR UPDATE takes the *)
(* row lock and keeps it, and the ORM writes the columns that changed, by  *)
(* primary key.  Changes reach the database at the first query after them  *)
(* (autoflush), the workflow before its requests.                          *)
(***************************************************************************)
EXTENDS Integers, Sequences, FiniteSets

CONSTANTS
    Sessions, Users, NoUser, NoSession,
    MaxReqs,    \* bound on the requests that are created
    Kinds,      \* subset of {"assign", "set", "edit"}: which writers there are
    Statuses    \* subset of WfStatus: the statuses a workflow is changed to

VARIABLES
    field, status,     \* the workflow: user of the role, and status
    reqs,              \* workflow_assignment_requests, by id
    wfLock, reqLock,   \* row locks
    tx                 \* per session: its transaction

vars == <<field, status, reqs, wfLock, reqLock, tx>>

ASSUME ConstantsAssumption ==
    /\ NoUser \notin Users /\ NoSession \notin Sessions /\ IsFiniteSet(Sessions)
    /\ MaxReqs \in Nat /\ Kinds \subseteq {"assign", "set", "edit"}
    /\ Statuses \subseteq {"open", "completed", "abandoned"}

Ids    == 1..MaxReqs
Owners == Users \union {NoUser}

\* "moved" is cancelled with the note workflow-assignment-changed.
ReqStatus == {"pending", "accepted", "rejected", "cancelled", "moved"}
Final     == ReqStatus \ {"pending"}
WfStatus  == {"open", "completed", "abandoned"}

\* No transaction.
Idle == [pc |-> "idle", kind |-> "edit", self |-> FALSE, before |-> NoUser, to |-> NoUser,
         was |-> "open", becomes |-> "open", fate |-> [r \in Ids |-> "keep"]]

Pending == {r \in 1..Len(reqs) : reqs[r].status = "pending"}

\* The rows that the session is going to write.
Chosen(s) == {r \in Ids : tx[s].fate[r] # "keep"}
Locked(s) == {r \in Ids : reqLock[r] = s}
-----------------------------------------------------------------------------
Init ==
    /\ field \in Owners /\ status = "open" /\ reqs = <<>>
    /\ wfLock = NoSession /\ reqLock = [r \in Ids |-> NoSession]
    /\ tx = [s \in Sessions |-> Idle]
-----------------------------------------------------------------------------
(* Transactions that write the workflow: "assign" calls                     *)
(* sync_assignment_requests_for_changed_roles (update_status, bulk transfer, *)
(* quick edits), "set" gives the role to someone without it (task_sync),    *)
(* "edit" changes other columns, the status perhaps.  (A form that changes   *)
(* status and role flushes the status, as an edit, before it looks at roles.) *)

Assigning == Cardinality({s \in Sessions : tx[s].kind = "assign"})

Load(s, kind, u, st, self) ==
    /\ tx[s].pc = "idle" /\ kind \in Kinds
    /\ kind = "edit" <=> u = field
    /\ kind = "assign" => st = status /\ Len(reqs) + Assigning < MaxReqs
    /\ self => kind = "assign" /\ u # NoUser
    /\ tx' = [tx EXCEPT ![s] = [Idle EXCEPT !.pc = "loaded", !.kind = kind, !.self = self,
                 !.before = field, !.to = u, !.was = status, !.becomes = st]]
    /\ UNCHANGED <<field, status, reqs, wfLock, reqLock>>

\* _finalize_assignment_request_for_workflow: what becomes of a pending
\* request r, by the workflow as this session has it in memory.
Resolution(s, r) ==
    CASE tx[s].becomes = "completed" -> "accepted"
      [] tx[s].becomes = "abandoned" -> "cancelled"
      [] tx[s].becomes = "open" /\ reqs[r].target # tx[s].to -> "moved"
      [] OTHER -> "keep"

\* The before_flush listener reads the pending rows; no lock is held yet.
Listen(s) ==
    /\ tx[s].pc = "loaded"
    /\ tx' = [tx EXCEPT ![s].pc = "flush",
                        ![s].fate = [r \in Ids |-> IF r \in Pending THEN Resolution(s, r) ELSE "keep"]]
    /\ UNCHANGED <<field, status, reqs, wfLock, reqLock>>

FlushLockless(s) ==  \* mutated form: the workflow is written at the commit
    /\ tx[s].pc = "flush"
    /\ tx' = [tx EXCEPT ![s].pc = "flushed"]
    /\ UNCHANGED <<field, status, reqs, wfLock, reqLock>>
\* The flush: UPDATE of the workflow, which waits for its row lock.
FlushWorkflow(s) ==
    /\ tx[s].pc = "flush" /\ wfLock = NoSession
    /\ wfLock' = s
    /\ tx' = [tx EXCEPT ![s].pc = "flushed"]
    /\ UNCHANGED <<field, status, reqs, reqLock>>

\* UPDATE of the rows chosen, by id: it waits for their locks.
FlushRequests(s, from, to) ==
    /\ tx[s].pc = from
    /\ \A r \in Chosen(s) : reqLock[r] \in {s, NoSession}
    /\ reqLock' = [r \in Ids |-> IF r \in Chosen(s) THEN s ELSE reqLock[r]]
    /\ tx' = [tx EXCEPT ![s].pc = to]
    /\ UNCHANGED <<field, status, reqs, wfLock>>

FlushListened(s) ==
    FlushRequests(s, "flushed", IF tx[s].kind = "assign" THEN "select" ELSE "commit")

SelectNothing(s) ==  \* mutated form: pending requests are not looked for
    /\ tx[s].pc = "select"
    /\ tx' = [tx EXCEPT ![s].pc = "cancel"]
    /\ UNCHANGED <<field, status, reqs, wfLock, reqLock>>
\* _pending_for_role: rows pending now, but for those this session resolved.
SelectPending(s) ==
    /\ tx[s].pc = "select"
    /\ tx' = [tx EXCEPT ![s].pc = "cancel",
                        ![s].fate = [r \in Ids |-> IF r \in Pending /\ @[r] = "keep" THEN "cancelled" ELSE @[r]]]
    /\ UNCHANGED <<field, status, reqs, wfLock, reqLock>>

FlushCancelled(s) == FlushRequests(s, "cancel", "commit")

\* request_assignment_confirmation: the request this session inserts.
NewStatus(s) ==
    CASE tx[s].becomes = "completed" -> "accepted"
      [] tx[s].becomes = "abandoned" -> "cancelled"
      [] tx[s].becomes = "open" /\ tx[s].self -> "accepted"
      [] OTHER -> "pending"

NewReqs(s) ==
    IF tx[s].kind = "assign" /\ tx[s].to # NoUser
    THEN <<[status |-> NewStatus(s), target |-> tx[s].to, prev |-> tx[s].before]>>
    ELSE <<>>

Resolved(s) ==
    [r \in 1..Len(reqs) |-> IF tx[s].fate[r] = "keep" THEN reqs[r]
                            ELSE [reqs[r] EXCEPT !.status = tx[s].fate[r]]]

Release(s) ==
    /\ wfLock'  = IF wfLock = s THEN NoSession ELSE wfLock
    /\ reqLock' = [r \in Ids |-> IF reqLock[r] = s THEN NoSession ELSE reqLock[r]]
    /\ tx' = [tx EXCEPT ![s] = Idle]

\* The unique index on pending rows, the changed columns, and COMMIT.
Commit(s) ==
    /\ tx[s].pc = "commit"
    /\ Release(s)
    /\ field'  = IF tx[s].to # tx[s].before THEN tx[s].to ELSE field
    /\ status' = IF tx[s].becomes # tx[s].was THEN tx[s].becomes ELSE status
    /\ reqs'   = Resolved(s) \o NewReqs(s)
-----------------------------------------------------------------------------
(* respond_assignment_request by the target user.                           *)

AnswerKeepsField(s, r, ok) ==  \* mutated form: rejecting leaves the role where it is
    /\ tx[s].pc = "idle" /\ r \in Pending /\ reqLock[r] = NoSession
    /\ reqLock' = [reqLock EXCEPT ![r] = s]
    /\ tx' = [tx EXCEPT ![s] = [Idle EXCEPT !.pc = "commit",
                                            !.fate[r] = IF ok THEN "accepted" ELSE "rejected"]]
    /\ UNCHANGED <<field, status, reqs, wfLock>>
\* SELECT FOR UPDATE; a request that is final is left alone.  A rejection
\* gives the role back if, in the workflow as it is read now, it still is
\* with the target.
Answer(s, r, ok) ==
    /\ tx[s].pc = "idle" /\ r \in Pending /\ reqLock[r] = NoSession
    /\ reqLock' = [reqLock EXCEPT ![r] = s]
    /\ tx' = [tx EXCEPT ![s] =
                IF ok THEN [Idle EXCEPT !.pc = "commit", !.fate[r] = "accepted"]
                ELSE IF field # reqs[r].target
                THEN [Idle EXCEPT !.pc = "commit", !.fate[r] = "rejected"]
                ELSE [Idle EXCEPT !.pc = "revert", !.fate[r] = "rejected",
                                  !.before = field, !.to = reqs[r].prev]]
    /\ UNCHANGED <<field, status, reqs, wfLock>>

\* The flush of the workflow with the role given back.
Revert(s) ==
    /\ tx[s].pc = "revert" /\ wfLock = NoSession
    /\ wfLock' = s /\ tx' = [tx EXCEPT ![s].pc = "commit"]
    /\ UNCHANGED <<field, status, reqs, reqLock>>
-----------------------------------------------------------------------------
\* The transaction fails and is rolled back.
Abort(s) == tx[s].pc # "idle" /\ Release(s) /\ UNCHANGED <<field, status, reqs>>

\* s waits for the workflow that t has locked, t for a request of s.
Deadlocked(s, t) ==
    /\ tx[s].pc \in {"flush", "revert"} /\ wfLock = t
    /\ tx[t].pc \in {"flushed", "cancel"} /\ Chosen(t) \intersect Locked(s) # {}

NoVictim(s) == FALSE /\ UNCHANGED vars  \* mutated form: deadlocks are not detected
\* The database breaks a deadlock: one of the two is rolled back.
Victim(s) == (\E t \in Sessions : Deadlocked(s, t) \/ Deadlocked(t, s)) /\ Abort(s)

Step(s) ==
    \/ Listen(s) \/ FlushWorkflow(s) \/ FlushListened(s) \/ SelectPending(s) \/ FlushCancelled(s)
    \/ Commit(s) \/ Revert(s)

Next == \E s \in Sessions :
    \/ \E kind \in Kinds, u \in Owners, st \in Statuses \union {status}, self \in BOOLEAN :
          Load(s, kind, u, st, self)
    \/ \E r \in Ids, ok \in BOOLEAN : Answer(s, r, ok)
    \/ Step(s) \/ Abort(s) \/ Victim(s)

Spec == Init /\ [][Next]_vars

\* A transaction goes on, the database serves those who wait for a row lock in
\* turn (so a step that is enabled again and again is taken), and deadlocks are
\* detected.
FairSpec == Spec /\ \A s \in Sessions : SF_vars(Step(s)) /\ WF_vars(Victim(s))
-----------------------------------------------------------------------------
(* Properties. *)

Row == [status : ReqStatus, target : Users, prev : Owners]

Transaction ==
    [pc : {"idle", "loaded", "flush", "flushed", "select", "cancel", "commit", "revert"},
     kind : {"assign", "set", "edit"}, self : BOOLEAN, before : Owners, to : Owners,
     was : WfStatus, becomes : WfStatus, fate : [Ids -> Final \union {"keep"}]]

\* Workflow, requests, locks and transactions have their types.
TypeOK ==
    /\ field \in Owners /\ status \in WfStatus
    /\ reqs \in Seq(Row) /\ Len(reqs) <= MaxReqs
    /\ wfLock \in Sessions \union {NoSession}
    /\ reqLock \in [Ids -> Sessions \union {NoSession}]
    /\ tx \in [Sessions -> Transaction]

\* The unique index ux_workflow_assignment_requests_pending_role is never hit:
\* the row lock of the workflow, taken by the flush before _pending_for_role
\* reads, orders the assignments whatever else writes.
AtMostOnePending == Cardinality(Pending) <= 1

\* A request that waits for an answer asks the user who has the role.  (Not so
\* with Kinds that include "set": the listener of a waiting task_sync has looked
\* for pending requests before the new one was committed.)
PendingIsCurrent == \A r \in Pending : reqs[r].target = field

Rejecting(s) == \E r \in Ids : tx[s].fate[r] = "rejected"

\* A rejection that gives the role back takes it from the user who rejects,
\* never from one it was given to after the workflow was read.
RevertIsCurrent ==
    \A s \in Sessions :
        tx[s].pc = "commit" /\ Rejecting(s) /\ wfLock = s => field = tx[s].before

\* After a rejection the role is not with the user who rejected it, until it
\* is given to somebody anew.
RejectionTakesEffect ==
    reqs # <<>> /\ reqs[Len(reqs)].status = "rejected" => field # reqs[Len(reqs)].target

\* The last request is cancelled as workflow-assignment-changed only if its
\* target no longer has the role.
MovedMeansReassigned ==
    reqs # <<>> /\ reqs[Len(reqs)].status = "moved" => field # reqs[Len(reqs)].target

\* A workflow that is completed or abandoned has no pending request: the
\* listener closes them, and new ones are born final.
ClosedHasNoPending == status # "open" => Pending = {}

\* Every transaction ends: assigning locks the workflow and then its requests,
\* rejecting locks a request and then the workflow, and the database's
\* detector gets them apart.
TransactionsEnd == \A s \in Sessions : tx[s].pc # "idle" ~> tx[s].pc = "idle"
=============================================================================
