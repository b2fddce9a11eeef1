------------------------ MODULE DeadlineNotifications ------------------------
(***************************************************************************)
(* Deadline reminders (services/deadlines/deadline_notifications.py): a     *)
(* mail n days before the due date of a docket item or an annuity, for each *)
(* n of the schedule.                                                       *)
(*                                                                          *)
(* Three programs send: the daily job (9:00), the hourly job that retries   *)
(* what failed, both in the scheduler process, and the command "notify".    *)
(* They look in notification_log, whose key is the item, n and the due date, *)
(* send, and write the log.  Sessions keep what they loaded                 *)
(* (expire_on_commit is off), so a job that lists items works with the       *)
(* items as they were listed.                                               *)
(***************************************************************************)
EXTENDS Integers, FiniteSets

CONSTANTS
    Dockets, Annuities,
    Movable,       \* items whose due date is moved
    NoRecipient,   \* items for which at times nobody is found to write to
    Reminders,     \* the schedule: days before the due date
    Programs,      \* subset of {"daily", "retry", "notify"}
    Lookback,      \* lookback_days
    BatchSize,     \* batch_size
    LastDay,       \* bound on time
    MaxChanges,    \* bound on due dates moved and managements switched
    Faults,        \* subset of {"crash", "item", "check", "ack"}
    MaxFaults      \* bound on their number

Items == Dockets \union Annuities
Days  == 0..LastDay
Keys  == Items \X Reminders \X Days

VARIABLES
    today,
    due, done,       \* the items
    off,             \* annuities whose client has switched management off
    log, age,        \* notification_log: status, and days since sent_at if failed
    mailed,          \* mails delivered per key, up to 2
    run,             \* per program: the run in progress
    ran,             \* programs that ran today (the daily job: that started)
    changes, faults  \* counters

vars == <<today, due, done, off, log, age, mailed, run, ran, changes, faults>>
items == <<due, done, off>>

ASSUME ConstantsAssumption ==
    /\ Dockets \intersect Annuities = {} /\ NoRecipient \subseteq Items
    /\ Reminders \subseteq Nat /\ {Lookback, BatchSize, LastDay, MaxChanges, MaxFaults} \subseteq Nat

\* A run goes through lists, and for each row of a list through steps.
Idle == [list |-> "off", todo |-> {}, step |-> "next", key |-> <<>>,
         ok |-> FALSE, found |-> FALSE]

Init ==
    /\ today = 0
    /\ due \in [Items -> Days] /\ done = [i \in Items |-> FALSE] /\ off = {}
    /\ log = [k \in Keys |-> "none"] /\ age = [k \in Keys |-> 0]
    /\ mailed = [k \in Keys |-> 0]
    /\ run = [p \in Programs |-> Idle] /\ ran = {}
    /\ changes = 0 /\ faults = 0
-----------------------------------------------------------------------------
(* Runs.                                                                    *)

UpcomingLate(kind) ==  \* mutated form: one day late
    {k \in Keys : k[1] \in kind \ off /\ ~done[k[1]] /\ due[k[1]] = k[3] /\ k[3] + 1 = today + k[2]}
\* get_upcoming_docket_items, get_upcoming_annuity_items: items of a kind whose
\* reminder is today's.
Upcoming(kind) ==
    {k \in Keys : k[1] \in kind \ off /\ ~done[k[1]] /\ due[k[1]] = k[3] /\ k[3] = today + k[2]}

\* The cron trigger starts the daily job once a day; the command comes at will.
StartSending(p) ==
    /\ p # "retry" /\ run[p].list = "off"
    /\ p = "daily" => p \notin ran
    /\ ran' = ran \union {p}
    /\ run' = [run EXCEPT ![p].list = "dockets", ![p].todo = Upcoming(Dockets)]
    /\ UNCHANGED <<today, items, log, age, mailed, changes, faults>>

AtNext(p, list) == run[p].list = list /\ run[p].step = "next" /\ run[p].todo = {}

\* When the docket items are done with, the annuities are listed.
ListAnnuities(p) ==
    /\ AtNext(p, "dockets")
    /\ run' = [run EXCEPT ![p].list = "annuities", ![p].todo = Upcoming(Annuities)]
    /\ UNCHANGED <<today, items, log, age, mailed, ran, changes, faults>>

\* Rows that failed within the lookback, the oldest first, up to a batch.
Recent == {k \in Keys : log[k] = "failed" /\ age[k] <= Lookback}

StartRetry(p) ==
    /\ p = "retry" /\ run[p].list = "off"
    /\ \E batch \in SUBSET Recent :
         /\ Cardinality(batch) = IF Cardinality(Recent) < BatchSize THEN Cardinality(Recent) ELSE BatchSize
         /\ \A k \in batch, l \in Recent \ batch : age[k] >= age[l]
         /\ run' = [run EXCEPT ![p].list = "failed", ![p].todo = batch]
    /\ UNCHANGED <<today, items, log, age, mailed, ran, changes, faults>>

Finish(p) ==
    /\ AtNext(p, "annuities") \/ AtNext(p, "failed")
    /\ run' = [run EXCEPT ![p] = Idle]
    /\ ran' = ran \union {p}
    /\ UNCHANGED <<today, items, log, age, mailed, changes, faults>>
-----------------------------------------------------------------------------
(* send_docket_item_notification and send_annuity_item_notification.        *)

\* The key of the reminder: a retry loads the item, the others have it as it
\* was listed.
KeyOf(p, row) == IF p = "retry" THEN <<row[1], row[2], due[row[1]]>> ELSE row

NotWanted(p, i) == (p = "retry" /\ done[i]) \/ i \in off

\* _is_notification_sent.
AlreadySent(k) == log[k] \in {"sent", "skipped"}

\* Nothing to send.  The retry of an annuity that is not managed any more
\* closes the row it comes from.
Skip(p, row) ==
    /\ run[p].step = "next" /\ row \in run[p].todo
    /\ \/ NotWanted(p, row[1])
       \/ AlreadySent(KeyOf(p, row))
       \/ row[1] \in NoRecipient \intersect Dockets
    /\ run' = [run EXCEPT ![p].todo = @ \ {row}]
    /\ log' = IF p = "retry" /\ row[1] \in off THEN [log EXCEPT ![row] = "skipped"] ELSE log
    /\ UNCHANGED <<today, items, age, mailed, ran, changes, faults>>

\* Fails with a fault of the kind f, within the bound.
Fault(f) == f \in Faults /\ faults < MaxFaults /\ faults' = faults + 1

\* The log has no such mail; or the look-up fails, which counts as none.  An
\* annuity without recipient is logged as failed at once.
AfterCheck(i) == {"send"} \union (IF i \in NoRecipient \intersect Annuities THEN {"log"} ELSE {})
Check(p, row) ==
    /\ run[p].step = "next" /\ row \in run[p].todo
    /\ ~NotWanted(p, row[1])
    /\ IF AlreadySent(KeyOf(p, row)) THEN Fault("check") ELSE UNCHANGED faults
    /\ \E step \in AfterCheck(row[1]) :
         run' = [run EXCEPT ![p].todo = @ \ {row}, ![p].key = KeyOf(p, row),
                            ![p].step = step, ![p].ok = FALSE]
    /\ UNCHANGED <<today, items, log, age, mailed, ran, changes>>

\* The item raises an exception: it is counted as failed, and not logged.
ItemRaises(p, row) ==
    /\ run[p].step = "next" /\ row \in run[p].todo
    /\ Fault("item")
    /\ run' = [run EXCEPT ![p].todo = @ \ {row}]
    /\ UNCHANGED <<today, items, log, age, mailed, ran, changes>>

\* EmailChannel.send: delivered or not; the answer of the server may be lost.
Send(p, delivered, ok) ==
    /\ run[p].step = "send"
    /\ ok => delivered
    /\ IF delivered /\ ~ok THEN Fault("ack") ELSE UNCHANGED faults
    /\ mailed' = IF delivered /\ mailed[run[p].key] < 2
                 THEN [mailed EXCEPT ![run[p].key] = @ + 1] ELSE mailed
    /\ run' = [run EXCEPT ![p].step = "log", ![p].ok = ok]
    /\ UNCHANGED <<today, items, log, age, ran, changes>>

\* _log_notification looks for the row ...
LogFind(p) ==
    /\ run[p].step = "log"
    /\ run' = [run EXCEPT ![p].step = "write", ![p].found = log[run[p].key] # "none"]
    /\ UNCHANGED <<today, items, log, age, mailed, ran, changes, faults>>

LogInsertOnly(p) ==  \* mutated form: a row that is there is left as it is
    /\ run[p].step = "write"
    /\ log' = IF log[run[p].key] = "none"
              THEN [log EXCEPT ![run[p].key] = IF run[p].ok THEN "sent" ELSE "failed"] ELSE log
    /\ run' = [run EXCEPT ![p].step = "next", ![p].key = <<>>, ![p].ok = FALSE, ![p].found = FALSE]
    /\ UNCHANGED <<today, items, age, mailed, ran, changes, faults>>
LogSent(p) ==  \* mutated form: the mail is logged as sent whatever became of it
    /\ run[p].step = "write"
    /\ log' = [log EXCEPT ![run[p].key] = "sent"]
    /\ run' = [run EXCEPT ![p].step = "next", ![p].key = <<>>, ![p].ok = FALSE, ![p].found = FALSE]
    /\ UNCHANGED <<today, items, age, mailed, ran, changes, faults>>
\* ... and updates it, or inserts it: if somebody else has done so meanwhile the
\* unique key refuses it, and the exception is swallowed.
LogWrite(p) ==
    /\ run[p].step = "write"
    /\ IF run[p].found \/ log[run[p].key] = "none"
       THEN /\ log' = [log EXCEPT ![run[p].key] = IF run[p].ok THEN "sent" ELSE "failed"]
            /\ age' = [age EXCEPT ![run[p].key] = 0]
       ELSE UNCHANGED <<log, age>>
    /\ run' = [run EXCEPT ![p].step = "next", ![p].key = <<>>, ![p].ok = FALSE, ![p].found = FALSE]
    /\ UNCHANGED <<today, items, mailed, ran, changes, faults>>
-----------------------------------------------------------------------------
(* The rest of the system.                                                  *)

\* Users move due dates, finish items and switch the management of annuities.
MoveDue(i, d) ==
    /\ i \in Movable /\ changes < MaxChanges /\ d # due[i] /\ ~done[i]
    /\ due' = [due EXCEPT ![i] = d] /\ changes' = changes + 1
    /\ UNCHANGED <<today, done, off, log, age, mailed, run, ran, faults>>

Complete(i) ==
    /\ ~done[i]
    /\ done' = [done EXCEPT ![i] = TRUE]
    /\ UNCHANGED <<today, due, off, log, age, mailed, run, ran, changes, faults>>

Switch(i) ==
    /\ i \in Annuities /\ changes < MaxChanges
    /\ off' = IF i \in off THEN off \ {i} ELSE off \union {i}
    /\ changes' = changes + 1
    /\ UNCHANGED <<today, due, done, log, age, mailed, run, ran, faults>>

\* The scheduler process ends with what it was doing.
Crash ==
    /\ \E p \in Programs \ {"notify"} : run[p].list # "off"
    /\ Fault("crash")
    /\ run' = [p \in Programs |-> IF p = "notify" THEN run[p] ELSE Idle]
    /\ UNCHANGED <<today, items, log, age, mailed, ran, changes>>

\* Midnight.  Runs end before it, and the hourly job has come to its end
\* during the day.
Tick ==
    /\ today < LastDay /\ \A p \in Programs : run[p].list = "off"
    /\ "retry" \in Programs => "retry" \in ran
    /\ today' = today + 1 /\ ran' = {}
    /\ age' = [k \in Keys |-> IF log[k] = "failed" /\ age[k] <= Lookback THEN age[k] + 1 ELSE age[k]]
    /\ UNCHANGED <<items, log, mailed, run, changes, faults>>

Work(p) ==
    \/ ListAnnuities(p) \/ Finish(p) \/ LogFind(p) \/ LogWrite(p)
    \/ \E row \in run[p].todo : Skip(p, row) \/ Check(p, row)
    \/ \E delivered, ok \in BOOLEAN : Send(p, delivered, ok)

Next ==
    \/ \E p \in Programs : \/ StartSending(p)
                           \/ StartRetry(p)
                           \/ Work(p)
                           \/ \E row \in run[p].todo : ItemRaises(p, row)
    \/ \E i \in Items : Complete(i) \/ Switch(i) \/ \E d \in Days : MoveDue(i, d)
    \/ Crash \/ Tick

Spec == Init /\ [][Next]_vars

\* The hourly job keeps running, runs end, and a mail server that is tried again
\* and again takes the mail at last.
FairSpec ==
    /\ Spec /\ WF_vars(StartRetry("retry"))
    /\ \A p \in Programs : WF_vars(Work(p)) /\ SF_vars(Send(p, TRUE, TRUE))
-----------------------------------------------------------------------------
(* Properties.                                                              *)

\* Items, log and runs have their types.
TypeOK ==
    /\ today \in Days /\ due \in [Items -> Days] /\ done \in [Items -> BOOLEAN]
    /\ off \subseteq Annuities
    /\ log \in [Keys -> {"none", "sent", "failed", "skipped"}]
    /\ age \in [Keys -> 0..(Lookback + 1)] /\ mailed \in [Keys -> 0..2]
    /\ \A p \in Programs :
         /\ run[p].list \in {"off", "dockets", "annuities", "failed"}
         /\ run[p].todo \subseteq Keys
         /\ \/ run[p].step = "next" /\ run[p].key = <<>>
            \/ run[p].step \in {"send", "log", "write"} /\ run[p].key \in Keys
    /\ ran \subseteq Programs /\ changes \in 0..MaxChanges /\ faults \in 0..MaxFaults

\* A reminder that the log has as sent was delivered, whatever crashes, fails,
\* is moved or done in between.
SentWasMailed == \A k \in Keys : log[k] = "sent" => mailed[k] > 0

\* As long as nothing fails, the two jobs of the scheduler do not deliver a
\* reminder twice ("Track sent notifications to prevent duplicates") for an
\* item whose due date stays.
AtMostOnce == faults = 0 => \A k \in Keys : k[1] \notin Movable => mailed[k] <= 1

\* The same for every item.
NeverTwice == \A k \in Keys : mailed[k] <= 1

\* When a daily job comes to its end, every open item whose reminder is due
\* that day has a row in the log, sent or failed, so that the retry knows of it;
\* unless an item raised, or users changed items while the job ran.
DailyCovers ==
    AtNext("daily", "annuities") /\ faults = 0 /\ changes = 0 =>
        \A i \in Items, n \in Reminders :
            /\ due[i] = today + n /\ ~done[i] /\ i \notin NoRecipient \intersect Dockets
            => log[<<i, n, due[i]>>] # "none"

\* Only reminders whose day lies within the lookback are sent again ("Retry
\* recently failed deadline notifications").
RetriesAreRecent ==
    run["retry"].step = "send" =>
        LET k == run["retry"].key IN today - (k[3] - k[2]) <= Lookback

\* A reminder that failed is delivered at last, unless the item is done, its
\* due date moved or its management switched off.
FailedIsSettled ==
    \A k \in Keys : log[k] = "failed" ~>
        log[k] # "failed" \/ done[k[1]] \/ due[k[1]] # k[3] \/ k[1] \in off
=============================================================================
