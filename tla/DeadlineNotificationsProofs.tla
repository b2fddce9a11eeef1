-------------------- MODULE DeadlineNotificationsProofs --------------------
(***************************************************************************)
(* Deadline reminders, for any items, schedule, look-back and batch size:  *)
(* what is logged as sent was sent, the two jobs of the scheduler do not   *)
(* send a reminder twice as long as nothing fails, and a completed daily   *)
(* run has passed over no reminder.                                        *)
(***************************************************************************)
EXTENDS DeadlineNotifications, TLAPS

Run == [list : {"off", "dockets", "annuities", "failed"}, todo : SUBSET Keys,
        step : {"next", "send", "log", "write"}, key : Keys \union {<<>>},
        ok : BOOLEAN, found : BOOLEAN]

\* Types, and a program that is not running has nothing in hand.
RunsOK ==
    /\ today \in Days /\ due \in [Items -> Days] /\ off \subseteq Annuities
    /\ log \in [Keys -> {"none", "sent", "failed", "skipped"}] /\ mailed \in [Keys -> 0..2]
    /\ faults \in Nat /\ run \in [Programs -> Run]
    /\ \A p \in Programs : /\ run[p].step # "next" => run[p].key \in Keys
                           /\ run[p].list = "off" => run[p].todo = {} /\ run[p].step = "next"

\* The program has the mail for the key delivered, and not yet logged.
Delivered(p) == run[p].step \in {"log", "write"} /\ run[p].ok

\* The inductive invariant behind SentWasMailed.
LogInv == RunsOK /\ SentWasMailed /\ \A p \in Programs : Delivered(p) => mailed[run[p].key] > 0

\* Program p has the reminder k in its list, or in hand.
InHand(p, k) == run[p].step # "next" /\ run[p].key = k
Aims(p, k)   == k \in run[p].todo \/ InHand(p, k)

\* The reminder k is known to the log or to a program.
Touched(k) == log[k] # "none" \/ \E p \in Programs : Aims(p, k)

\* A program looks after k: the retry if it failed, the daily job on its day if
\* it is not logged.
Cares(p, k) ==
    /\ Aims(p, k) => /\ due[k[1]] = k[3]
                     /\ log[k] = IF p = "retry" THEN "failed" ELSE "none"
    /\ Aims(p, k) /\ p = "daily" => k[3] = today + k[2]
    /\ ~(k \in run[p].todo /\ InHand(p, k))
    /\ InHand(p, k) /\ run[p].step = "write" => (log[k] # "none" => run[p].found)

Once(k) ==
    /\ mailed[k] <= 1
    /\ mailed[k] > 0 => log[k] = "sent" \/ \E p \in Programs : InHand(p, k) /\ Delivered(p)
    /\ log[k] # "none" => due[k[1]] = k[3]
    /\ \A p \in Programs : Cares(p, k)
    /\ Touched(k) => k[3] <= today + k[2]
    /\ Touched(k) /\ k[3] = today + k[2] /\ "daily" \in Programs
         => "daily" \in ran /\ (k[1] \in Annuities => run["daily"].list # "dockets")

\* The retry makes no list of its own, and the daily job is in ran.
Listing ==
    /\ "retry" \in Programs => run["retry"].list \in {"off", "failed"}
    /\ "daily" \in Programs /\ run["daily"].list # "off" => "daily" \in ran

\* The inductive invariant behind AtMostOnce.
OnceInv == Listing /\ (faults = 0 => \A k \in Keys : k[1] \notin Movable => Once(k))
-----------------------------------------------------------------------------
(* What the steps do to the runs. *)

LEMMA IdleRun == Idle \in Run /\ Idle.step = "next" /\ Idle.todo = {} /\ Idle.list = "off"
BY Zenon DEF Idle, Run

\* Of the three parts of a reminder.
LEMMA KeyParts ==
    ASSUME NEW k \in Keys
    PROVE  /\ k[1] \in Items /\ k[2] \in Reminders /\ k[3] \in Days
           /\ k[2] \in Nat /\ k[3] \in Nat /\ k = <<k[1], k[2], k[3]>>
<1>1. PICK i \in Items, n \in Reminders, d \in Days : k = <<i, n, d>>
  BY DEF Keys
<1>2. k[1] = i /\ k[2] = n /\ k[3] = d
  BY <1>1, Zenon
<1>3. n \in Nat /\ d \in Nat
  BY ConstantsAssumption DEF Days
<1> QED BY <1>1, <1>2, <1>3, Zenon

LEMMA UpcomingKeys ==
    ASSUME NEW kind
    PROVE  /\ Upcoming(kind) \subseteq Keys
           /\ \A k \in Upcoming(kind) : k[1] \in kind /\ due[k[1]] = k[3] /\ k[3] = today + k[2]
BY Zenon DEF Upcoming, Keys

\* Lists are made.
Listed(p, list, todo) ==
    /\ run'[p].list = list /\ run'[p].todo = todo /\ list # "off" /\ run'[p].step = run[p].step
    /\ run'[p].key = run[p].key /\ run'[p].ok = run[p].ok /\ run'[p].found = run[p].found

\* The program works on its list, and on the reminder in hand.
Worked(p, todo, step, key, ok, found) ==
    /\ run'[p].list = run[p].list /\ run'[p].todo = todo /\ run'[p].step = step
    /\ run'[p].key = key /\ run'[p].ok = ok /\ run'[p].found = found

Rest(p) == run' \in [Programs -> Run] /\ \A q \in Programs \ {p} : run'[q] = run[q]

LEMMA ListSteps ==
    ASSUME RunsOK, NEW p \in Programs
    PROVE  /\ StartSending(p) => Rest(p) /\ Listed(p, "dockets", Upcoming(Dockets))
           /\ ListAnnuities(p) => Rest(p) /\ Listed(p, "annuities", Upcoming(Annuities))
           /\ StartRetry(p) => Rest(p) /\ \E batch \in SUBSET Recent : Listed(p, "failed", batch)
           /\ Finish(p) => Rest(p) /\ run'[p] = Idle
<1>0. run \in [Programs -> Run] /\ run[p] \in Run
  BY Zenon DEF RunsOK
<1>1. ASSUME NEW list \in {"dockets", "annuities", "failed"}, NEW todo \in SUBSET Keys,
             run' = [run EXCEPT ![p].list = list, ![p].todo = todo]
      PROVE  Rest(p) /\ Listed(p, list, todo)
  <2>1. run'[p] = [run[p] EXCEPT !.list = list, !.todo = todo] /\ run'[p] \in Run
    BY <1>0, <1>1, Zenon DEF Run
  <2>2. Listed(p, list, todo)
    BY <1>0, <2>1, Zenon DEF Run, Listed
  <2> QED BY <1>0, <1>1, <2>1, <2>2, Zenon DEF Rest
<1>2. StartSending(p) => Rest(p) /\ Listed(p, "dockets", Upcoming(Dockets))
  BY <1>1, UpcomingKeys, Zenon DEF StartSending
<1>3. ListAnnuities(p) => Rest(p) /\ Listed(p, "annuities", Upcoming(Annuities))
  BY <1>1, UpcomingKeys, Zenon DEF ListAnnuities
<1>4. StartRetry(p) => Rest(p) /\ \E batch \in SUBSET Recent : Listed(p, "failed", batch)
  BY <1>1, Zenon DEF StartRetry, Recent
<1>5. Finish(p) => Rest(p) /\ run'[p] = Idle
  BY <1>0, IdleRun, Zenon DEF Finish, Rest
<1> QED BY <1>2, <1>3, <1>4, <1>5, Zenon

LEMMA WorkSteps ==
    ASSUME RunsOK, NEW p \in Programs
    PROVE  /\ \A row \in run[p].todo : Skip(p, row) \/ ItemRaises(p, row) =>
                Rest(p) /\ Worked(p, run[p].todo \ {row}, "next", run[p].key, run[p].ok, run[p].found)
           /\ \A row \in run[p].todo : Check(p, row) =>
                /\ KeyOf(p, row) \in Keys /\ Rest(p)
                /\ \E step \in {"send", "log"} :
                     Worked(p, run[p].todo \ {row}, step, KeyOf(p, row), FALSE, run[p].found)
           /\ \A delivered, ok \in BOOLEAN : Send(p, delivered, ok) =>
                Rest(p) /\ Worked(p, run[p].todo, "log", run[p].key, ok, run[p].found)
           /\ LogFind(p) =>
                Rest(p) /\ Worked(p, run[p].todo, "write", run[p].key, run[p].ok, log[run[p].key] # "none")
           /\ LogWrite(p) => Rest(p) /\ Worked(p, run[p].todo, "next", <<>>, FALSE, FALSE)
<1>0. run \in [Programs -> Run] /\ run[p] \in Run /\ due \in [Items -> Days]
  BY Zenon DEF RunsOK
<1>1. ASSUME NEW x \in Run, run' = [run EXCEPT ![p] = x] PROVE Rest(p) /\ run'[p] = x
  BY <1>0, <1>1, Zenon DEF Rest
<1>2. ASSUME NEW row \in run[p].todo, Skip(p, row) \/ ItemRaises(p, row)
      PROVE  Rest(p) /\ Worked(p, run[p].todo \ {row}, "next", run[p].key, run[p].ok, run[p].found)
  <2>1. /\ run' = [run EXCEPT ![p] = [run[p] EXCEPT !.todo = run[p].todo \ {row}]]
        /\ run[p].step = "next"
    BY <1>0, <1>2, Zenon DEF Skip, ItemRaises
  <2>2. [run[p] EXCEPT !.todo = run[p].todo \ {row}] \in Run
    BY <1>0, Zenon DEF Run
  <2>3. Rest(p) /\ run'[p] = [run[p] EXCEPT !.todo = run[p].todo \ {row}]
    BY <1>1, <2>1, <2>2, Zenon
  <2> QED BY <1>0, <2>1, <2>3, Zenon DEF Run, Worked
<1>3. ASSUME NEW row \in run[p].todo, Check(p, row)
      PROVE  /\ KeyOf(p, row) \in Keys /\ Rest(p)
             /\ \E step \in {"send", "log"} :
                   Worked(p, run[p].todo \ {row}, step, KeyOf(p, row), FALSE, run[p].found)
  <2>1. row \in Keys
    BY <1>0, Zenon DEF Run
  <2>2. KeyOf(p, row) \in Keys
    <3>1. row[1] \in Items /\ row[2] \in Reminders /\ due[row[1]] \in Days
      BY <1>0, <2>1, KeyParts, Zenon
    <3> QED BY <2>1, <3>1, Zenon DEF KeyOf, Keys
  <2>3. PICK step \in {"send", "log"} :
           run' = [run EXCEPT ![p] = [run[p] EXCEPT !.todo = run[p].todo \ {row}, !.key = KeyOf(p, row),
                                                    !.step = step, !.ok = FALSE]]
    BY <1>0, <1>3, ZenonT(30) DEF Check, AfterCheck
  <2> DEFINE x == [run[p] EXCEPT !.todo = run[p].todo \ {row}, !.key = KeyOf(p, row),
                                 !.step = step, !.ok = FALSE]
  <2>4. x \in Run
    BY <1>0, <2>2, Zenon DEF Run
  <2>5. Rest(p) /\ run'[p] = x
    BY <1>1, <2>3, <2>4, Zenon
  <2>6. Worked(p, run[p].todo \ {row}, step, KeyOf(p, row), FALSE, run[p].found)
    BY <1>0, <2>5, Zenon DEF Run, Worked
  <2> QED BY <2>2, <2>5, <2>6, Zenon
<1>4. ASSUME NEW delivered \in BOOLEAN, NEW ok \in BOOLEAN, Send(p, delivered, ok)
      PROVE  Rest(p) /\ Worked(p, run[p].todo, "log", run[p].key, ok, run[p].found)
  <2> DEFINE x == [run[p] EXCEPT !.step = "log", !.ok = ok]
  <2>1. x \in Run /\ run' = [run EXCEPT ![p] = x]
    BY <1>0, <1>4, Zenon DEF Send, Run
  <2>2. Rest(p) /\ run'[p] = x
    BY <1>1, <2>1, Zenon
  <2> QED BY <1>0, <2>2, Zenon DEF Run, Worked
<1>5. ASSUME LogFind(p)
      PROVE  Rest(p) /\ Worked(p, run[p].todo, "write", run[p].key, run[p].ok, log[run[p].key] # "none")
  <2> DEFINE x == [run[p] EXCEPT !.step = "write", !.found = log[run[p].key] # "none"]
  <2>1. x \in Run /\ run' = [run EXCEPT ![p] = x]
    BY <1>0, <1>5, Zenon DEF LogFind, Run
  <2>2. Rest(p) /\ run'[p] = x
    BY <1>1, <2>1, Zenon
  <2> QED BY <1>0, <2>2, Zenon DEF Run, Worked
<1>6. ASSUME LogWrite(p)
      PROVE  Rest(p) /\ Worked(p, run[p].todo, "next", <<>>, FALSE, FALSE)
  <2> DEFINE x == [run[p] EXCEPT !.step = "next", !.key = <<>>, !.ok = FALSE, !.found = FALSE]
  <2>1. x \in Run /\ run' = [run EXCEPT ![p] = x]
    BY <1>0, <1>6, Zenon DEF LogWrite, Run
  <2>2. Rest(p) /\ run'[p] = x
    BY <1>1, <2>1, Zenon
  <2> QED BY <1>0, <2>2, Zenon DEF Run, Worked
<1> QED BY <1>2, <1>3, <1>4, <1>5, <1>6, Zenon
\* A step after which no fault has been counted had none.
LEMMA FaultFree ==
    ASSUME RunsOK, Next, faults' = 0
    PROVE  faults = 0 /\ \A f : ~Fault(f)
<1>0. faults \in Nat
  BY Zenon DEF RunsOK
<1>1. \A f : ~Fault(f)
  BY <1>0 DEF Fault
<1>2. ASSUME NEW p \in Programs,
             StartSending(p) \/ StartRetry(p) \/ ListAnnuities(p) \/ Finish(p) \/ LogFind(p) \/ LogWrite(p)
      PROVE  faults' = faults
  BY <1>2, Zenon DEF StartSending, StartRetry, ListAnnuities, Finish, LogFind, LogWrite
<1>3. ASSUME NEW p \in Programs, NEW row \in run[p].todo, Skip(p, row) \/ Check(p, row) \/ ItemRaises(p, row)
      PROVE  faults' = faults
  BY <1>1, <1>3, Zenon DEF Skip, Check, ItemRaises
<1>4. ASSUME NEW p \in Programs, NEW delivered \in BOOLEAN, NEW ok \in BOOLEAN, Send(p, delivered, ok)
      PROVE  faults' = faults
  BY <1>1, <1>4, Zenon DEF Send
<1>5. ASSUME (\E i \in Items : Complete(i) \/ Switch(i) \/ \E d \in Days : MoveDue(i, d)) \/ Crash \/ Tick
      PROVE  faults' = faults
  BY <1>1, <1>5, Zenon DEF Complete, Switch, MoveDue, Crash, Tick
<1> QED BY <1>1, <1>2, <1>3, <1>4, <1>5, Zenon DEF Next, Work
-----------------------------------------------------------------------------
(* What is logged as sent was delivered. *)

LEMMA LogInit == Init => LogInv
<1> SUFFICES ASSUME Init PROVE LogInv
  OBVIOUS
<1>1. RunsOK
  BY IdleRun, ConstantsAssumption DEF Init, RunsOK, Days
<1> QED BY <1>1, IdleRun, Zenon DEF Init, LogInv, SentWasMailed, Delivered

\* A step of p that leaves the items and the day alone.
LEMMA RunsKept ==
    ASSUME RunsOK, NEW p \in Programs, Rest(p), UNCHANGED <<today, due, off>>,
           log' \in [Keys -> {"none", "sent", "failed", "skipped"}], mailed' \in [Keys -> 0..2],
           faults' \in Nat, run'[p].step # "next" => run'[p].key \in Keys,
           run'[p].list = "off" => run'[p].todo = {} /\ run'[p].step = "next"
    PROVE  RunsOK'
<1>1. ASSUME NEW q \in Programs
      PROVE  /\ run'[q].step # "next" => run'[q].key \in Keys
             /\ run'[q].list = "off" => run'[q].todo = {} /\ run'[q].step = "next"
  BY Zenon DEF RunsOK, Rest
<1> QED BY <1>1, Zenon DEF RunsOK, Rest

\* A step of p that sends nothing, and logs nothing as sent.
LEMMA LogQuiet ==
    ASSUME LogInv, NEW p \in Programs, Rest(p), UNCHANGED <<today, due, off, mailed>>,
           log' \in [Keys -> {"none", "sent", "failed", "skipped"}],
           \A k \in Keys : log'[k] = "sent" => log[k] = "sent",
           faults' \in Nat, run'[p].step # "next" => run'[p].key \in Keys,
           run'[p].list = "off" => run'[p].todo = {} /\ run'[p].step = "next",
           Delivered(p)' => Delivered(p) /\ run'[p].key = run[p].key
    PROVE  LogInv'
<1>1. RunsOK'
  BY RunsKept, Zenon DEF LogInv, RunsOK
<1>2. SentWasMailed'
  BY Zenon DEF LogInv, SentWasMailed
<1>3. ASSUME NEW q \in Programs, Delivered(q)' PROVE mailed'[run'[q].key] > 0
  BY <1>3, Zenon DEF LogInv, Delivered, Rest
<1> QED BY <1>1, <1>2, <1>3, Zenon DEF LogInv

LEMMA LogNext == LogInv /\ [Next]_vars => LogInv'
<1> SUFFICES ASSUME LogInv, [Next]_vars PROVE LogInv'
  OBVIOUS
<1>0. RunsOK /\ log \in [Keys -> {"none", "sent", "failed", "skipped"}] /\ mailed \in [Keys -> 0..2]
      /\ faults \in Nat
  BY Zenon DEF LogInv, RunsOK
<1>1. ASSUME NEW p \in Programs, StartSending(p) \/ ListAnnuities(p) \/ StartRetry(p) PROVE LogInv'
  <2>1. UNCHANGED <<today, due, off, mailed, log, faults>>
    BY <1>1, Zenon DEF StartSending, ListAnnuities, StartRetry, items
  <2>2. PICK list, todo : Rest(p) /\ Listed(p, list, todo)
    BY <1>0, <1>1, ListSteps, Zenon
  <2>3. Delivered(p)' => Delivered(p) /\ run'[p].key = run[p].key
    BY <2>2, Zenon DEF Delivered, Listed
  <2>4. run'[p].step # "next" => run'[p].key \in Keys
    BY <1>0, <2>2, Zenon DEF Listed, RunsOK
  <2>5. run'[p].list # "off"
    BY <2>2, Zenon DEF Listed
  <2> QED BY <1>0, <2>1, <2>2, <2>3, <2>4, <2>5, LogQuiet, Zenon
<1>2. ASSUME NEW p \in Programs, Finish(p) PROVE LogInv'
  <2>1. UNCHANGED <<today, due, off, mailed, log, faults>> /\ Rest(p) /\ run'[p] = Idle
    BY <1>0, <1>2, ListSteps, Zenon DEF Finish, items
  <2>2. ~Delivered(p)'
    BY <2>1, IdleRun, Zenon DEF Delivered
  <2> QED BY <1>0, <2>1, <2>2, IdleRun, LogQuiet, Zenon
<1>3. ASSUME NEW p \in Programs, NEW row \in run[p].todo, Skip(p, row) \/ ItemRaises(p, row)
      PROVE  LogInv'
  <2>1. UNCHANGED <<today, due, off, mailed>> /\ faults' \in Nat
    BY <1>0, <1>3 DEF Skip, ItemRaises, Fault, items
  <2>2. Rest(p) /\ Worked(p, run[p].todo \ {row}, "next", run[p].key, run[p].ok, run[p].found)
    BY <1>0, <1>3, WorkSteps, Zenon
  <2>3. log' = log \/ log' = [log EXCEPT ![row] = "skipped"]
    BY <1>3, Zenon DEF Skip, ItemRaises
  <2>4. run'[p].step = "next" /\ (run'[p].list = "off" => run'[p].todo = {})
    BY <1>0, <2>2, Zenon DEF Worked, RunsOK
  <2>5. /\ log' \in [Keys -> {"none", "sent", "failed", "skipped"}]
        /\ \A k \in Keys : log'[k] = "sent" => log[k] = "sent"
    BY <1>0, <2>3, Zenon
  <2>6. ~Delivered(p)'
    BY <2>4, Zenon DEF Delivered
  <2> QED BY <1>0, <2>1, <2>2, <2>4, <2>5, <2>6, LogQuiet, Zenon
<1>4. ASSUME NEW p \in Programs, NEW row \in run[p].todo, Check(p, row) PROVE LogInv'
  <2>1. UNCHANGED <<today, due, off, mailed, log>> /\ faults' \in Nat
    BY <1>0, <1>4 DEF Check, Fault, items
  <2>2. PICK step \in {"send", "log"} : /\ KeyOf(p, row) \in Keys /\ Rest(p)
             /\ Worked(p, run[p].todo \ {row}, step, KeyOf(p, row), FALSE, run[p].found)
    BY <1>0, <1>4, WorkSteps, Zenon
  <2>3. run'[p].key \in Keys /\ run'[p].list # "off"
    BY <1>0, <1>4, <2>2, Zenon DEF Worked, RunsOK
  <2>4. ~Delivered(p)'
    BY <2>2, Zenon DEF Delivered, Worked
  <2> QED BY <1>0, <2>1, <2>2, <2>3, <2>4, LogQuiet, Zenon
<1>5. ASSUME NEW p \in Programs, LogFind(p) PROVE LogInv'
  <2>1. UNCHANGED <<today, due, off, mailed, log, faults>> /\ run[p].step = "log"
    BY <1>5, Zenon DEF LogFind, items
  <2>2. Rest(p) /\ Worked(p, run[p].todo, "write", run[p].key, run[p].ok, log[run[p].key] # "none")
    BY <1>0, <1>5, WorkSteps, Zenon
  <2>3. run'[p].key \in Keys /\ run'[p].list # "off"
    BY <1>0, <2>1, <2>2, Zenon DEF Worked, RunsOK
  <2>4. Delivered(p)' => Delivered(p) /\ run'[p].key = run[p].key
    BY <2>1, <2>2, Zenon DEF Delivered, Worked
  <2> QED BY <1>0, <2>1, <2>2, <2>3, <2>4, LogQuiet, Zenon
<1>6. ASSUME NEW p \in Programs, NEW delivered \in BOOLEAN, NEW ok \in BOOLEAN, Send(p, delivered, ok)
      PROVE  LogInv'
  <2>1. UNCHANGED <<today, due, off, log>> /\ faults' \in Nat /\ run[p].step = "send" /\ (ok => delivered)
    BY <1>0, <1>6 DEF Send, Fault, items
  <2>2. Rest(p) /\ Worked(p, run[p].todo, "log", run[p].key, ok, run[p].found)
    BY <1>0, <1>6, WorkSteps, Zenon
  <2>3. run[p].key \in Keys /\ run[p].list # "off"
    BY <1>0, <2>1, Zenon DEF RunsOK
  <2>4. /\ mailed' \in [Keys -> 0..2] /\ \A k \in Keys : mailed[k] > 0 => mailed'[k] > 0
        /\ delivered => mailed'[run[p].key] > 0
    <3>1. mailed' = IF delivered /\ mailed[run[p].key] < 2
                    THEN [mailed EXCEPT ![run[p].key] = mailed[run[p].key] + 1] ELSE mailed
      BY <1>6, Zenon DEF Send
    <3>2. mailed[run[p].key] \in 0..2
      BY <1>0, <2>3, Zenon
    <3> QED BY <1>0, <2>3, <3>1, <3>2
  <2>5. RunsOK'
    BY <1>0, <2>1, <2>2, <2>3, <2>4, RunsKept, Zenon DEF Worked
  <2>6. SentWasMailed'
    BY <2>1, <2>4, Zenon DEF LogInv, SentWasMailed
  <2>7. ASSUME NEW q \in Programs, Delivered(q)' PROVE mailed'[run'[q].key] > 0
    <3>1. CASE q = p
      BY <2>1, <2>2, <2>4, <2>7, <3>1, Zenon DEF Worked, Delivered
    <3>2. CASE q # p
      <4>1. Delivered(q) /\ run'[q].key = run[q].key /\ run[q].key \in Keys
        BY <1>0, <2>2, <2>7, <3>2, Zenon DEF Delivered, Rest, RunsOK
      <4> QED BY <2>4, <4>1, Zenon DEF LogInv
    <3> QED BY <3>1, <3>2, Zenon
  <2> QED BY <2>5, <2>6, <2>7, Zenon DEF LogInv
<1>7. ASSUME NEW p \in Programs, LogWrite(p) PROVE LogInv'
  <2>1. UNCHANGED <<today, due, off, mailed, faults>> /\ run[p].step = "write"
    BY <1>7, Zenon DEF LogWrite, items
  <2>2. Rest(p) /\ Worked(p, run[p].todo, "next", <<>>, FALSE, FALSE)
    BY <1>0, <1>7, WorkSteps, Zenon
  <2>3. run[p].key \in Keys /\ run[p].list # "off"
    BY <1>0, <2>1, Zenon DEF RunsOK
  <2>4. log' = log \/ log' = [log EXCEPT ![run[p].key] = IF run[p].ok THEN "sent" ELSE "failed"]
    BY <1>7, Zenon DEF LogWrite
  <2>5. /\ log' \in [Keys -> {"none", "sent", "failed", "skipped"}]
        /\ \A k \in Keys : log'[k] = "sent" => log[k] = "sent" \/ (k = run[p].key /\ run[p].ok)
    BY <1>0, <2>3, <2>4, Zenon
  <2>6. RunsOK'
    BY <1>0, <2>1, <2>2, <2>3, <2>5, RunsKept, Zenon DEF Worked
  <2>7. SentWasMailed'
    BY <2>1, <2>5, Zenon DEF LogInv, SentWasMailed, Delivered
  <2>8. ASSUME NEW q \in Programs, Delivered(q)' PROVE mailed'[run'[q].key] > 0
    BY <2>1, <2>2, <2>8, Zenon DEF LogInv, Delivered, Rest, Worked
  <2> QED BY <2>6, <2>7, <2>8, Zenon DEF LogInv
<1>8. CASE (\E i \in Items : Complete(i) \/ Switch(i) \/ \E d \in Days : MoveDue(i, d)) \/ UNCHANGED vars
  <2>1. UNCHANGED <<today, log, mailed, run, faults>> /\ due' \in [Items -> Days] /\ off' \subseteq Annuities
    BY <1>0, <1>8, Zenon DEF Complete, Switch, MoveDue, vars, RunsOK
  <2> QED BY <2>1, Zenon DEF LogInv, RunsOK, SentWasMailed, Delivered
<1>9. CASE Crash
  <2>1. UNCHANGED <<today, due, off, log, mailed>> /\ faults' \in Nat
    BY <1>0, <1>9 DEF Crash, Fault, items
  <2>2. run' \in [Programs -> Run] /\ \A q \in Programs : run'[q] = run[q] \/ run'[q] = Idle
    BY <1>0, <1>9, IdleRun, Zenon DEF Crash, RunsOK
  <2>3. RunsOK'
    BY <1>0, <2>1, <2>2, IdleRun, Zenon DEF RunsOK
  <2> QED BY <2>1, <2>2, <2>3, IdleRun, Zenon DEF LogInv, SentWasMailed, Delivered
<1>10. CASE Tick
  <2>1. UNCHANGED <<due, off, log, mailed, run, faults>> /\ today' \in Days
    BY <1>0, <1>10, ConstantsAssumption DEF Tick, items, RunsOK, Days
  <2> QED BY <2>1, Zenon DEF LogInv, RunsOK, SentWasMailed, Delivered
<1> QED BY <1>1, <1>2, <1>3, <1>4, <1>5, <1>6, <1>7, <1>8, <1>9, <1>10, Zenon DEF Next, Work

\* A reminder that the log has as sent was delivered, whatever crashes, fails,
\* is moved or done in between, and whichever programs run.
THEOREM SentIsTrue == Spec => []SentWasMailed
<1>1. LogInv => SentWasMailed
  BY Zenon DEF LogInv
<1> QED BY LogInit, LogNext, <1>1, PTL DEF Spec
-----------------------------------------------------------------------------
(* The two jobs of the scheduler do not send a reminder twice. *)

\* The command "notify" is not used.
JobsOnly == Programs \subseteq {"daily", "retry"}

LEMMA OnceInit == Init => OnceInv
<1> SUFFICES ASSUME Init PROVE OnceInv
  OBVIOUS
<1>1. /\ \A p \in Programs : run[p] = Idle
      /\ \A k \in Keys : log[k] = "none" /\ mailed[k] = 0
  BY Zenon DEF Init
<1>2. \A p \in Programs, k \in Keys : ~Aims(p, k) /\ ~InHand(p, k)
  BY <1>1, IdleRun, Zenon DEF Aims, InHand
<1>3. ASSUME NEW k \in Keys PROVE Once(k)
  BY <1>1, <1>2 DEF Once, Cares, Touched, Aims
<1> QED BY <1>1, <1>3, IdleRun, Zenon DEF OnceInv, Listing

\* No two programs look after the same reminder.
LEMMA OneCares ==
    ASSUME JobsOnly, NEW k, Once(k), NEW p \in Programs, NEW q \in Programs, Aims(p, k), Aims(q, k)
    PROVE  p = q
BY Zenon DEF JobsOnly, Once, Cares

\* A reminder that nobody has delivered and in hand, and that is not logged as
\* sent, was not delivered.
LEMMA NotMailed ==
    ASSUME JobsOnly, NEW k \in Keys, mailed[k] \in 0..2, Once(k), NEW p \in Programs, Aims(p, k),
           InHand(p, k) => ~Delivered(p)
    PROVE  mailed[k] = 0
<1>1. log[k] # "sent"
  BY Zenon DEF Once, Cares
<1>2. ASSUME NEW q \in Programs, InHand(q, k), Delivered(q) PROVE FALSE
  <2>1. q = p
    BY <1>2, OneCares, Zenon DEF Aims
  <2> QED BY <1>2, <2>1, Zenon
<1> QED BY <1>1, <1>2 DEF Once

\* A step of p that leaves what is known of k.
LEMMA OnceKept ==
    ASSUME NEW k \in Keys, Once(k), NEW p \in Programs, Rest(p), today' = today,
           due'[k[1]] = due[k[1]], ran \subseteq ran', log'[k] = log[k], mailed'[k] = mailed[k],
           p = "daily" /\ run'[p].list = "dockets" => run[p].list = "dockets",
           Aims(p, k)' => Aims(p, k), ~(k \in run'[p].todo /\ InHand(p, k)'),
           InHand(p, k) /\ Delivered(p) => InHand(p, k)' /\ Delivered(p)',
           InHand(p, k)' /\ run'[p].step = "write" => (log[k] # "none" => run'[p].found)
    PROVE  Once(k)'
<1>1. ASSUME NEW q \in Programs \ {p}
      PROVE  /\ Aims(q, k)' <=> Aims(q, k)
             /\ InHand(q, k)' <=> InHand(q, k)
             /\ Delivered(q)' <=> Delivered(q)
             /\ run'[q] = run[q]
  BY Zenon DEF Rest, Aims, InHand, Delivered
<1>2. \A q \in Programs : Aims(q, k)' => Aims(q, k)
  BY <1>1, Zenon
<1>3. ASSUME NEW q \in Programs PROVE Cares(q, k)'
  <2>1. Cares(q, k)
    BY Zenon DEF Once
  <2>2. CASE q = p
    BY <2>1, <2>2, Zenon DEF Cares
  <2>3. CASE q # p
    BY <1>1, <2>1, <2>3, Zenon DEF Cares
  <2> QED BY <2>2, <2>3, Zenon
<1>4. (mailed[k] > 0 => log[k] = "sent" \/ \E q \in Programs : InHand(q, k) /\ Delivered(q))'
  BY <1>1, Zenon DEF Once
<1>5. Touched(k)' => Touched(k)
  BY <1>2, Zenon DEF Touched
<1>6. "daily" \in Programs /\ run'["daily"].list = "dockets" => run["daily"].list = "dockets"
  BY <1>1, Zenon
<1>7. mailed'[k] <= 1 /\ (log'[k] # "none" => due'[k[1]] = k[3])
  BY Zenon DEF Once
<1>8. Touched(k)' => k[3] <= today' + k[2]
  BY <1>5, Zenon DEF Once
<1>9. Touched(k)' /\ k[3] = today' + k[2] /\ "daily" \in Programs
         => "daily" \in ran' /\ (k[1] \in Annuities => run'["daily"].list # "dockets")
  BY <1>5, <1>6, Zenon DEF Once
<1> QED BY <1>3, <1>4, <1>7, <1>8, <1>9, Zenon DEF Once

LEMMA ListingNext ==
    ASSUME JobsOnly, RunsOK, Listing, Next
    PROVE  Listing'
<1>1. ASSUME NEW p \in Programs, StartSending(p) PROVE Listing'
  <2>1. p = "daily" /\ Rest(p) /\ "daily" \in ran'
    BY <1>1, ListSteps, Zenon DEF StartSending, JobsOnly
  <2> QED BY <2>1, Zenon DEF Listing, Rest
<1>2. ASSUME NEW p \in Programs, ListAnnuities(p) PROVE Listing'
  <2>1. p = "daily" /\ Rest(p) /\ ran' = ran /\ run[p].list = "dockets"
    BY <1>2, ListSteps, Zenon DEF ListAnnuities, AtNext, JobsOnly, Listing
  <2> QED BY <2>1, Zenon DEF Listing, Rest
<1>3. ASSUME NEW p \in Programs, StartRetry(p) PROVE Listing'
  <2>1. p = "retry" /\ Rest(p) /\ ran' = ran /\ run'[p].list = "failed"
    BY <1>3, ListSteps, Zenon DEF StartRetry, Listed
  <2> QED BY <2>1, Zenon DEF Listing, Rest
<1>4. ASSUME NEW p \in Programs, Finish(p) PROVE Listing'
  <2>1. Rest(p) /\ ran \subseteq ran' /\ run'[p].list = "off"
    BY <1>4, ListSteps, IdleRun, Zenon DEF Finish
  <2> QED BY <2>1, Zenon DEF Listing, Rest
<1>5. ASSUME NEW p \in Programs, Rest(p), ran' = ran, run'[p].list = run[p].list PROVE Listing'
  BY <1>5, Zenon DEF Listing, Rest
<1>6. ASSUME NEW p \in Programs, NEW row \in run[p].todo, Skip(p, row) \/ ItemRaises(p, row) \/ Check(p, row)
      PROVE  Listing'
  <2>1. Rest(p) /\ ran' = ran /\ run'[p].list = run[p].list
    BY <1>6, WorkSteps, Zenon DEF Skip, ItemRaises, Check, Worked
  <2> QED BY <1>5, <2>1, Zenon
<1>7. ASSUME NEW p \in Programs,
             LogFind(p) \/ LogWrite(p) \/ \E delivered, ok \in BOOLEAN : Send(p, delivered, ok)
      PROVE  Listing'
  <2>1. Rest(p) /\ ran' = ran /\ run'[p].list = run[p].list
    BY <1>7, WorkSteps, ZenonT(30) DEF LogFind, LogWrite, Send, Worked
  <2> QED BY <1>5, <2>1, Zenon
<1>8. CASE \E i \in Items : Complete(i) \/ Switch(i) \/ \E d \in Days : MoveDue(i, d)
  BY <1>8, Zenon DEF Complete, Switch, MoveDue, Listing
<1>9. CASE Crash
  BY <1>9, IdleRun, Zenon DEF Crash, Listing, RunsOK
<1>10. CASE Tick
  BY <1>10, Zenon DEF Tick, Listing
<1> QED BY <1>1, <1>2, <1>3, <1>4, <1>6, <1>7, <1>8, <1>9, <1>10, Zenon DEF Next, Work

\* The daily job and the retry make their lists.
LEMMA OnceLists ==
    ASSUME JobsOnly, LogInv, Listing, NEW k \in Keys, Once(k), NEW p \in Programs,
           StartSending(p) \/ ListAnnuities(p) \/ StartRetry(p)
    PROVE  Once(k)'
<1>0. RunsOK /\ mailed[k] \in 0..2 /\ k[2] \in Nat /\ k[3] \in Nat /\ today \in Nat
  BY KeyParts, ConstantsAssumption DEF LogInv, RunsOK, Days
<1>1. UNCHANGED <<today, due, log, mailed>> /\ ran \subseteq ran'
  BY Zenon DEF StartSending, ListAnnuities, StartRetry, items
<1>2. run[p].todo = {} /\ run[p].step = "next"
  BY <1>0, Zenon DEF StartSending, ListAnnuities, StartRetry, AtNext, RunsOK
<1>3. PICK list, todo : /\ Rest(p) /\ Listed(p, list, todo)
                        /\ StartSending(p) => list = "dockets" /\ todo = Upcoming(Dockets)
                        /\ ListAnnuities(p) => list = "annuities" /\ todo = Upcoming(Annuities)
                        /\ StartRetry(p) => list = "failed" /\ todo \subseteq Recent
  BY <1>0, ListSteps, Zenon DEF StartSending, ListAnnuities, StartRetry, AtNext
<1>4. ~Aims(p, k) /\ ~InHand(p, k) /\ ~InHand(p, k)' /\ (Aims(p, k)' <=> k \in todo)
  BY <1>2, <1>3, Zenon DEF Aims, InHand, Listed
<1>5. ASSUME NEW q \in Programs \ {p}
      PROVE  /\ Aims(q, k)' <=> Aims(q, k)
             /\ InHand(q, k)' <=> InHand(q, k)
             /\ Delivered(q)' <=> Delivered(q)
             /\ run'[q] = run[q]
  BY <1>3, Zenon DEF Rest, Aims, InHand, Delivered
<1>6. (mailed[k] > 0 => log[k] = "sent" \/ \E q \in Programs : InHand(q, k) /\ Delivered(q))'
  BY <1>1, <1>4, <1>5, Zenon DEF Once
<1>7. ASSUME NEW q \in Programs \ {p} PROVE Cares(q, k)'
  <2>1. Cares(q, k)
    BY Zenon DEF Once
  <2> QED BY <1>1, <1>5, <2>1, Zenon DEF Cares
<1>8. mailed'[k] <= 1 /\ (log'[k] # "none" => due'[k[1]] = k[3])
  BY <1>1, Zenon DEF Once
<1>9. Touched(k)' => Touched(k) \/ k \in todo
  BY <1>1, <1>4, <1>5, Zenon DEF Touched
<1>10. CASE StartSending(p)
  <2>1. p = "daily" /\ "daily" \notin ran /\ "daily" \in ran' /\ todo = Upcoming(Dockets) /\ run'[p].list = "dockets"
    BY <1>3, <1>10, Zenon DEF StartSending, JobsOnly, Listed
  <2>2. Touched(k) => k[3] < today + k[2]
    BY <1>0, <2>1, SMTT(30) DEF Once
  <2>3. k \in todo => due[k[1]] = k[3] /\ k[3] = today + k[2] /\ k[1] \notin Annuities
    BY <2>1, UpcomingKeys, ConstantsAssumption, Zenon
  <2>4. k \in todo => log[k] = "none"
    BY <1>0, <2>2, <2>3 DEF Touched
  <2>5. Cares(p, k)'
    BY <1>1, <1>4, <2>1, <2>3, <2>4, Zenon DEF Cares
  <2>6. Touched(k)' => k[3] <= today' + k[2] /\ (k[3] = today' + k[2] => k \in todo)
    BY <1>0, <1>1, <1>9, <2>2, <2>3
  <2> QED BY <1>6, <1>7, <1>8, <2>1, <2>3, <2>5, <2>6, Zenon DEF Once
<1>11. CASE ListAnnuities(p)
  <2>1. /\ p = "daily" /\ run[p].list = "dockets" /\ "daily" \in ran' /\ todo = Upcoming(Annuities)
        /\ run'[p].list = "annuities"
    BY <1>1, <1>3, <1>11, Zenon DEF ListAnnuities, AtNext, JobsOnly, Listing, Listed
  <2>2. k \in todo => due[k[1]] = k[3] /\ k[3] = today + k[2] /\ k[1] \in Annuities
    BY <2>1, UpcomingKeys, Zenon
  <2>3. k \in todo => ~Touched(k)
    BY <2>1, <2>2, Zenon DEF Once
  <2>4. Cares(p, k)'
    BY <1>1, <1>4, <2>1, <2>2, <2>3, Zenon DEF Cares, Touched
  <2>5. Touched(k)' => k[3] <= today' + k[2]
    BY <1>0, <1>1, <1>9, <2>2 DEF Once
  <2> QED BY <1>6, <1>7, <1>8, <2>1, <2>4, <2>5, Zenon DEF Once
<1>12. CASE StartRetry(p)
  <2>1. p = "retry" /\ todo \subseteq Recent
    BY <1>3, <1>12, Zenon DEF StartRetry
  <2>2. k \in todo => log[k] = "failed" /\ due[k[1]] = k[3]
    BY <2>1, Zenon DEF Recent, Once
  <2>3. Cares(p, k)'
    BY <1>1, <1>4, <2>1, <2>2, Zenon DEF Cares
  <2>4. Touched(k)' => Touched(k)
    BY <1>9, <2>2, Zenon DEF Touched
  <2>5. "daily" \in Programs => run'["daily"] = run["daily"]
    BY <1>5, <2>1, Zenon
  <2>6. Touched(k)' => k[3] <= today' + k[2]
    BY <1>1, <2>4, Zenon DEF Once
  <2>7. Touched(k)' /\ k[3] = today' + k[2] /\ "daily" \in Programs
          => "daily" \in ran' /\ (k[1] \in Annuities => run'["daily"].list # "dockets")
    BY <1>1, <2>4, <2>5, Zenon DEF Once
  <2>8. \A q \in Programs : Cares(q, k)'
    BY <1>7, <2>3, Zenon
  <2> QED BY <1>6, <1>8, <2>6, <2>7, <2>8, Zenon DEF Once
<1> QED BY <1>10, <1>11, <1>12, Zenon

\* The programs go through their lists, mail and log.
LEMMA OnceWork ==
    ASSUME JobsOnly, LogInv, faults = 0, faults' = 0, NEW k \in Keys, k[1] \notin Movable,
           \A l \in Keys : l[1] \notin Movable => Once(l), NEW p \in Programs,
           Work(p), ~ListAnnuities(p)
    PROVE  Once(k)'
<1>0. RunsOK /\ mailed \in [Keys -> 0..2] /\ log \in [Keys -> {"none", "sent", "failed", "skipped"}]
      /\ run[p] \in Run /\ Once(k) /\ Cares(p, k)
  BY Zenon DEF LogInv, RunsOK, Once
<1>1. CASE Finish(p)
  <2>1. run[p].todo = {} /\ run[p].step = "next" /\ Rest(p) /\ run'[p] = Idle
    BY <1>0, <1>1, ListSteps, Zenon DEF Finish, AtNext
  <2>2. ~Aims(p, k) /\ ~Aims(p, k)' /\ run'[p].list = "off" /\ k \notin run'[p].todo
    BY <2>1, IdleRun, Zenon DEF Aims, InHand
  <2>3. UNCHANGED <<today, due, log, mailed>> /\ ran \subseteq ran'
    BY <1>1, Zenon DEF Finish, items
  <2>4. ~InHand(p, k) /\ ~InHand(p, k)'
    BY <2>2, Zenon DEF Aims
  <2> QED BY <1>0, <2>1, <2>2, <2>3, <2>4, OnceKept, Zenon
<1>2. ASSUME NEW row \in run[p].todo, Skip(p, row) PROVE Once(k)'
  <2>1. /\ Rest(p) /\ Worked(p, run[p].todo \ {row}, "next", run[p].key, run[p].ok, run[p].found)
        /\ run[p].step = "next" /\ UNCHANGED <<today, due, mailed, ran>> /\ row \in Keys
        /\ log' = IF p = "retry" /\ row[1] \in off THEN [log EXCEPT ![row] = "skipped"] ELSE log
    BY <1>0, <1>2, WorkSteps, ZenonT(30) DEF Skip, items, Run
  <2>2. /\ run'[p].list = run[p].list /\ ~InHand(p, k) /\ ~InHand(p, k)'
        /\ Aims(p, k)' <=> (k \in run[p].todo /\ k # row)
        /\ Aims(p, k) <=> k \in run[p].todo
    BY <2>1, Zenon DEF Worked, InHand, Aims
  <2>3. CASE log'[k] = log[k]
    BY <1>0, <2>1, <2>2, <2>3, OnceKept, Zenon
  <2>4. CASE log'[k] # log[k]
    <3>1. k = row /\ p = "retry" /\ Aims(p, k) /\ ~Aims(p, k)' /\ log'[k] = "skipped" /\ log[k] = "failed"
      BY <1>0, <2>1, <2>2, <2>4, Zenon DEF Cares
    <3>2. mailed'[k] = 0
      BY <1>0, <2>1, <2>2, <3>1, NotMailed, Zenon
    <3>3. ASSUME NEW q \in Programs PROVE ~Aims(q, k)' /\ Cares(q, k)'
      <4>1. ~Aims(q, k)'
        <5>1. CASE q = p
          BY <3>1, <5>1, Zenon
        <5>2. CASE q # p
          <6>1. ~Aims(q, k)
            BY <1>0, <3>1, <5>2, OneCares, ZenonT(30)
          <6> QED BY <2>1, <5>2, <6>1, Zenon DEF Rest, Aims, InHand
        <5> QED BY <5>1, <5>2, Zenon
      <4> QED BY <4>1, Zenon DEF Cares, Aims
    <3>4. Touched(k) /\ due[k[1]] = k[3]
      BY <1>0, <3>1, Zenon DEF Touched, Once
    <3>5. "daily" \in Programs => run'["daily"] = run["daily"]
      BY <2>1, <3>1, Zenon DEF Rest
    <3> QED BY <1>0, <2>1, <3>2, <3>3, <3>4, <3>5, SMTT(30) DEF Once
  <2> QED BY <2>3, <2>4, Zenon
<1>3. ASSUME NEW row \in run[p].todo, Check(p, row) PROVE Once(k)'
  <2>1. PICK step \in {"send", "log"} :
           /\ KeyOf(p, row) \in Keys /\ Rest(p)
           /\ Worked(p, run[p].todo \ {row}, step, KeyOf(p, row), FALSE, run[p].found)
    BY <1>0, <1>3, WorkSteps, Zenon
  <2>2. run[p].step = "next" /\ UNCHANGED <<today, due, log, mailed, ran>> /\ row \in Keys
    BY <1>0, <1>3, Zenon DEF Check, items, Run
  <2>3. row[1] = k[1] => KeyOf(p, row) = row
    <3> SUFFICES ASSUME row[1] = k[1] PROVE KeyOf(p, row) = row
      OBVIOUS
    <3>1. Aims(p, row)
      BY Zenon DEF Aims
    <3>2. due[row[1]] = row[3]
      BY <2>2, <3>1, Zenon DEF Once, Cares
    <3> QED BY <2>2, <3>2, KeyParts, Zenon DEF KeyOf
  <2>4. KeyOf(p, row)[1] = row[1]
    BY Zenon DEF KeyOf
  <2>5. KeyOf(p, row) = k <=> row = k
    BY <2>3, <2>4, Zenon
  <2>6. /\ run'[p].list = run[p].list /\ run'[p].step # "write" /\ ~InHand(p, k)
        /\ k \in run'[p].todo <=> (k \in run[p].todo /\ k # row)
        /\ InHand(p, k)' <=> k = row
    BY <2>1, <2>2, <2>5, Zenon DEF Worked, InHand
  <2>7. (Aims(p, k)' => Aims(p, k)) /\ ~(k \in run'[p].todo /\ InHand(p, k)')
    BY <2>6, Zenon DEF Aims
  <2> QED BY <1>0, <2>1, <2>2, <2>6, <2>7, OnceKept, Zenon
<1>4. ASSUME NEW delivered \in BOOLEAN, NEW ok \in BOOLEAN, Send(p, delivered, ok) PROVE Once(k)'
  <2>1. /\ Rest(p) /\ Worked(p, run[p].todo, "log", run[p].key, ok, run[p].found)
        /\ run[p].step = "send" /\ UNCHANGED <<today, due, log, ran>> /\ run[p].key \in Keys
        /\ mailed' = IF delivered /\ mailed[run[p].key] < 2
                      THEN [mailed EXCEPT ![run[p].key] = mailed[run[p].key] + 1] ELSE mailed
    BY <1>0, <1>4, WorkSteps, Zenon DEF Send, items, RunsOK
  <2>2. delivered => ok
    BY <1>4 DEF Send, Fault
  <2>3. /\ run'[p].list = run[p].list /\ run'[p].todo = run[p].todo /\ run'[p].step = "log"
        /\ InHand(p, k)' <=> InHand(p, k)
        /\ Aims(p, k)' <=> Aims(p, k)
        /\ ~Delivered(p) /\ (Delivered(p)' <=> ok)
        /\ InHand(p, k) <=> run[p].key = k
    BY <2>1, Zenon DEF Worked, InHand, Aims, Delivered
  <2>4. ~(k \in run'[p].todo /\ InHand(p, k)')
    BY <1>0, <2>3, ZenonT(30) DEF Cares
  <2>5. CASE mailed'[k] = mailed[k]
    BY <1>0, <2>1, <2>3, <2>4, <2>5, OnceKept, ZenonT(30)
  <2>6. CASE mailed'[k] # mailed[k]
    <3>1. run[p].key = k /\ ok /\ Aims(p, k)
      BY <1>0, <2>1, <2>2, <2>3, <2>6, ZenonT(30) DEF Aims
    <3>2. mailed[k] = 0 /\ mailed'[k] = 1
      BY <1>0, <2>1, <2>2, <2>3, <2>6, <3>1, NotMailed, SMTT(30)
    <3>3. InHand(p, k)' /\ Delivered(p)'
      BY <2>3, <3>1, Zenon
    <3>4. ASSUME NEW q \in Programs PROVE Cares(q, k)' /\ (Aims(q, k)' <=> Aims(q, k))
      <4>1. CASE q = p
        BY <1>0, <2>1, <2>3, <2>4, <4>1, ZenonT(30) DEF Cares
      <4>2. CASE q # p
        BY <1>0, <2>1, <4>2, SMTT(30) DEF Cares, Once, Rest, Aims, InHand
      <4> QED BY <4>1, <4>2, Zenon
    <3>5. Touched(k)' <=> Touched(k)
      BY <2>1, <3>4, ZenonT(30) DEF Touched
    <3>6. "daily" \in Programs => run'["daily"].list = run["daily"].list
      BY <2>1, <2>3, Zenon DEF Rest
    <3>7. \E q \in Programs : InHand(q, k)' /\ Delivered(q)'
      BY <3>3, Zenon
    <3> QED BY <1>0, <2>1, <3>2, <3>4, <3>5, <3>6, <3>7, SMTT(30) DEF Once
  <2> QED BY <2>5, <2>6, Zenon
<1>5. CASE LogFind(p)
  <2>1. /\ Rest(p) /\ Worked(p, run[p].todo, "write", run[p].key, run[p].ok, log[run[p].key] # "none")
        /\ run[p].step = "log" /\ UNCHANGED <<today, due, log, mailed, ran>>
    BY <1>0, <1>5, WorkSteps, Zenon DEF LogFind, items
  <2>2. /\ run'[p].list = run[p].list /\ run'[p].todo = run[p].todo
        /\ InHand(p, k)' <=> InHand(p, k)
        /\ Aims(p, k)' <=> Aims(p, k)
        /\ Delivered(p) <=> Delivered(p)'
        /\ InHand(p, k) => run[p].key = k
        /\ run'[p].found = (log[run[p].key] # "none")
    BY <2>1, Zenon DEF Worked, InHand, Aims, Delivered
  <2>3. ~(k \in run'[p].todo /\ InHand(p, k)')
    BY <1>0, <2>2, Zenon DEF Cares
  <2>4. InHand(p, k)' => (log[k] # "none" => run'[p].found)
    BY <2>2, Zenon
  <2> QED BY <1>0, <2>1, <2>2, <2>3, <2>4, OnceKept, Zenon
<1>6. CASE LogWrite(p)
  <2>1. /\ Rest(p) /\ Worked(p, run[p].todo, "next", <<>>, FALSE, FALSE)
        /\ run[p].step = "write" /\ UNCHANGED <<today, due, mailed, ran>> /\ run[p].key \in Keys
    BY <1>0, <1>6, WorkSteps, Zenon DEF LogWrite, items, RunsOK
  <2>2. /\ run'[p].list = run[p].list /\ run'[p].todo = run[p].todo /\ ~InHand(p, k)'
        /\ Aims(p, k)' <=> k \in run[p].todo
        /\ InHand(p, k) <=> run[p].key = k
    BY <2>1, Zenon DEF Worked, InHand, Aims
  <2>3. CASE run[p].key # k
    <3>1. log'[k] = log[k]
      BY <1>0, <1>6, <2>1, <2>3, Zenon DEF LogWrite
    <3>2. Aims(p, k)' => Aims(p, k)
      BY <2>2, Zenon DEF Aims
    <3> QED BY <1>0, <2>1, <2>2, <2>3, <3>1, <3>2, OnceKept, Zenon
  <2>4. CASE run[p].key = k
    <3>1. InHand(p, k) /\ Aims(p, k) /\ ~Aims(p, k)' /\ (log[k] # "none" => run[p].found)
      BY <1>0, <2>1, <2>2, <2>4, Zenon DEF Cares, Aims
    <3>2. log'[k] = IF run[p].ok THEN "sent" ELSE "failed"
      BY <1>0, <1>6, <2>4, <3>1, Zenon DEF LogWrite
    <3>3. ASSUME NEW q \in Programs PROVE ~Aims(q, k)' /\ Cares(q, k)'
      <4>1. ~Aims(q, k)'
        <5>1. CASE q = p
          BY <3>1, <5>1, Zenon
        <5>2. CASE q # p
          <6>1. ~Aims(q, k)
            BY <1>0, <3>1, <5>2, OneCares, Zenon
          <6> QED BY <2>1, <5>2, <6>1, Zenon DEF Rest, Aims, InHand
        <5> QED BY <5>1, <5>2, Zenon
      <4> QED BY <4>1, Zenon DEF Cares, Aims
    <3>4. mailed[k] > 0 => run[p].ok
      <4>1. ~run[p].ok => ~Delivered(p)
        BY Zenon DEF Delivered
      <4>2. ~run[p].ok => mailed[k] = 0
        BY <1>0, <3>1, <4>1, NotMailed, Zenon
      <4> QED BY <4>2
    <3>5. Touched(k) /\ due[k[1]] = k[3]
      BY <1>0, <3>1, Zenon DEF Touched, Cares
    <3>6. "daily" \in Programs => run'["daily"].list = run["daily"].list
      BY <2>1, <2>2, Zenon DEF Rest
    <3>7. mailed'[k] <= 1 /\ (mailed'[k] > 0 => log'[k] = "sent")
      BY <1>0, <2>1, <3>2, <3>4, Zenon DEF Once
    <3> QED BY <1>0, <2>1, <3>3, <3>5, <3>6, <3>7, ZenonT(30) DEF Once
  <2> QED BY <2>3, <2>4, Zenon
<1> QED BY <1>1, <1>2, <1>3, <1>4, <1>5, <1>6, Zenon DEF Work

LEMMA OnceNext ==
    ASSUME JobsOnly, LogInv, OnceInv, [Next]_vars
    PROVE  OnceInv'
<1>0. RunsOK /\ Listing /\ faults \in Nat
  BY Zenon DEF LogInv, RunsOK, OnceInv
<1>1. CASE UNCHANGED vars
  <2>1. UNCHANGED <<today, due, log, mailed, run, ran, faults>>
    BY <1>1, Zenon DEF vars
  <2>2. ASSUME NEW k \in Keys, Once(k) PROVE Once(k)'
    BY <2>1, <2>2, Zenon DEF Once, Cares, Touched, Aims, InHand, Delivered
  <2> QED BY <2>1, <2>2, Zenon DEF OnceInv, Listing
<1>2. CASE Next
  <2>1. Listing'
    BY <1>0, <1>2, ListingNext, Zenon
  <2> SUFFICES ASSUME faults' = 0, NEW k \in Keys, k[1] \notin Movable
               PROVE  Once(k)'
    BY <2>1, Zenon DEF OnceInv
  <2>2. \A f : ~Fault(f)
    BY <1>0, <1>2, FaultFree, Zenon
  <2>3. faults = 0
    BY <1>0, <1>2, FaultFree, Zenon
  <2>4. \A l \in Keys : l[1] \notin Movable => Once(l)
    BY <2>3, Zenon DEF OnceInv
  <2>5. Once(k) /\ k[1] \in Items
    BY <2>4, KeyParts, Zenon
  <2>6. ASSUME NEW p \in Programs, StartSending(p) \/ ListAnnuities(p) \/ StartRetry(p) PROVE Once(k)'
    BY <1>0, <2>5, <2>6, OnceLists, Zenon
  <2>7. ASSUME NEW p \in Programs, Work(p), ~ListAnnuities(p) PROVE Once(k)'
    BY <2>3, <2>4, <2>7, OnceWork, Zenon
  <2>8. ASSUME NEW i \in Items, Complete(i) \/ Switch(i) \/ \E d \in Days : MoveDue(i, d) PROVE Once(k)'
    <3>1. UNCHANGED <<today, log, mailed, run, ran>> /\ due'[k[1]] = due[k[1]]
      BY <1>0, <2>5, <2>8, Zenon DEF Complete, Switch, MoveDue, RunsOK
    <3> QED BY <2>5, <3>1, Zenon DEF Once, Cares, Touched, Aims, InHand, Delivered
  <2>9. CASE Tick
    <3>1. UNCHANGED <<due, log, mailed, run>> /\ today' = today + 1
      BY <2>9, Zenon DEF Tick, items
    <3>2. ASSUME NEW p \in Programs PROVE ~Aims(p, k) /\ ~Aims(p, k)' /\ ~InHand(p, k) /\ ~InHand(p, k)'
      BY <1>0, <2>9, <3>1, Zenon DEF Tick, RunsOK, Aims, InHand
    <3>3. Touched(k)' => Touched(k)
      BY <3>1, <3>2, Zenon DEF Touched
    <3>4. Touched(k)' => k[3] < today' + k[2]
      <4>1. k[2] \in Nat /\ k[3] \in Nat /\ today \in Nat
        BY <1>0, KeyParts, ConstantsAssumption DEF RunsOK, Days
      <4> QED BY <2>5, <3>1, <3>3, <4>1, SMTT(30) DEF Once
    <3>5. k[3] \in Nat /\ today' + k[2] \in Nat
      BY <1>0, <3>1, KeyParts, ConstantsAssumption DEF RunsOK, Days
    <3>6. Touched(k)' => k[3] <= today' + k[2] /\ k[3] # today' + k[2]
      BY <3>4, <3>5
    <3>7. \A p \in Programs : Cares(p, k)'
      BY <3>2, Zenon DEF Cares, Aims
    <3>8. mailed'[k] <= 1 /\ (mailed'[k] > 0 => log'[k] = "sent") /\ (log'[k] # "none" => due'[k[1]] = k[3])
      BY <2>5, <3>1, <3>2, Zenon DEF Once
    <3> QED BY <3>6, <3>7, <3>8, ZenonT(30) DEF Once
  <2> QED BY <1>2, <2>2, <2>6, <2>7, <2>8, <2>9, Zenon DEF Next, Crash, ItemRaises
<1> QED BY <1>1, <1>2, Zenon

\* As long as nothing fails, the daily job and the hourly retry deliver a
\* reminder of an item whose due date stays at most once, however their steps
\* interleave and whatever users do to the items.
THEOREM NoDuplicates ==
    ASSUME JobsOnly
    PROVE  Spec => []AtMostOnce
<1>1. LogInv /\ OnceInv /\ [Next]_vars => (LogInv /\ OnceInv)'
  BY LogNext, OnceNext, Zenon
<1>2. OnceInv => AtMostOnce
  BY Zenon DEF OnceInv, Once, AtMostOnce
<1> QED BY LogInit, OnceInit, <1>1, <1>2, PTL DEF Spec
-----------------------------------------------------------------------------
(* The daily job passes over no reminder of its day. *)

\* The reminder k is of this day, and somebody is to get it.
DueToday(k) ==
    /\ due[k[1]] = k[3] /\ k[3] = today + k[2] /\ ~done[k[1]]
    /\ k[1] \notin NoRecipient \intersect Dockets

\* The daily job has made the list to which k belongs.
ListMade(k) ==
    \/ run["daily"].list = "annuities"
    \/ run["daily"].list = "dockets" /\ k[1] \in Dockets

\* A reminder whose list the daily job has made is logged, or still before it.
Covered(k) == DueToday(k) /\ ListMade(k) => log[k] # "none" \/ Aims("daily", k)

\* The inductive invariant behind DailyCovers.
CoverInv ==
    /\ changes \in Nat /\ done \in [Items -> BOOLEAN]
    /\ faults = 0 /\ changes = 0 => off = {} /\ \A k \in Keys : Covered(k)

LEMMA CoverInit == "daily" \in Programs /\ Init => CoverInv
<1> SUFFICES ASSUME "daily" \in Programs, Init PROVE CoverInv
  OBVIOUS
<1>1. run["daily"].list = "off" /\ changes = 0 /\ off = {}
  BY IdleRun, Zenon DEF Init
<1>2. done \in [Items -> BOOLEAN]
  BY Zenon DEF Init
<1> QED BY <1>1, <1>2 DEF CoverInv, Covered, ListMade

\* No step takes a row out of the log.
LEMMA LogGrows ==
    ASSUME RunsOK, Next, NEW k \in Keys, log[k] # "none"
    PROVE  log'[k] # "none"
<1>1. ASSUME NEW p \in Programs, StartSending(p) \/ StartRetry(p) \/ ListAnnuities(p) \/ Finish(p) \/ LogFind(p)
      PROVE  log' = log
  BY <1>1, Zenon DEF StartSending, StartRetry, ListAnnuities, Finish, LogFind
<1>2. ASSUME NEW p \in Programs, NEW row \in run[p].todo, Skip(p, row) \/ Check(p, row) \/ ItemRaises(p, row)
      PROVE  log' = log \/ log' = [log EXCEPT ![row] = "skipped"]
  BY <1>2, Zenon DEF Skip, Check, ItemRaises
<1>3. ASSUME NEW p \in Programs, NEW delivered \in BOOLEAN, NEW ok \in BOOLEAN, Send(p, delivered, ok)
      PROVE  log' = log
  BY <1>3, Zenon DEF Send
<1>4. ASSUME NEW p \in Programs, LogWrite(p)
      PROVE  log' = log \/ log' = [log EXCEPT ![run[p].key] = IF run[p].ok THEN "sent" ELSE "failed"]
  BY <1>4, Zenon DEF LogWrite
<1>5. ASSUME (\E i \in Items : Complete(i) \/ Switch(i) \/ \E d \in Days : MoveDue(i, d)) \/ Crash \/ Tick
      PROVE  log' = log
  BY <1>5, Zenon DEF Complete, Switch, MoveDue, Crash, Tick
<1>6. log' = log \/ \E l, x : x # "none" /\ log' = [log EXCEPT ![l] = x]
  BY <1>1, <1>2, <1>3, <1>4, <1>5, Zenon DEF Next, Work
<1> QED BY <1>6, Zenon DEF RunsOK

\* The daily job goes on in its list: a reminder before it stays so or is logged.
LEMMA DailyWorks ==
    ASSUME LogInv, off = {}, "daily" \in Programs, NEW k \in Keys, Aims("daily", k),
           k[1] \notin NoRecipient \intersect Dockets, Work("daily"), ~ListAnnuities("daily"), ~Finish("daily")
    PROVE  log'[k] # "none" \/ log[k] # "none" \/ Aims("daily", k)'
<1> DEFINE p == "daily"
<1>0. RunsOK /\ run[p] \in Run /\ log \in [Keys -> {"none", "sent", "failed", "skipped"}]
  BY Zenon DEF LogInv, RunsOK
<1>1. ASSUME NEW row \in run[p].todo, Skip(p, row) PROVE log[k] # "none" \/ Aims(p, k)'
  <2>1. /\ Worked(p, run[p].todo \ {row}, "next", run[p].key, run[p].ok, run[p].found)
        /\ run[p].step = "next"
    BY <1>0, <1>1, WorkSteps, Zenon DEF Skip
  <2>2. row = k => log[k] # "none"
    BY <1>1, Zenon DEF Skip, NotWanted, AlreadySent, KeyOf
  <2> QED BY <2>1, <2>2, Zenon DEF Worked, Aims, InHand
<1>2. ASSUME NEW row \in run[p].todo, Check(p, row) PROVE Aims(p, k)'
  <2>1. PICK step \in {"send", "log"} :
           Worked(p, run[p].todo \ {row}, step, KeyOf(p, row), FALSE, run[p].found)
    BY <1>0, <1>2, WorkSteps, Zenon
  <2>2. run[p].step = "next" /\ KeyOf(p, row) = row
    BY <1>2, Zenon DEF Check, KeyOf
  <2> QED BY <2>1, <2>2, Zenon DEF Worked, Aims, InHand
<1>3. ASSUME NEW delivered \in BOOLEAN, NEW ok \in BOOLEAN, Send(p, delivered, ok) PROVE Aims(p, k)'
  <2>1. Worked(p, run[p].todo, "log", run[p].key, ok, run[p].found)
    BY <1>0, <1>3, WorkSteps, Zenon
  <2> QED BY <2>1, Zenon DEF Worked, Aims, InHand
<1>4. ASSUME LogFind(p) PROVE Aims(p, k)'
  <2>1. Worked(p, run[p].todo, "write", run[p].key, run[p].ok, log[run[p].key] # "none")
    BY <1>0, <1>4, WorkSteps, Zenon
  <2> QED BY <2>1, Zenon DEF Worked, Aims, InHand
<1>5. ASSUME LogWrite(p) PROVE log'[k] # "none" \/ log[k] # "none" \/ Aims(p, k)'
  <2>1. Worked(p, run[p].todo, "next", <<>>, FALSE, FALSE)
    BY <1>0, <1>5, WorkSteps, Zenon
  <2>2. CASE k \in run[p].todo
    BY <2>1, <2>2, Zenon DEF Worked, Aims
  <2>3. CASE run[p].key = k /\ log[k] = "none"
    <3>1. log' = [log EXCEPT ![k] = IF run[p].ok THEN "sent" ELSE "failed"]
      BY <1>5, <2>3, Zenon DEF LogWrite
    <3> QED BY <1>0, <3>1, Zenon
  <2> QED BY <2>2, <2>3, Zenon DEF Aims, InHand
<1> QED BY <1>1, <1>2, <1>3, <1>4, <1>5, Zenon DEF Work

LEMMA CoverNext ==
    ASSUME "daily" \in Programs, LogInv, CoverInv, [Next]_vars
    PROVE  CoverInv'
<1>0. RunsOK /\ run \in [Programs -> Run] /\ changes \in Nat /\ done \in [Items -> BOOLEAN]
  BY Zenon DEF LogInv, RunsOK, CoverInv
<1>1. CASE UNCHANGED vars
  <2>1. UNCHANGED <<today, due, done, off, log, run, changes, faults>>
    BY <1>1, Zenon DEF vars
  <2> QED BY <2>1, Zenon DEF CoverInv, Covered, DueToday, ListMade, Aims, InHand
<1>2. CASE Next
  <2>1. changes' \in Nat /\ (changes' = 0 => changes = 0) /\ done' \in [Items -> BOOLEAN]
    <3>1. ASSUME NEW i \in Items, Switch(i) \/ \E d \in Days : MoveDue(i, d) PROVE changes' = changes + 1 /\ done' = done
      BY <3>1, Zenon DEF Switch, MoveDue, items
    <3>2. ASSUME NEW p \in Programs, StartSending(p) \/ StartRetry(p) \/ ListAnnuities(p) \/ Finish(p)
                                       \/ LogFind(p) \/ LogWrite(p)
          PROVE  changes' = changes /\ done' = done
      BY <3>2, Zenon DEF StartSending, StartRetry, ListAnnuities, Finish, LogFind, LogWrite, items
    <3>3. ASSUME NEW p \in Programs, NEW row \in run[p].todo, Skip(p, row) \/ Check(p, row) \/ ItemRaises(p, row)
          PROVE  changes' = changes /\ done' = done
      BY <3>3, Zenon DEF Skip, Check, ItemRaises, items
    <3>4. ASSUME NEW p \in Programs, NEW delivered \in BOOLEAN, NEW ok \in BOOLEAN, Send(p, delivered, ok)
          PROVE  changes' = changes /\ done' = done
      BY <3>4, Zenon DEF Send, items
    <3>5. ASSUME (\E i \in Items : Complete(i)) \/ Crash \/ Tick
          PROVE  changes' = changes /\ (done' = done \/ \E i \in Items : done' = [done EXCEPT ![i] = TRUE])
      BY <3>5, Zenon DEF Complete, Crash, Tick, items
    <3>6. /\ changes' = changes \/ changes' = changes + 1
          /\ done' = done \/ \E i \in Items : done' = [done EXCEPT ![i] = TRUE]
      BY <1>2, <3>1, <3>2, <3>3, <3>4, <3>5, Zenon DEF Next, Work
    <3>7. done' \in [Items -> BOOLEAN]
      BY <1>0, <3>6, Zenon
    <3> QED BY <1>0, <3>6, <3>7
  <2> SUFFICES ASSUME faults' = 0, changes' = 0 PROVE off' = {} /\ \A k \in Keys : Covered(k)'
    BY <2>1, Zenon DEF CoverInv
  <2>2. faults = 0 /\ changes = 0 /\ \A f : ~Fault(f)
    BY <1>0, <1>2, <2>1, FaultFree, Zenon
  <2>3. off = {} /\ \A k \in Keys : Covered(k)
    BY <2>2, Zenon DEF CoverInv
  \* A step of a program.
  <2>4. ASSUME NEW p \in Programs, Rest(p), UNCHANGED <<today, due, done, off>>,
               \A k \in Keys : DueToday(k) /\ ListMade(k)' /\ p = "daily"
                   => log'[k] # "none" \/ log[k] # "none" \/ Aims(p, k)'
        PROVE  off' = {} /\ \A k \in Keys : Covered(k)'
    <3> SUFFICES ASSUME NEW k \in Keys, DueToday(k)', ListMade(k)' PROVE log'[k] # "none" \/ Aims("daily", k)'
      BY <2>3, <2>4, Zenon DEF Covered
    <3>1. DueToday(k) /\ (log[k] # "none" => log'[k] # "none")
      BY <1>0, <1>2, <2>4, LogGrows, Zenon DEF DueToday
    <3>2. CASE p = "daily"
      BY <2>4, <3>1, <3>2, Zenon
    <3>3. CASE p # "daily"
      <4>1. run'["daily"] = run["daily"]
        BY <2>4, <3>3, Zenon DEF Rest
      <4>2. ListMade(k) /\ (Aims("daily", k) => Aims("daily", k)')
        BY <4>1, Zenon DEF ListMade, Aims, InHand
      <4> QED BY <2>3, <3>1, <4>2, Zenon DEF Covered
    <3> QED BY <3>2, <3>3, Zenon
  <2>5. ASSUME NEW p \in Programs, StartSending(p) PROVE off' = {} /\ \A k \in Keys : Covered(k)'
    <3>1. Rest(p) /\ Listed(p, "dockets", Upcoming(Dockets)) /\ UNCHANGED <<today, due, done, off>>
      BY <1>0, <2>5, ListSteps, Zenon DEF StartSending, items
    <3>2. ASSUME NEW k \in Keys, DueToday(k), ListMade(k)', p = "daily" PROVE Aims(p, k)'
      <4>1. k[1] \in Dockets
        BY <3>1, <3>2, Zenon DEF ListMade, Listed
      <4>2. k \in Upcoming(Dockets)
        BY <2>3, <3>2, <4>1, Zenon DEF DueToday, Upcoming
      <4> QED BY <3>1, <4>2, Zenon DEF Listed, Aims
    <3> QED BY <2>4, <3>1, <3>2, Zenon
  <2>6. ASSUME NEW p \in Programs, ListAnnuities(p) PROVE off' = {} /\ \A k \in Keys : Covered(k)'
    <3>1. /\ Rest(p) /\ Listed(p, "annuities", Upcoming(Annuities)) /\ UNCHANGED <<today, due, done, off>>
          /\ AtNext(p, "dockets")
      BY <1>0, <2>6, ListSteps, Zenon DEF ListAnnuities, items
    <3>2. ASSUME NEW k \in Keys, DueToday(k), p = "daily" PROVE log[k] # "none" \/ Aims(p, k)'
      <4>1. CASE k[1] \in Dockets
        <5>1. ListMade(k) /\ ~Aims(p, k)
          BY <3>1, <3>2, <4>1, Zenon DEF AtNext, ListMade, Aims, InHand
        <5> QED BY <2>3, <3>2, <5>1, Zenon DEF Covered
      <4>2. CASE k[1] \notin Dockets
        <5>1. k \in Upcoming(Annuities)
          BY <2>3, <3>2, <4>2, KeyParts, Zenon DEF DueToday, Upcoming, Items
        <5> QED BY <3>1, <5>1, Zenon DEF Listed, Aims
      <4> QED BY <4>1, <4>2, Zenon
    <3> QED BY <2>4, <3>1, <3>2, Zenon
  <2>7. ASSUME NEW p \in Programs, StartRetry(p) \/ Finish(p) PROVE off' = {} /\ \A k \in Keys : Covered(k)'
    <3>1. Rest(p) /\ UNCHANGED <<today, due, done, off>>
      BY <1>0, <2>7, ListSteps, Zenon DEF StartRetry, Finish, items
    <3>2. p = "daily" => run'[p].list = "off"
      BY <1>0, <2>7, ListSteps, IdleRun, Zenon DEF StartRetry
    <3> QED BY <2>4, <3>1, <3>2, Zenon DEF ListMade
  <2>8. ASSUME NEW p \in Programs, Work(p), ~ListAnnuities(p), ~Finish(p)
        PROVE  off' = {} /\ \A k \in Keys : Covered(k)'
    <3>1. Rest(p) /\ run'[p].list = run[p].list
      BY <1>0, <2>8, WorkSteps, ZenonT(30) DEF Work, Worked
    <3>2. UNCHANGED <<today, due, done, off>>
      BY <2>8, ZenonT(30) DEF Work, Skip, Check, Send, LogFind, LogWrite, items
    <3>3. ASSUME NEW k \in Keys, DueToday(k), ListMade(k)', p = "daily"
          PROVE  log'[k] # "none" \/ log[k] # "none" \/ Aims(p, k)'
      <4>1. log[k] # "none" \/ Aims(p, k)
        BY <2>3, <3>1, <3>3, Zenon DEF Covered, ListMade
      <4>2. k[1] \notin NoRecipient \intersect Dockets
        BY <3>3, Zenon DEF DueToday
      <4> QED BY <2>3, <2>8, <3>3, <4>1, <4>2, DailyWorks, Zenon
    <3> QED BY <2>4, <3>1, <3>2, <3>3, Zenon
  <2>9. ASSUME NEW i \in Items, Complete(i) PROVE off' = {} /\ \A k \in Keys : Covered(k)'
    <3>1. UNCHANGED <<today, due, off, log, run>> /\ done' = [done EXCEPT ![i] = TRUE]
      BY <2>9, Zenon DEF Complete
    <3>2. ASSUME NEW k \in Keys, Covered(k) PROVE Covered(k)'
      <4>1. done[k[1]] => done'[k[1]]
        BY <1>0, <3>1, KeyParts, Zenon
      <4>2. DueToday(k)' => DueToday(k)
        BY <3>1, <4>1, Zenon DEF DueToday
      <4> QED BY <3>1, <3>2, <4>2, Zenon DEF Covered, ListMade, Aims, InHand
    <3> QED BY <2>3, <3>1, <3>2, Zenon
  <2>10. ASSUME NEW i \in Items, Switch(i) \/ \E d \in Days : MoveDue(i, d) PROVE FALSE
    <3>1. changes' = changes + 1
      BY <2>10, Zenon DEF Switch, MoveDue
    <3> QED BY <2>2, <3>1
  <2>11. CASE Tick
    <3>1. UNCHANGED <<off, run>> /\ run["daily"].list = "off"
      BY <2>11, Zenon DEF Tick, items
    <3> QED BY <2>3, <3>1, Zenon DEF Covered, ListMade
  <2> QED BY <1>2, <2>2, <2>5, <2>6, <2>7, <2>8, <2>9, <2>10, <2>11, Zenon DEF Next, Crash, ItemRaises
<1> QED BY <1>1, <1>2, Zenon

\* When a daily job comes to its end, every open item whose reminder is due that
\* day has a row in the log, whatever the retry, the command and other users did
\* while the job ran; unless an item raised, or items were moved or switched.
THEOREM NoReminderPassedOver ==
    ASSUME "daily" \in Programs
    PROVE  Spec => []DailyCovers
<1>1. LogInv /\ CoverInv /\ [Next]_vars => (LogInv /\ CoverInv)'
  BY LogNext, CoverNext, Zenon
<1>2. LogInv /\ CoverInv => DailyCovers
  <2> SUFFICES ASSUME LogInv, CoverInv, AtNext("daily", "annuities"), faults = 0, changes = 0,
                      NEW i \in Items, NEW n \in Reminders,
                      due[i] = today + n, ~done[i], i \notin NoRecipient \intersect Dockets
               PROVE  log[<<i, n, due[i]>>] # "none"
    BY Zenon DEF DailyCovers
  <2> DEFINE k == <<i, n, due[i]>>
  <2>1. k \in Keys /\ k[1] = i /\ k[2] = n /\ k[3] = due[i]
    BY Zenon DEF LogInv, RunsOK, Keys
  <2>2. DueToday(k) /\ ListMade(k) /\ ~Aims("daily", k)
    BY <2>1, Zenon DEF DueToday, ListMade, AtNext, Aims, InHand
  <2> QED BY <2>1, <2>2, Zenon DEF CoverInv, Covered
<1> QED BY LogInit, CoverInit, <1>1, <1>2, PTL DEF Spec
=============================================================================
