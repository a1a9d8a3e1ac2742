------------------------------- MODULE Notices -------------------------------
(***************************************************************************)
(* Order notifications: rows of the table notifications, written inside    *)
(* the transaction that changes an order (core-api services/notification.py,*)
(* the twin in payment-worker webhook.py), and the SMS task that settles    *)
(* an SMS row (sms-worker tasks/notification.py).  The task is sent by an   *)
(* after-commit callback of the session; the broker hands a task out once.  *)
(***************************************************************************)
EXTENDS Integers, FiniteSets

CONSTANTS
  Writers,        \* requests with a database session of their own
  Notes,          \* bound: notifications ever written
  Transitions,    \* what the writers announce: records [status, type, by]
  MaxSmsRetries,  \* max_retries of send_order_notification_sms
  MaxMisfortunes  \* bound: crashes and broker failures

ASSUME NoticesAssumption == MaxSmsRetries \in Nat

VARIABLES
  rows,         \* per notification: its committed SMS row, if it has one
  writer,       \* the sessions: what is uncommitted, what runs after commit
  job,          \* the SMS task of each notification
  accepted,     \* history: how often the gateway took its SMS
  dropped,      \* history: committed rows whose task is gone, unsettled
  written,      \* history: notifications written, committed or not
  misfortunes

noticeVars == <<rows, writer, job, accepted, dropped, written, misfortunes>>

-----------------------------------------------------------------------------
(* The matrix of PDD 6.1: which transitions are told of, and which by SMS  *)

Cell(s, t, by) == [status |-> s, type |-> t, by |-> by]

InAppOnly == {Cell("IN_DELIVERY", "any", "none"), Cell("COMPLETED", "PICKUP", "none")}
BySms ==
  {Cell(s, "any", "none") : s \in {"PAID", "PREPARING"}}
    \cup {Cell("READY", t, "none") : t \in {"PICKUP", "DELIVERY"}}
    \cup {Cell("COMPLETED", "DELIVERY", "none")}
    \cup {Cell("CANCELLED", "any", by) : by \in {"customer", "admin", "payment"}}

\* The key that a transition is looked up by; one without a cell raises.
KeyOf(x) == Cell(x.status,
                 IF x.status \in {"READY", "COMPLETED"} THEN x.type ELSE "any",
                 IF x.status = "CANCELLED" THEN x.by ELSE "none")
Told(x) == KeyOf(x) \in InAppOnly \cup BySms
RequiresSms(x) == KeyOf(x) \in BySms

-----------------------------------------------------------------------------
IdleWriter == [pc |-> "idle", rows |-> {}, calls |-> {}]

NoticesInit ==
  /\ rows = [n \in Notes |-> "none"]
  /\ writer = [w \in Writers |-> IdleWriter]
  /\ job = [n \in Notes |-> "none"]
  /\ accepted = [n \in Notes |-> 0]
  /\ dropped = {} /\ written = {} /\ misfortunes = 0

Misfortune == misfortunes < MaxMisfortunes /\ misfortunes' = misfortunes + 1

\* Mutant: the list of callbacks is replaced where it should grow.
DeferredAlone(n, calls) == {n}
\* _defer_after_commit
Deferred(n, calls) == calls \cup {n}

\* Mutant: the task is sent when the row is written.
JobsAtWriteSent(n) == [job EXCEPT ![n] = "queued"]
JobsAtWrite(n) == job

\* send_order_notification inside the caller's transaction: the IN_APP row,
\* and for the statuses of BySms a PENDING row and a deferred task.
Announce(w, n, x) ==
  /\ writer[w].pc \in {"idle", "open"}
  /\ n \notin written /\ written' = written \cup {n}
  /\ Told(x)
  /\ writer' = [writer EXCEPT ![w] =
       IF RequiresSms(x)
       THEN [pc |-> "open", rows |-> writer[w].rows \cup {n},
             calls |-> Deferred(n, writer[w].calls)]
       ELSE [writer[w] EXCEPT !.pc = "open"]]
  /\ job' = IF RequiresSms(x) THEN JobsAtWrite(n) ELSE job
  /\ UNCHANGED <<rows, accepted, dropped, misfortunes>>

\* A transition without a cell, an order or a profile that is gone, or any
\* later failure of the caller: everything rolls back, the callbacks too.
Rollback(w) ==
  /\ writer[w].pc = "open"
  /\ writer' = [writer EXCEPT ![w] = IdleWriter]
  /\ UNCHANGED <<rows, job, accepted, dropped, written, misfortunes>>

Commit(w) ==
  /\ writer[w].pc = "open"
  /\ rows' = [n \in Notes |-> IF n \in writer[w].rows THEN "PENDING" ELSE rows[n]]
  /\ writer' = [writer EXCEPT ![w] = [pc |-> "after", rows |-> {},
                                      calls |-> writer[w].calls]]
  /\ UNCHANGED <<job, accepted, dropped, written, misfortunes>>

\* The callbacks run one after the other, outside the transaction.
EnqueueSms(w, n) ==
  /\ writer[w].pc = "after" /\ n \in writer[w].calls
  /\ writer' = [writer EXCEPT ![w].calls = @ \ {n}]
  /\ \/ /\ job' = [job EXCEPT ![n] = "queued"]
        /\ UNCHANGED <<dropped, misfortunes>>
     \/ \* The broker is out of reach: logged, and the order goes on.
        /\ Misfortune /\ dropped' = dropped \cup {n}
        /\ UNCHANGED job
  /\ UNCHANGED <<rows, accepted, written>>

WriterDone(w) ==
  /\ writer[w].pc = "after" /\ writer[w].calls = {}
  /\ writer' = [writer EXCEPT ![w] = IdleWriter]
  /\ UNCHANGED <<rows, job, accepted, dropped, written, misfortunes>>

WriterDies(w) ==
  /\ writer[w].pc # "idle" /\ Misfortune
  /\ dropped' = IF writer[w].pc = "after" THEN dropped \cup writer[w].calls
                ELSE dropped
  /\ writer' = [writer EXCEPT ![w] = IdleWriter]
  /\ UNCHANGED <<rows, job, accepted, written>>

-----------------------------------------------------------------------------
(* send_order_notification_sms                                             *)

\* The row is not there (yet): skipped, and nothing brings the task back.
SkipMissing(n) ==
  /\ job[n] = "queued" /\ rows[n] = "none"
  /\ job' = [job EXCEPT ![n] = "done"]
  /\ UNCHANGED <<rows, writer, accepted, dropped, written, misfortunes>>

GatewayTakes(n) ==
  /\ job[n] = "queued" /\ rows[n] # "none"
  /\ accepted' = [accepted EXCEPT ![n] = @ + 1]
  /\ job' = [job EXCEPT ![n] = "taken"]
  /\ UNCHANGED <<rows, writer, dropped, written, misfortunes>>

MarkSent(n) ==
  /\ job[n] = "taken"
  /\ rows' = [rows EXCEPT ![n] = "SENT"]
  /\ job' = [job EXCEPT ![n] = "done"]
  /\ UNCHANGED <<writer, accepted, dropped, written, misfortunes>>

\* The gateway refuses.  The task raises to be queued again, but no
\* autoretry_for is declared and self.retry is not called: Celery drops it,
\* so request.retries is always 0.
GatewayRefuses(n) ==
  /\ job[n] = "queued" /\ rows[n] # "none"
  /\ job' = [job EXCEPT ![n] = "done"]
  /\ IF 0 < MaxSmsRetries
     THEN dropped' = dropped \cup {n} /\ UNCHANGED rows
     ELSE rows' = [rows EXCEPT ![n] = "FAILED"] /\ UNCHANGED dropped
  /\ UNCHANGED <<writer, accepted, written, misfortunes>>

\* The worker dies with the task, which was acknowledged when it was taken.
SmsWorkerDies(n) ==
  /\ job[n] \in {"queued", "taken"} /\ rows[n] # "none" /\ Misfortune
  /\ job' = [job EXCEPT ![n] = "done"]
  /\ dropped' = dropped \cup {n}
  /\ UNCHANGED <<rows, writer, accepted, written>>

SmsTask(n) == SkipMissing(n) \/ GatewayTakes(n) \/ MarkSent(n) \/ GatewayRefuses(n)

NoticesNext ==
  \/ \E w \in Writers :
       \/ \E n \in Notes, x \in Transitions : Announce(w, n, x)
       \/ Rollback(w) \/ Commit(w) \/ WriterDone(w) \/ WriterDies(w)
       \/ \E n \in Notes : EnqueueSms(w, n)
  \/ \E n \in Notes : SmsTask(n) \/ SmsWorkerDies(n)

NoticesSpec == NoticesInit /\ [][NoticesNext]_noticeVars

\* The processes keep running: a request ends, the worker takes its tasks.
NoticesFair ==
  /\ NoticesSpec
  /\ \A w \in Writers : /\ WF_noticeVars(Commit(w) \/ Rollback(w) \/ WriterDone(w))
                        /\ WF_noticeVars(\E n \in Notes : EnqueueSms(w, n))
  /\ \A n \in Notes : WF_noticeVars(SmsTask(n))

-----------------------------------------------------------------------------
\* A committed row is never forgotten without a fault: its task waits to be
\* sent, is queued or running, or something on record lost it.
PendingExplained ==
  \A n \in Notes :
    rows[n] = "PENDING" =>
      \/ job[n] \in {"queued", "taken"}
      \/ \E w \in Writers : writer[w].pc = "after" /\ n \in writer[w].calls
      \/ n \in dropped

\* One SMS per row, only for committed rows, and SENT only after it.
OneSms ==
  \A n \in Notes :
    /\ accepted[n] <= 1
    /\ accepted[n] > 0 => rows[n] # "none"
    /\ rows[n] = "SENT" => accepted[n] = 1

\* PDD 7.8, and the comment at sms_worker/tasks/notification.py:117: a
\* refused SMS is tried again, and a row ends up SENT or FAILED.
SmsSettled == \A n \in Notes : rows[n] = "PENDING" ~> rows[n] \in {"SENT", "FAILED"}
=============================================================================
