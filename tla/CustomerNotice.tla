---------------------------- MODULE CustomerNotice ----------------------------
(***************************************************************************)
(* One customer notification and its outbox (customer_notification_        *)
(* service), with sending enabled.                                         *)
(*                                                                         *)
(* A staff request reads the notification and commits later, without a     *)
(* lock.  process_pending_outbox takes the due rows FOR UPDATE SKIP        *)
(* LOCKED, hands them to the provider one after the other and commits once *)
(* at the end: what the provider accepted before a crash is sent again,    *)
(* under the same idempotency key.                                         *)
(***************************************************************************)
EXTENDS Naturals, FiniteSets

CONSTANTS Staff,       \* requests that decide on the notification
          People,      \* who makes them
          Deliverers,  \* runs of process_pending_outbox
          Channels,
          RetryCount,  \* notification_retry_count
          MaxCrashes,  \* bound
          None

VARIABLES
  notice,     \* status, creator and approver of the notification
  outbox,     \* NotificationOutbox per channel: status and attempt_count
  delivered,  \* how often the provider accepted the message on a channel
  desk,       \* what each staff request is about to commit
  batch,      \* the rows each run holds, and what it made of them so far
  overlapped, \* a staff request began while another was in progress
  crashes

vars == <<notice, outbox, delivered, desk, batch, overlapped, crashes>>

NoRow == [status |-> "none", attempts |-> 0]
NoJob == [op |-> "idle", by |-> None, ch |-> None, seen |-> "none"]
NoRun == [rows |-> {}, left |-> {}, read |-> "none", status |-> "none", out |-> [c \in Channels |-> NoRow]]

Init == /\ notice = [status |-> "none", creator |-> None, approver |-> None]
        /\ outbox = [c \in Channels |-> NoRow] /\ delivered = [c \in Channels |-> 0]
        /\ desk = [s \in Staff |-> NoJob] /\ batch = [d \in Deliverers |-> NoRun]
        /\ overlapped = FALSE /\ crashes = 0

(***************************************************************************)
(* Staff.                                                                  *)
(***************************************************************************)
Rejectable == {"drafted", "approved"}

\* draft_notification, once per incident, assessment and subject.
Draft(p) ==
  /\ notice.status = "none"
  /\ notice' = [notice EXCEPT !.status = "drafted", !.creator = p]
  /\ UNCHANGED <<outbox, delivered, desk, batch, overlapped, crashes>>

\* approve_notification, reject_notification and queue_notification read ...
Sit(s, op, p, c) ==
  /\ desk[s] = NoJob
  /\ desk' = [desk EXCEPT ![s] = [op |-> op, by |-> p, ch |-> c, seen |-> notice.status]]
  /\ overlapped' = (overlapped \/ \E t \in Staff : desk[t] # NoJob)
  /\ UNCHANGED <<notice, outbox, delivered, batch, crashes>>

ReadApprove(s, p) == notice.status = "drafted" /\ notice.creator # p /\ Sit(s, "approve", p, None)

\* who rejects and who queues is stored and never read
ReadReject(s) == notice.status \in Rejectable /\ Sit(s, "reject", None, None)

\* a channel queued before returns its row
ReadQueue(s, c) ==
  notice.status \in {"approved", "queued"} /\ outbox[c] = NoRow /\ Sit(s, "queue", None, c)

\* ... and commit.  The status is written if it differs from what was read.
Decide(s) ==
  LET q == desk[s] IN
  /\ q # NoJob /\ desk' = [desk EXCEPT ![s] = NoJob]
  /\ q.op = "queue" => outbox[q.ch] = NoRow
  /\ notice' = CASE q.op = "approve" -> [notice EXCEPT !.status = "approved", !.approver = q.by]
                 [] q.op = "reject"  -> [notice EXCEPT !.status = "rejected"]
                 [] q.seen = "queued" -> notice
                 [] OTHER -> [notice EXCEPT !.status = "queued"]
  /\ outbox' = IF q.op = "queue" THEN [outbox EXCEPT ![q.ch].status = "queued"] ELSE outbox
  /\ UNCHANGED <<delivered, batch, overlapped, crashes>>

\* uq_outbox_notification_channel: another request queued the channel meanwhile, and
\* this one is rolled back.
Refused(s) ==
  /\ desk[s].op = "queue" /\ outbox[desk[s].ch] # NoRow
  /\ desk' = [desk EXCEPT ![s] = NoJob]
  /\ UNCHANGED <<notice, outbox, delivered, batch, overlapped, crashes>>

(***************************************************************************)
(* process_pending_outbox.                                                 *)
(***************************************************************************)
Due == {c \in Channels : outbox[c].status \in {"queued", "retry"}}
Locked == UNION {batch[d].rows : d \in Deliverers}

TakeLocked(d) ==                            \* Fault: no FOR UPDATE SKIP LOCKED
  /\ batch[d].rows = {} /\ Due # {}
  /\ batch' = [batch EXCEPT ![d] = [NoRun EXCEPT !.rows = Due, !.left = Due, !.out = outbox]]
  /\ UNCHANGED <<notice, outbox, delivered, desk, overlapped, crashes>>

Take(d) ==
  /\ batch[d].rows = {} /\ Due \ Locked # {}
  /\ batch' = [batch EXCEPT ![d] = [NoRun EXCEPT !.rows = Due \ Locked, !.left = Due \ Locked, !.out = outbox]]
  /\ UNCHANGED <<notice, outbox, delivered, desk, overlapped, crashes>>

\* The session reads the notification with the first row and sees its own
\* change from then on.
Seen(d) == IF batch[d].read = "none" THEN notice.status ELSE batch[d].status

Attempt(d, c, ok) ==
  LET n == batch[d].out[c].attempts + 1
      last == n >= RetryCount
      row == [status |-> IF ok THEN "sent" ELSE IF last THEN "failed" ELSE "retry", attempts |-> n]
      now == IF ok THEN "sent" ELSE IF last THEN "failed" ELSE Seen(d)
  IN [batch[d] EXCEPT !.left = @ \ {c}, !.out[c] = row, !.status = now,
                      !.read = IF @ = "none" THEN notice.status ELSE @]

Skip(d, c) ==
  /\ c \in batch[d].left /\ Seen(d) \notin {"queued", "approved"}
  /\ batch' = [batch EXCEPT ![d].left = @ \ {c}, ![d].status = Seen(d),
                            ![d].read = IF @ = "none" THEN notice.status ELSE @]
  /\ UNCHANGED <<notice, outbox, delivered, desk, overlapped, crashes>>

Send(d, c) ==
  /\ c \in batch[d].left /\ Seen(d) \in {"queued", "approved"}
  /\ \E ok \in BOOLEAN :
       /\ batch' = [batch EXCEPT ![d] = Attempt(d, c, ok)]
       /\ delivered' = IF ok THEN [delivered EXCEPT ![c] = @ + 1] ELSE delivered
  /\ UNCHANGED <<notice, outbox, desk, overlapped, crashes>>

Commit(d) ==
  LET b == batch[d] IN
  /\ b.rows # {} /\ b.left = {}
  /\ outbox' = [c \in Channels |-> IF c \in b.rows THEN b.out[c] ELSE outbox[c]]
  /\ notice' = IF b.status = b.read THEN notice ELSE [notice EXCEPT !.status = b.status]
  /\ batch' = [batch EXCEPT ![d] = NoRun]
  /\ UNCHANGED <<delivered, desk, overlapped, crashes>>

Crash(d) ==
  /\ batch[d] # NoRun /\ crashes < MaxCrashes /\ crashes' = crashes + 1
  /\ batch' = [batch EXCEPT ![d] = NoRun]
  /\ UNCHANGED <<notice, outbox, delivered, desk, overlapped>>

Next ==
  \/ \E p \in People : Draft(p) \/ \E s \in Staff : ReadApprove(s, p)
  \/ \E s \in Staff : \/ ReadReject(s) \/ Decide(s) \/ Refused(s)
                      \/ \E c \in Channels : ReadQueue(s, c)
  \/ \E d \in Deliverers : \/ Take(d) \/ Commit(d) \/ Crash(d)
                           \/ \E c \in Channels : Skip(d, c) \/ Send(d, c)

Spec == Init /\ [][Next]_vars

-----------------------------------------------------------------------------
\* Types, and no row is attempted more often than the retry count allows.
TypeOK ==
  /\ notice.status \in {"none", "drafted", "approved", "rejected", "queued", "sent", "failed"}
  /\ \A c \in Channels : /\ outbox[c].status \in {"none", "queued", "retry", "sent", "failed"}
                         /\ outbox[c].attempts <= RetryCount

\* Unless staff requests overlapped, what was rejected reaches nobody, however the runs
\* of the outbox overlap with the decision.
RejectedReachesNobody ==
  notice.status = "rejected" /\ ~ overlapped
    => \A c \in Channels : delivered[c] = 0 /\ outbox[c] = NoRow

\* Requests and runs that overlap never send a row twice: a channel gets the message
\* once, and once more for each crash between the provider and the commit.
DeliveredOnce == \A c \in Channels : delivered[c] <= 1 + crashes

\* What was rejected reaches nobody, and overlapping runs of the outbox send
\* nothing twice (customer_notification_service).
SentAsDecided == RejectedReachesNobody /\ DeliveredOnce
=============================================================================
