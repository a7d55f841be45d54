--------------------------- MODULE ServicesProofs ---------------------------
(***************************************************************************)
(* Four of the services that MCServices checks side by side: the           *)
(* notifications, the members, the verification of the company and the     *)
(* intake of events.  They share no table, and each has its invariant,     *)
(* proved for any number of requests at a time, and of threads of the      *)
(* host.  The controlled patch is only model-checked.                      *)
(***************************************************************************)
EXTENDS Services, FiniteSetTheorems, SequenceTheorems, WellFoundedInduction, TLAPS

-----------------------------------------------------------------------------
(* Notifications: the invariant *)

NoticeStatus == {"none", "drafted", "approved", "rejected", "queued", "sent", "failed"}
OutboxRow == [status : {"none", "queued", "retry", "sent", "failed"}, attempts : Nat]
Job == [op : {"idle", "approve", "reject", "queue"}, by : People \cup {None},
        ch : Channels \cup {None}, seen : NoticeStatus]
Run == [rows : SUBSET Channels, left : SUBSET Channels, read : NoticeStatus,
        status : NoticeStatus, out : [Channels -> OutboxRow]]

NoticeShapes ==
    /\ notice \in [status : NoticeStatus, creator : People \cup {None},
                   approver : People \cup {None}]
    /\ outbox \in [Channels -> OutboxRow]
    /\ delivered \in [Channels -> Nat]
    /\ desk \in [Staff -> Job]
    /\ \A s \in Staff : /\ desk[s].op = "idle" => desk[s] = Notices!NoJob
                        /\ desk[s].op = "queue" => desk[s].ch \in Channels
    /\ batch \in [Deliverers -> Run]
    /\ overlapped \in BOOLEAN
    /\ deaths \in Nat

\* A run holds rows that are due, which no other holds, and has sent none of those left.
RowsHeld ==
    /\ \A d, e \in Deliverers : d # e => batch[d].rows \cap batch[e].rows = {}
    /\ \A d \in Deliverers :
          /\ batch[d].left \subseteq batch[d].rows
          /\ \A c \in batch[d].rows : /\ outbox[c].status \in {"queued", "retry"}
                                      /\ batch[d].out[c].status # "none"
          /\ \A c \in batch[d].left : batch[d].out[c].status # "sent"

\* What the provider accepted is in the row, or in the hands of a run, or lost in a crash.
SentBy(d, c) == c \in batch[d].rows /\ batch[d].out[c].status = "sent"
Delivery ==
    \A c \in Channels :
        /\ delivered[c] <= 1 + deaths
        /\ delivered[c] > deaths =>
              outbox[c].status = "sent" \/ \E d \in Deliverers : SentBy(d, c)
        /\ delivered[c] > 0 => outbox[c].status # "none"

\* One request after the other: each still finds what it read, but for what the outbox
\* made of a queued notification.
Beyond == {"queued", "sent", "failed"}
FoundStill(job) ==
    /\ job.op = "approve" => notice.status = "drafted"
    /\ job.op = "reject" => notice.status \in {"drafted", "approved"}
    /\ job.op = "queue" => notice.status \in Beyond \cup {"approved"}
    /\ job.op = "queue" /\ job.seen = "queued" => notice.status \in Beyond
Orderly ==
    /\ \A s, t \in Staff : s # t => desk[s].op = "idle" \/ desk[t].op = "idle"
    /\ \A s \in Staff : FoundStill(desk[s])
    /\ \A c \in Channels : outbox[c] # Notices!NoRow => notice.status \in Beyond
    /\ \A d \in Deliverers :
          /\ batch[d].status \in Beyond \cup {"none"}
          /\ batch[d].read = "none" <=> batch[d].status = "none"

NoticeInv == NoticeShapes /\ RowsHeld /\ Delivery /\ (~ overlapped => Orderly)

-----------------------------------------------------------------------------
(* Notifications: each step keeps it *)

\* Nothing is drafted, queued or sent at the start.
LEMMA NoticeInit == Notices!Init => NoticeInv
<1>. SUFFICES ASSUME Notices!Init PROVE NoticeInv
    OBVIOUS
<1>1. NoticeShapes
    BY DEF Notices!Init, NoticeShapes, Notices!NoRow, Notices!NoJob, Notices!NoRun,
           NoticeStatus, OutboxRow, Job, Run
<1>2. RowsHeld /\ Delivery /\ Orderly
    BY DEF Notices!Init, RowsHeld, Delivery, Orderly, SentBy, FoundStill, Beyond,
           Notices!NoRow, Notices!NoJob, Notices!NoRun
<1>. QED
    BY <1>1, <1>2 DEF NoticeInv

\* A draft is made while there is none, so nothing is in an outbox yet.
LEMMA DraftKeeps ==
    ASSUME NoticeInv, NEW p \in People, Notices!Draft(p)
    PROVE  NoticeInv'
<1>. USE DEF Notices!Draft
<1>1. NoticeShapes'
    BY DEF NoticeInv, NoticeShapes, NoticeStatus
<1>2. RowsHeld' /\ Delivery'
    BY DEF NoticeInv, RowsHeld, Delivery, SentBy
<1>3. ASSUME ~ overlapped PROVE Orderly'
    BY <1>3 DEF NoticeInv, NoticeShapes, Orderly, FoundStill, Beyond, Job, NoticeStatus
<1>. QED
    BY <1>1, <1>2, <1>3 DEF NoticeInv

\* A request that begins reads the notification; if it is alone, all it reads is so.
LEMMA SitKeeps ==
    ASSUME NoticeInv, NEW s \in Staff, NEW op \in {"approve", "reject", "queue"},
           NEW p \in People \cup {None}, NEW c \in Channels \cup {None},
           op = "queue" => c \in Channels,
           Notices!Sit(s, op, p, c),
           op = "approve" => notice.status = "drafted",
           op = "reject" => notice.status \in {"drafted", "approved"},
           op = "queue" => notice.status \in {"approved", "queued"}
    PROVE  NoticeInv'
<1>. DEFINE job == [op |-> op, by |-> p, ch |-> c, seen |-> notice.status]
<1>1. /\ desk' = [desk EXCEPT ![s] = job]
      /\ UNCHANGED <<notice, outbox, delivered, batch, deaths>>
      /\ overlapped' = (overlapped \/ \E t \in Staff : desk[t] # Notices!NoJob)
    BY DEF Notices!Sit
<1>2. NoticeShapes'
    <2>1. job \in Job
        BY DEF NoticeInv, NoticeShapes, Job
    <2>2. desk' \in [Staff -> Job] /\ overlapped' \in BOOLEAN
        BY <1>1, <2>1 DEF NoticeInv, NoticeShapes
    <2>3. \A t \in Staff : desk'[t] = IF t = s THEN job ELSE desk[t]
        BY <1>1 DEF NoticeInv, NoticeShapes
    <2>4. \A t \in Staff : /\ desk'[t].op = "idle" => desk'[t] = Notices!NoJob
                           /\ desk'[t].op = "queue" => desk'[t].ch \in Channels
        BY <2>3 DEF NoticeInv, NoticeShapes
    <2>. QED
        BY <1>1, <2>2, <2>4 DEF NoticeInv, NoticeShapes, Notices!NoJob
<1>3. RowsHeld' /\ Delivery'
    BY <1>1 DEF NoticeInv, RowsHeld, Delivery, SentBy
<1>4. ASSUME ~ overlapped' PROVE Orderly'
    <2>1. ~ overlapped /\ \A t \in Staff : desk[t].op = "idle"
        <3>1. ~ (overlapped \/ \E t \in Staff : desk[t] # Notices!NoJob)
            BY <1>1, <1>4, Zenon
        <3>. QED
            BY <3>1 DEF Notices!NoJob
    <2>2. \A t \in Staff : desk'[t] = IF t = s THEN job ELSE desk[t]
        BY <1>1 DEF NoticeInv, NoticeShapes
    <2>3. FoundStill(job)
        BY DEF FoundStill, Beyond
    <2>4. \A t \in Staff : FoundStill(desk'[t])
        BY <2>1, <2>2, <2>3 DEF FoundStill
    <2>5. \A t \in Staff : FoundStill(desk[t])'
        BY <1>1, <2>4 DEF FoundStill
    <2>. QED
        BY <1>1, <2>1, <2>2, <2>5 DEF NoticeInv, Orderly
<1>. QED
    BY <1>2, <1>3, <1>4 DEF NoticeInv

\* A decision is committed; a queued channel had no row, so no run holds one.
LEMMA DecideKeeps ==
    ASSUME NoticeInv, NEW s \in Staff, Notices!Decide(s)
    PROVE  NoticeInv'
<1>. DEFINE job == desk[s]
<1>1. /\ job # Notices!NoJob
      /\ desk' = [desk EXCEPT ![s] = Notices!NoJob]
      /\ job.op = "queue" => outbox[job.ch] = Notices!NoRow
      /\ notice' = CASE job.op = "approve" ->
                            [notice EXCEPT !.status = "approved", !.approver = job.by]
                     [] job.op = "reject" -> [notice EXCEPT !.status = "rejected"]
                     [] job.seen = "queued" -> notice
                     [] OTHER -> [notice EXCEPT !.status = "queued"]
      /\ outbox' = IF job.op = "queue" THEN [outbox EXCEPT ![job.ch].status = "queued"]
                                       ELSE outbox
      /\ UNCHANGED <<delivered, batch, overlapped, deaths>>
    BY DEF Notices!Decide
<1>2. job \in Job /\ job.op # "idle" /\ (job.op = "queue" => job.ch \in Channels)
    BY <1>1 DEF NoticeInv, NoticeShapes
<1>3. \A t \in Staff : desk'[t] = IF t = s THEN Notices!NoJob ELSE desk[t]
    BY <1>1 DEF NoticeInv, NoticeShapes
<1>4. NoticeShapes'
    <2>1. Notices!NoJob \in Job
        BY DEF Notices!NoJob, Job, NoticeStatus
    <2>2. desk' \in [Staff -> Job]
        BY <1>1, <2>1 DEF NoticeInv, NoticeShapes
    <2>3. outbox' \in [Channels -> OutboxRow]
        BY <1>1, <1>2 DEF NoticeInv, NoticeShapes, OutboxRow
    <2>4. notice' \in [status : NoticeStatus, creator : People \cup {None},
                       approver : People \cup {None}]
        BY <1>1, <1>2 DEF NoticeInv, NoticeShapes, NoticeStatus, Job
    <2>. QED
        BY <1>1, <1>3, <2>2, <2>3, <2>4 DEF NoticeInv, NoticeShapes, Notices!NoJob
<1>5. \A c \in Channels : \/ outbox'[c] = outbox[c]
                          \/ /\ outbox[c].status = "none" /\ outbox'[c].status = "queued"
                             /\ job.op = "queue"
    BY <1>1, <1>2 DEF NoticeInv, NoticeShapes, OutboxRow, Notices!NoRow
<1>6. RowsHeld'
    BY <1>1, <1>5 DEF NoticeInv, NoticeShapes, RowsHeld, Run
<1>7. Delivery'
    BY <1>1, <1>5 DEF NoticeInv, Delivery, SentBy
<1>8. ASSUME ~ overlapped' PROVE Orderly'
    <2>1. Orderly
        BY <1>1, <1>8 DEF NoticeInv
    <2>2. \A t \in Staff : desk'[t].op = "idle"
        BY <1>2, <1>3, <2>1 DEF Orderly, Notices!NoJob
    <2>3. \A c \in Channels : outbox'[c] # Notices!NoRow => notice'.status \in Beyond
        <3>1. CASE job.op = "queue"
            <4>1. job.seen = "queued" => notice.status \in Beyond
                BY <2>1, <3>1 DEF Orderly, FoundStill
            <4>. QED
                BY <1>1, <3>1, <4>1 DEF NoticeInv, NoticeShapes, Beyond
        <3>2. CASE job.op # "queue"
            <4>1. notice.status \notin Beyond
                BY <1>2, <2>1, <3>2 DEF Orderly, FoundStill, Beyond, Job
            <4>. QED
                BY <1>1, <2>1, <3>2, <4>1 DEF Orderly
        <3>. QED
            BY <3>1, <3>2
    <2>4. \A t \in Staff : FoundStill(desk[t])'
        BY <2>2 DEF FoundStill
    <2>. QED
        BY <1>1, <2>1, <2>2, <2>3, <2>4 DEF Orderly
<1>. QED
    BY <1>4, <1>6, <1>7, <1>8 DEF NoticeInv

\* The index refuses a second row of a channel: the request is undone.
LEMMA NoticeRefusedKeeps ==
    ASSUME NoticeInv, NEW s \in Staff, Notices!Refused(s)
    PROVE  NoticeInv'
<1>1. /\ desk' = [desk EXCEPT ![s] = Notices!NoJob]
      /\ UNCHANGED <<notice, outbox, delivered, batch, overlapped, deaths>>
    BY DEF Notices!Refused
<1>2. \A t \in Staff : desk'[t] = IF t = s THEN Notices!NoJob ELSE desk[t]
    BY <1>1 DEF NoticeInv, NoticeShapes
<1>3. NoticeShapes'
    <2>1. Notices!NoJob \in Job
        BY DEF Notices!NoJob, Job, NoticeStatus
    <2>2. desk' \in [Staff -> Job]
        BY <1>1, <2>1 DEF NoticeInv, NoticeShapes
    <2>. QED
        BY <1>1, <1>2, <2>2 DEF NoticeInv, NoticeShapes, Notices!NoJob
<1>4. RowsHeld' /\ Delivery'
    BY <1>1 DEF NoticeInv, RowsHeld, Delivery, SentBy
<1>5. ASSUME ~ overlapped' PROVE Orderly'
    <2>1. Orderly
        BY <1>1, <1>5 DEF NoticeInv
    <2>2. \A t \in Staff : FoundStill(desk[t])'
        BY <1>1, <1>2, <2>1 DEF Orderly, FoundStill, Notices!NoJob
    <2>3. \A t, u \in Staff : t # u => desk'[t].op = "idle" \/ desk'[u].op = "idle"
        BY <1>2, <2>1 DEF Orderly, Notices!NoJob
    <2>. QED
        BY <1>1, <2>1, <2>2, <2>3 DEF Orderly
<1>. QED
    BY <1>3, <1>4, <1>5 DEF NoticeInv

\* A run locks the due rows no other holds, and skips the rest.
LEMMA TakeKeeps ==
    ASSUME NoticeInv, NEW d \in Deliverers, Notices!Take(d)
    PROVE  NoticeInv'
<1>. DEFINE due == Notices!Due \ Notices!Locked
            run == [Notices!NoRun EXCEPT !.rows = due, !.left = due, !.out = outbox]
<1>1. /\ batch[d].rows = {} /\ batch' = [batch EXCEPT ![d] = run]
      /\ UNCHANGED <<notice, outbox, delivered, desk, overlapped, deaths>>
    BY DEF Notices!Take
<1>2. \A e \in Deliverers : batch'[e] = IF e = d THEN run ELSE batch[e]
    BY <1>1 DEF NoticeInv, NoticeShapes
<1>3. /\ run.rows = due /\ run.left = due /\ run.out = outbox
      /\ run.read = "none" /\ run.status = "none" /\ run \in Run
    BY DEF NoticeInv, NoticeShapes, Notices!NoRun, Notices!Due, Run, NoticeStatus
<1>4. /\ \A c \in due : c \in Channels /\ outbox[c].status \in {"queued", "retry"}
      /\ \A e \in Deliverers : due \cap batch[e].rows = {}
    BY DEF Notices!Due, Notices!Locked
<1>5. NoticeShapes'
    <2>1. batch' \in [Deliverers -> Run]
        BY <1>1, <1>3 DEF NoticeInv, NoticeShapes
    <2>. QED
        BY <1>1, <2>1 DEF NoticeInv, NoticeShapes
<1>6. RowsHeld'
    <2>1. ASSUME NEW e \in Deliverers, NEW f \in Deliverers, e # f
          PROVE  batch'[e].rows \cap batch'[f].rows = {}
        <3>1. batch[e].rows \cap batch[f].rows = {}
            BY <2>1 DEF NoticeInv, RowsHeld
        <3>2. CASE e = d
            BY <1>2, <1>3, <1>4, <2>1, <3>2
        <3>3. CASE f = d
            BY <1>2, <1>3, <1>4, <2>1, <3>3
        <3>. QED
            BY <1>2, <2>1, <3>1, <3>2, <3>3
    <2>2. ASSUME NEW e \in Deliverers
          PROVE  /\ batch'[e].left \subseteq batch'[e].rows
                 /\ \A c \in batch'[e].rows : /\ outbox'[c].status \in {"queued", "retry"}
                                              /\ batch'[e].out[c].status # "none"
                 /\ \A c \in batch'[e].left : batch'[e].out[c].status # "sent"
        BY <1>1, <1>2, <1>3, <1>4 DEF NoticeInv, RowsHeld
    <2>. QED
        BY <2>1, <2>2 DEF RowsHeld
<1>7. Delivery'
    <2>1. \A e \in Deliverers, c \in Channels : SentBy(e, c) => SentBy(e, c)'
        BY <1>1, <1>2 DEF SentBy
    <2>. QED
        BY <1>1, <2>1 DEF NoticeInv, Delivery
<1>8. ASSUME ~ overlapped' PROVE Orderly'
    <2>1. \A s \in Staff : FoundStill(desk[s])' <=> FoundStill(desk[s])
        BY <1>1 DEF FoundStill
    <2>. QED
        BY <1>1, <1>2, <1>3, <1>8, <2>1 DEF NoticeInv, Orderly
<1>. QED
    BY <1>5, <1>6, <1>7, <1>8 DEF NoticeInv

\* A row whose notification was decided otherwise is passed over, unsent.
LEMMA SkipKeeps ==
    ASSUME NoticeInv, NEW d \in Deliverers, NEW c \in Channels, Notices!Skip(d, c)
    PROVE  NoticeInv'
<1>. DEFINE read == IF batch[d].read = "none" THEN notice.status ELSE batch[d].read
            run == [batch[d] EXCEPT !.left = @ \ {c}, !.status = Notices!Seen(d), !.read = read]
<1>1. /\ c \in batch[d].left /\ batch' = [batch EXCEPT ![d] = run]
      /\ UNCHANGED <<notice, outbox, delivered, desk, overlapped, deaths>>
    BY DEF Notices!Skip, NoticeInv, NoticeShapes, Run
<1>2. \A e \in Deliverers : batch'[e] = IF e = d THEN run ELSE batch[e]
    BY <1>1 DEF NoticeInv, NoticeShapes
<1>3. /\ run.rows = batch[d].rows /\ run.left = batch[d].left \ {c}
      /\ run.out = batch[d].out /\ run.read = read /\ run.status = Notices!Seen(d)
      /\ run \in Run
    BY DEF NoticeInv, NoticeShapes, Run, Notices!Seen
<1>4. NoticeShapes'
    <2>1. batch' \in [Deliverers -> Run]
        BY <1>1, <1>3 DEF NoticeInv, NoticeShapes
    <2>. QED
        BY <1>1, <2>1 DEF NoticeInv, NoticeShapes
<1>5. \A e \in Deliverers : /\ batch'[e].rows = batch[e].rows /\ batch'[e].out = batch[e].out
                            /\ batch'[e].left \subseteq batch[e].left
    BY <1>2, <1>3
<1>6. RowsHeld'
    BY <1>1, <1>5 DEF NoticeInv, RowsHeld
<1>7. Delivery'
    BY <1>1, <1>5 DEF NoticeInv, Delivery, SentBy
<1>8. ASSUME ~ overlapped' PROVE Orderly'
    <2>1. Orderly /\ c \in batch[d].rows /\ c \in Channels
        BY <1>1, <1>8 DEF NoticeInv, RowsHeld
    <2>2. notice.status \in Beyond
        BY <2>1 DEF Orderly, NoticeInv, RowsHeld, Notices!NoRow
    <2>3. /\ run.status \in Beyond \cup {"none"}
          /\ run.read = "none" <=> run.status = "none"
        BY <1>3, <2>1, <2>2 DEF Orderly, Notices!Seen, Beyond
    <2>4. \A s \in Staff : FoundStill(desk[s])'
        BY <1>1, <2>1 DEF Orderly, FoundStill
    <2>. QED
        BY <1>1, <1>2, <2>1, <2>3, <2>4 DEF Orderly
<1>. QED
    BY <1>4, <1>6, <1>7, <1>8 DEF NoticeInv

\* A row is handed to the provider: it is the run's own, and not sent before.
LEMMA SendKeeps ==
    ASSUME NoticeInv, NEW d \in Deliverers, NEW c \in Channels, Notices!Send(d, c)
    PROVE  NoticeInv'
<1>1. PICK ok \in BOOLEAN :
          /\ batch' = [batch EXCEPT ![d] = Notices!Attempt(d, c, ok)]
          /\ delivered' = IF ok THEN [delivered EXCEPT ![c] = @ + 1] ELSE delivered
    BY DEF Notices!Send
<1>. DEFINE run == Notices!Attempt(d, c, ok)
<1>2. /\ c \in batch[d].left /\ Notices!Seen(d) \in {"queued", "approved"}
      /\ UNCHANGED <<notice, outbox, desk, overlapped, deaths>>
    BY DEF Notices!Send
<1>3. PICK n, last : n = batch[d].out[c].attempts + 1 /\ last = (n >= RetryCount)
    OBVIOUS
<1>4. PICK row, now :
          /\ row = [status |-> IF ok THEN "sent" ELSE IF last THEN "failed" ELSE "retry",
                    attempts |-> n]
          /\ now = IF ok THEN "sent" ELSE IF last THEN "failed" ELSE Notices!Seen(d)
    OBVIOUS
<1>5. run = [batch[d] EXCEPT !.left = @ \ {c}, !.out[c] = row, !.status = now,
                             !.read = IF @ = "none" THEN notice.status ELSE @]
    BY <1>3, <1>4 DEF Notices!Attempt
<1>6. /\ batch[d] \in Run /\ row \in OutboxRow /\ row.status \in {"sent", "failed", "retry"}
      /\ ok <=> row.status = "sent"
      /\ now \in {"sent", "failed", Notices!Seen(d)} /\ now \in NoticeStatus
    <2>1. batch[d] \in Run /\ n \in Nat
        BY <1>3 DEF NoticeInv, NoticeShapes, Run, OutboxRow
    <2>. QED
        BY <1>2, <1>4, <2>1 DEF OutboxRow, NoticeStatus
<1>7. /\ run.rows = batch[d].rows /\ run.left = batch[d].left \ {c}
      /\ run.status = now
      /\ run.read = IF batch[d].read = "none" THEN notice.status ELSE batch[d].read
      /\ run.out = [batch[d].out EXCEPT ![c] = row]
      /\ run \in Run
    <2>1. /\ run.rows = batch[d].rows /\ run.left = batch[d].left \ {c}
          /\ run.status = now
          /\ run.read = IF batch[d].read = "none" THEN notice.status ELSE batch[d].read
          /\ run.out = [batch[d].out EXCEPT ![c] = row]
          /\ run = [rows |-> run.rows, left |-> run.left, read |-> run.read,
                    status |-> run.status, out |-> run.out]
        BY <1>5, <1>6 DEF Run
    <2>2. run.out \in [Channels -> OutboxRow] /\ run.read \in NoticeStatus
        BY <1>6, <2>1 DEF NoticeInv, NoticeShapes, Run
    <2>. QED
        BY <1>6, <2>1, <2>2 DEF Run
<1>8. \A e \in Deliverers : batch'[e] = IF e = d THEN run ELSE batch[e]
    BY <1>1 DEF NoticeInv, NoticeShapes
<1>9. \A b \in Channels : run.out[b] = IF b = c THEN row ELSE batch[d].out[b]
    BY <1>6, <1>7 DEF Run
<1>10. NoticeShapes'
    <2>1. batch' \in [Deliverers -> Run]
        BY <1>1, <1>7 DEF NoticeInv, NoticeShapes
    <2>2. delivered' \in [Channels -> Nat]
        BY <1>1 DEF NoticeInv, NoticeShapes
    <2>. QED
        BY <1>2, <2>1, <2>2 DEF NoticeInv, NoticeShapes
<1>11. RowsHeld'
    <2>1. \A e \in Deliverers : /\ batch'[e].rows = batch[e].rows
                                /\ batch'[e].left \subseteq batch[e].left
                                /\ batch'[e].rows \subseteq Channels
        BY <1>7, <1>8 DEF NoticeInv, NoticeShapes, Run
    <2>2. ASSUME NEW e \in Deliverers
          PROVE  /\ \A b \in batch'[e].rows : batch'[e].out[b].status # "none"
                 /\ \A b \in batch'[e].left : batch'[e].out[b].status # "sent"
        <3>1. CASE e = d
            <4>1. /\ \A b \in batch[d].rows : batch[d].out[b].status # "none"
                  /\ \A b \in batch[d].left : batch[d].out[b].status # "sent"
                BY DEF NoticeInv, RowsHeld
            <4>2. /\ batch'[e].rows = batch[d].rows /\ batch'[e].left = batch[d].left \ {c}
                  /\ \A b \in batch[d].rows :
                        batch'[e].out[b] = IF b = c THEN row ELSE batch[d].out[b]
                  /\ batch[d].left \subseteq batch[d].rows
                <5>1. batch'[e] = run /\ batch[d].rows \subseteq Channels
                    BY <1>8, <2>1, <3>1
                <5>2. run.rows = batch[d].rows /\ run.left = batch[d].left \ {c}
                    BY <1>7
                <5>3. \A b \in batch[d].rows : run.out[b] = IF b = c THEN row ELSE batch[d].out[b]
                    BY <1>9, <5>1
                <5>4. batch[d].left \subseteq batch[d].rows
                    BY DEF NoticeInv, RowsHeld
                <5>. QED
                    BY <5>1, <5>2, <5>3, <5>4
            <4>. QED
                BY <1>6, <4>1, <4>2
        <3>2. CASE e # d
            BY <1>8, <3>2 DEF NoticeInv, RowsHeld
        <3>. QED
            BY <3>1, <3>2
    <2>. QED
        BY <1>2, <2>1, <2>2 DEF NoticeInv, RowsHeld
<1>12. Delivery'
    <2>1. \A e \in Deliverers, b \in Channels : b # c => (SentBy(e, b) => SentBy(e, b)')
        BY <1>7, <1>8, <1>9 DEF SentBy
    <2>2. /\ c \in batch[d].rows /\ batch[d].out[c].status # "sent"
          /\ outbox[c].status \in {"queued", "retry"}
          /\ \A e \in Deliverers : e # d => c \notin batch[e].rows
        BY <1>2 DEF NoticeInv, RowsHeld
    <2>3. delivered[c] <= deaths
        <3>1. \A e \in Deliverers : ~ SentBy(e, c)
            BY <2>2 DEF SentBy
        <3>. QED
            BY <2>2, <3>1 DEF NoticeInv, NoticeShapes, Delivery
    <2>4. /\ delivered'[c] = IF ok THEN delivered[c] + 1 ELSE delivered[c]
          /\ \A b \in Channels : b # c => delivered'[b] = delivered[b]
        BY <1>1 DEF NoticeInv, NoticeShapes
    <2>5. ok => SentBy(d, c)'
        BY <1>6, <1>7, <1>8, <1>9, <2>2 DEF SentBy
    <2>6. /\ delivered'[c] <= 1 + deaths'
          /\ delivered'[c] > deaths' => \E e \in Deliverers : SentBy(e, c)'
          /\ outbox'[c].status # "none"
        BY <1>2, <2>2, <2>3, <2>4, <2>5 DEF NoticeInv, NoticeShapes
    <2>. QED
        BY <1>2, <2>1, <2>4, <2>6 DEF NoticeInv, Delivery
<1>13. ASSUME ~ overlapped' PROVE Orderly'
    <2>1. Orderly /\ c \in batch[d].rows
        BY <1>2, <1>13 DEF NoticeInv, RowsHeld
    <2>2. notice.status \in Beyond
        BY <2>1 DEF Orderly, NoticeInv, RowsHeld, Notices!NoRow
    <2>3. Notices!Seen(d) = "queued"
        BY <1>2, <2>1, <2>2 DEF Orderly, Notices!Seen, Beyond
    <2>4. /\ run.status \in Beyond \cup {"none"}
          /\ run.read = "none" <=> run.status = "none"
        BY <1>6, <1>7, <2>1, <2>2, <2>3 DEF Orderly, Beyond
    <2>5. \A s \in Staff : FoundStill(desk[s])'
        BY <1>2, <2>1 DEF Orderly, FoundStill
    <2>. QED
        BY <1>2, <1>8, <2>1, <2>4, <2>5 DEF Orderly
<1>. QED
    BY <1>10, <1>11, <1>12, <1>13 DEF NoticeInv

\* A run commits what it made of its rows, which are nobody else's.
LEMMA CommitKeeps ==
    ASSUME NoticeInv, NEW d \in Deliverers, Notices!Commit(d)
    PROVE  NoticeInv'
<1>1. PICK b : b = batch[d]
    OBVIOUS
<1>2. /\ b.rows # {} /\ b.left = {}
      /\ outbox' = [c \in Channels |-> IF c \in b.rows THEN b.out[c] ELSE outbox[c]]
      /\ notice' = IF b.status = b.read THEN notice ELSE [notice EXCEPT !.status = b.status]
      /\ batch' = [batch EXCEPT ![d] = Notices!NoRun]
      /\ UNCHANGED <<delivered, desk, overlapped, deaths>>
    BY <1>1 DEF Notices!Commit
<1>3. b \in Run /\ Notices!NoRun \in Run /\ Notices!NoRun.rows = {} /\ Notices!NoRun.left = {}
      /\ Notices!NoRun.status = "none" /\ Notices!NoRun.read = "none"
    BY <1>1 DEF NoticeInv, NoticeShapes, Notices!NoRun, Notices!NoRow, Run, OutboxRow,
                NoticeStatus
<1>4. \A e \in Deliverers : batch'[e] = IF e = d THEN Notices!NoRun ELSE batch[e]
    BY <1>2 DEF NoticeInv, NoticeShapes
<1>5. NoticeShapes'
    <2>1. batch' \in [Deliverers -> Run]
        BY <1>2, <1>3 DEF NoticeInv, NoticeShapes
    <2>2. outbox' \in [Channels -> OutboxRow]
        BY <1>2, <1>3 DEF NoticeInv, NoticeShapes, Run
    <2>3. notice' \in [status : NoticeStatus, creator : People \cup {None},
                       approver : People \cup {None}]
        BY <1>2, <1>3 DEF NoticeInv, NoticeShapes, Run
    <2>. QED
        BY <1>2, <2>1, <2>2, <2>3 DEF NoticeInv, NoticeShapes
<1>6. \A c \in Channels : outbox'[c] = IF c \in b.rows THEN b.out[c] ELSE outbox[c]
    BY <1>2
<1>7. /\ \A e \in Deliverers : e # d => batch[e].rows \cap b.rows = {}
      /\ \A c \in b.rows : b.out[c].status # "none" /\ outbox[c].status \in {"queued", "retry"}
    BY <1>1 DEF NoticeInv, RowsHeld
<1>8. RowsHeld'
    <2>1. \A e, f \in Deliverers : e # f => batch'[e].rows \cap batch'[f].rows = {}
        BY <1>3, <1>4 DEF NoticeInv, RowsHeld
    <2>2. ASSUME NEW e \in Deliverers
          PROVE  /\ batch'[e].left \subseteq batch'[e].rows
                 /\ \A c \in batch'[e].rows : /\ outbox'[c].status \in {"queued", "retry"}
                                              /\ batch'[e].out[c].status # "none"
                 /\ \A c \in batch'[e].left : batch'[e].out[c].status # "sent"
        <3>1. CASE e = d
            BY <1>3, <1>4, <3>1
        <3>2. CASE e # d
            <4>1. batch[e].rows \subseteq Channels
                BY DEF NoticeInv, NoticeShapes, Run
            <4>2. \A c \in batch[e].rows : outbox'[c] = outbox[c]
                BY <1>6, <1>7, <3>2, <4>1
            <4>. QED
                BY <1>4, <3>2, <4>2 DEF NoticeInv, RowsHeld
        <3>. QED
            BY <3>1, <3>2
    <2>. QED
        BY <2>1, <2>2 DEF RowsHeld
<1>9. Delivery'
    <2>1. ASSUME NEW c \in Channels, delivered[c] > deaths
          PROVE  outbox'[c].status = "sent" \/ \E e \in Deliverers : SentBy(e, c)'
        <3>1. CASE outbox[c].status = "sent"
            BY <1>6, <1>7, <3>1
        <3>2. ASSUME NEW e \in Deliverers, SentBy(e, c)
              PROVE  outbox'[c].status = "sent" \/ \E f \in Deliverers : SentBy(f, c)'
            <4>1. CASE e = d
                BY <1>1, <1>6, <3>2, <4>1 DEF SentBy
            <4>2. CASE e # d
                BY <1>4, <3>2, <4>2 DEF SentBy
            <4>. QED
                BY <4>1, <4>2
        <3>. QED
            BY <2>1, <3>1, <3>2 DEF NoticeInv, Delivery
    <2>2. \A c \in Channels : outbox[c].status # "none" => outbox'[c].status # "none"
        BY <1>6, <1>7
    <2>. QED
        BY <1>2, <2>1, <2>2 DEF NoticeInv, Delivery
<1>10. ASSUME ~ overlapped' PROVE Orderly'
    <2>1. Orderly
        BY <1>2, <1>10 DEF NoticeInv
    <2>2. PICK c \in Channels : c \in b.rows
        BY <1>2, <1>3 DEF Run
    <2>3. notice.status \in Beyond
        BY <1>7, <2>1, <2>2 DEF Orderly, Notices!NoRow
    <2>4. notice'.status \in Beyond
        <3>1. /\ b.status \in Beyond \cup {"none"}
              /\ b.read = "none" <=> b.status = "none"
            BY <1>1, <2>1 DEF Orderly
        <3>. QED
            BY <1>2, <2>3, <3>1 DEF NoticeInv, NoticeShapes
    <2>5. ASSUME NEW s \in Staff PROVE FoundStill(desk[s])'
        <3>1. FoundStill(desk[s])
            BY <2>1 DEF Orderly
        <3>2. desk[s].op \notin {"approve", "reject"}
            BY <2>3, <3>1 DEF FoundStill, Beyond
        <3>. QED
            BY <1>2, <2>4, <3>2 DEF FoundStill
    <2>6. \A e \in Deliverers : /\ batch'[e].status \in Beyond \cup {"none"}
                                /\ batch'[e].read = "none" <=> batch'[e].status = "none"
        BY <1>3, <1>4, <2>1 DEF Orderly
    <2>. QED
        BY <1>2, <2>1, <2>4, <2>5, <2>6 DEF Orderly
<1>. QED
    BY <1>5, <1>8, <1>9, <1>10 DEF NoticeInv

\* A crash forgets what a run has sent: one message more may follow.
LEMMA NoticeCrashKeeps ==
    ASSUME NoticeInv, NEW d \in Deliverers, Notices!Crash(d)
    PROVE  NoticeInv'
<1>1. /\ batch' = [batch EXCEPT ![d] = Notices!NoRun] /\ deaths' = deaths + 1
      /\ UNCHANGED <<notice, outbox, delivered, desk, overlapped>>
    BY DEF Notices!Crash
<1>2. Notices!NoRun \in Run /\ Notices!NoRun.rows = {} /\ Notices!NoRun.left = {}
      /\ Notices!NoRun.status = "none" /\ Notices!NoRun.read = "none"
    BY DEF Notices!NoRun, Notices!NoRow, Run, OutboxRow, NoticeStatus
<1>3. \A e \in Deliverers : batch'[e] = IF e = d THEN Notices!NoRun ELSE batch[e]
    BY <1>1 DEF NoticeInv, NoticeShapes
<1>4. NoticeShapes'
    <2>1. batch' \in [Deliverers -> Run]
        BY <1>1, <1>2 DEF NoticeInv, NoticeShapes
    <2>. QED
        BY <1>1, <2>1 DEF NoticeInv, NoticeShapes
<1>5. RowsHeld'
    BY <1>1, <1>2, <1>3 DEF NoticeInv, RowsHeld
<1>6. Delivery'
    <2>1. \A c \in Channels : delivered[c] \in Nat /\ delivered[c] <= deaths'
        BY <1>1 DEF NoticeInv, NoticeShapes, Delivery
    <2>. QED
        BY <1>1, <2>1 DEF NoticeInv, NoticeShapes, Delivery
<1>7. ASSUME ~ overlapped' PROVE Orderly'
    <2>1. Orderly
        BY <1>1, <1>7 DEF NoticeInv
    <2>2. \A s \in Staff : FoundStill(desk[s])'
        BY <1>1, <2>1 DEF Orderly, FoundStill
    <2>. QED
        BY <1>1, <1>2, <1>3, <2>1, <2>2 DEF Orderly
<1>. QED
    BY <1>4, <1>5, <1>6, <1>7 DEF NoticeInv

\* Every step keeps the invariant.
LEMMA NoticeStep ==
    ASSUME NoticeInv, [Notices!Next]_(Notices!vars)
    PROVE  NoticeInv'
<1>1. ASSUME NEW p \in People, Notices!Draft(p) PROVE NoticeInv'
    BY <1>1, DraftKeeps
<1>2. ASSUME NEW p \in People, NEW s \in Staff, Notices!ReadApprove(s, p) PROVE NoticeInv'
    BY <1>2, SitKeeps DEF Notices!ReadApprove
<1>3. ASSUME NEW s \in Staff, Notices!ReadReject(s) PROVE NoticeInv'
    BY <1>3, SitKeeps DEF Notices!ReadReject, Notices!Rejectable
<1>4. ASSUME NEW s \in Staff, NEW c \in Channels, Notices!ReadQueue(s, c) PROVE NoticeInv'
    BY <1>4, SitKeeps DEF Notices!ReadQueue
<1>5. ASSUME NEW s \in Staff, Notices!Decide(s) \/ Notices!Refused(s) PROVE NoticeInv'
    BY <1>5, DecideKeeps, NoticeRefusedKeeps
<1>6. ASSUME NEW d \in Deliverers,
             Notices!Take(d) \/ Notices!Commit(d) \/ Notices!Crash(d)
      PROVE  NoticeInv'
    BY <1>6, TakeKeeps, CommitKeeps, NoticeCrashKeeps
<1>7. ASSUME NEW d \in Deliverers, NEW c \in Channels,
             Notices!Skip(d, c) \/ Notices!Send(d, c)
      PROVE  NoticeInv'
    BY <1>7, SkipKeeps, SendKeeps
<1>8. CASE UNCHANGED Notices!vars
    <2>1. UNCHANGED <<notice, outbox, delivered, desk, batch, overlapped, deaths>>
        BY <1>8 DEF Notices!vars
    <2>2. NoticeShapes' /\ RowsHeld' /\ Delivery'
        BY <2>1 DEF NoticeInv, NoticeShapes, RowsHeld, Delivery, SentBy
    <2>3. ASSUME Orderly PROVE Orderly'
        BY <2>1, <2>3 DEF Orderly, FoundStill
    <2>. QED
        BY <2>1, <2>2, <2>3 DEF NoticeInv
<1>. QED
    BY <1>1, <1>2, <1>3, <1>4, <1>5, <1>6, <1>7, <1>8 DEF Notices!Next

\* Whatever runs of the outbox overlap, and with any number of requests and crashes, a
\* channel is told once, and once more for each crash; and unless requests overlapped,
\* nobody is told what was rejected.
THEOREM NoticesSentAsDecided == Notices!Spec => []SentAsDecided
<1>1. NoticeInv => SentAsDecided
    <2>1. NoticeInv => Notices!DeliveredOnce
        BY DEF NoticeInv, Delivery, Notices!DeliveredOnce
    <2>2. ASSUME NoticeInv, notice.status = "rejected", ~ overlapped, NEW c \in Channels
          PROVE  delivered[c] = 0 /\ outbox[c] = Notices!NoRow
        <3>1. outbox[c] = Notices!NoRow
            BY <2>2 DEF NoticeInv, Orderly, Beyond
        <3>. QED
            BY <2>2, <3>1 DEF NoticeInv, NoticeShapes, Delivery, Notices!NoRow
    <2>. QED
        BY <2>1, <2>2 DEF SentAsDecided, Notices!SentAsDecided, Notices!RejectedReachesNobody
<1>. QED
    BY <1>1, NoticeInit, NoticeStep, PTL DEF Notices!Spec

-----------------------------------------------------------------------------
(* Invitations and resets: the invariant *)

Invite == [to : Users, role : Members!Roles, status : {"pending", "revoked", "accepted"},
           used : Nat]
Reset == [user : Users, consumed : BOOLEAN, used : Nat]
Errand ==
    {Members!Idle}
    \cup [op : {"role", "assign", "create"}, target : Users, arg : Members!Roles, ids : {{}}]
    \cup [op : {"status"}, target : Users, arg : Members!Standing, ids : {{}}]
    \cup [op : {"active"}, target : Users, arg : {"active", "inactive"}, ids : {{}}]
    \cup [op : {"invite", "accept"}, target : Users, arg : Members!Roles, ids : SUBSET Nat]
    \cup [op : {"revoke", "request", "confirm"}, target : Users, arg : {"none"},
          ids : SUBSET Nat]

TokenShapes ==
    /\ operational \in BOOLEAN
    /\ account \in [Users -> {"none", "active", "inactive"}]
    /\ member \in [Users -> [role : Members!Roles, status : Members!Standing]]
    /\ invites \in Seq(Invite)
    /\ resets \in Seq(Reset)
    /\ work \in [Requesters -> Errand]

\* A token in the hands of a request is open, was never used, and is in no other's hands.
InHands ==
    /\ \A w \in Requesters : work[w].op = "accept" =>
          \E i \in DOMAIN invites : /\ work[w].ids = {i}
                                    /\ invites[i].status = "pending"
                                    /\ invites[i].used = 0
    /\ \A w \in Requesters : work[w].op = "confirm" =>
          \E i \in DOMAIN resets : work[w].ids = {i} /\ ~ resets[i].consumed
    /\ \A v, w \in Requesters :
          v # w /\ work[v].op = work[w].op /\ work[v].op \in {"accept", "confirm"}
              => work[v].ids \cap work[w].ids = {}

\* A reset that is not consumed has not been used.
Unspent == \A i \in DOMAIN resets : ~ resets[i].consumed => resets[i].used = 0

TokenInv == TokenShapes /\ InHands /\ Unspent

-----------------------------------------------------------------------------
(* Invitations and resets: each step keeps it *)

\* Rewriting the rows of a table one by one leaves a table of the same length.
LEMMA RewrittenRows ==
    ASSUME NEW S, NEW past \in Seq(S), NEW new \in [DOMAIN past -> S]
    PROVE  new \in Seq(S) /\ Len(new) = Len(past)
<1>1. DOMAIN past = 1..Len(past) /\ Len(past) \in Nat
    BY LenProperties
<1>2. new \in Seq(S)
    BY <1>1, SeqDef
<1>3. DOMAIN new = 1..Len(new) /\ Len(new) \in Nat
    BY <1>2, LenProperties
<1>. QED
    BY <1>1, <1>2, <1>3

\* A table that one row is added to.
LEMMA AddedRow ==
    ASSUME NEW S, NEW past \in Seq(S), NEW row \in S
    PROVE  /\ Append(past, row) \in Seq(S)
           /\ DOMAIN past \subseteq DOMAIN Append(past, row)
           /\ \A i \in DOMAIN past : Append(past, row)[i] = past[i]
           /\ \A i \in DOMAIN Append(past, row) \ DOMAIN past : Append(past, row)[i] = row
BY AppendProperties, LenProperties

\* The rows of the two tables.
LEMMA TokenRow ==
    ASSUME TokenInv
    PROVE  /\ \A i \in DOMAIN invites : i \in Nat /\ invites[i] \in Invite
           /\ \A i \in DOMAIN resets : i \in Nat /\ resets[i] \in Reset
<1>1. invites \in Seq(Invite) /\ resets \in Seq(Reset)
    BY DEF TokenInv, TokenShapes
<1>2. DOMAIN invites \subseteq Nat /\ DOMAIN resets \subseteq Nat
    BY <1>1, LenProperties
<1>. QED
    BY <1>1, <1>2

\* No request is under way and no token has been issued.
LEMMA TokenInit ==
    ASSUME Founder \in Users
    PROVE  Members!Init => TokenInv
<1>. SUFFICES ASSUME Members!Init PROVE TokenInv
    OBVIOUS
<1>1. /\ operational = TRUE /\ invites = << >> /\ resets = << >>
      /\ account = [u \in Users |-> IF u = Founder THEN "active" ELSE "none"]
      /\ member = [u \in Users |-> IF u = Founder THEN [role |-> "admin", status |-> "active"]
                                                  ELSE Members!Outside]
      /\ work = [w \in Requesters |-> Members!Idle]
    BY DEF Members!Init
<1>2. TokenShapes
    <2>1. member \in [Users -> [role : Members!Roles, status : Members!Standing]]
        BY <1>1 DEF Members!Outside, Members!Roles, Members!Standing
    <2>2. work \in [Requesters -> Errand]
        BY <1>1 DEF Errand
    <2>. QED
        BY <1>1, <2>1, <2>2 DEF TokenShapes
<1>3. InHands /\ Unspent
    BY <1>1 DEF InHands, Unspent, Members!Idle
<1>. QED
    BY <1>2, <1>3 DEF TokenInv

\* A request that begins: with a token in its hands only if that is open and nobody's.
LEMMA BeginKeeps ==
    ASSUME TokenInv, NEW w \in Requesters, NEW op, NEW whom, NEW arg, NEW ids,
           [op |-> op, target |-> whom, arg |-> arg, ids |-> ids] \in Errand,
           Members!Begin(w, op, whom, arg, ids),
           op = "accept" => \E i \in DOMAIN invites :
               /\ ids = {i} /\ invites[i].status = "pending"
                            /\ invites[i].used = 0
               /\ i \notin Members!Held("accept"),
           op = "confirm" => \E i \in DOMAIN resets :
               ids = {i} /\ ~ resets[i].consumed /\ i \notin Members!Held("confirm")
    PROVE  TokenInv'
<1>1. PICK job : job = [op |-> op, target |-> whom, arg |-> arg, ids |-> ids]
    OBVIOUS
<1>2. /\ work' = [work EXCEPT ![w] = job]
      /\ UNCHANGED <<operational, account, member, invites, resets>>
    BY <1>1 DEF Members!Begin
<1>3. /\ \A v \in Requesters : work'[v] = IF v = w THEN job ELSE work[v]
      /\ work' \in [Requesters -> Errand]
    BY <1>1, <1>2 DEF TokenInv, TokenShapes
<1>4. TokenShapes'
    BY <1>2, <1>3 DEF TokenInv, TokenShapes
<1>5. InHands'
    <2>1. ASSUME NEW v \in Requesters, work'[v].op = "accept"
          PROVE  \E i \in DOMAIN invites : /\ work'[v].ids = {i}
                                           /\ invites[i].status = "pending"
                                           /\ invites[i].used = 0
        <3>1. CASE v = w
            <4>1. op = "accept" /\ work'[v].ids = ids
                BY <1>1, <1>3, <2>1, <3>1
            <4>2. PICK i \in DOMAIN invites : /\ ids = {i}
                                              /\ invites[i].status = "pending"
                                              /\ invites[i].used = 0
                BY <4>1
            <4>. QED
                BY <4>1, <4>2
        <3>2. CASE v # w
            BY <1>3, <2>1, <3>2 DEF TokenInv, InHands
        <3>. QED
            BY <3>1, <3>2
    <2>2. ASSUME NEW v \in Requesters, work'[v].op = "confirm"
          PROVE  \E i \in DOMAIN resets : work'[v].ids = {i} /\ ~ resets[i].consumed
        <3>1. CASE v = w
            <4>1. op = "confirm" /\ work'[v].ids = ids
                BY <1>1, <1>3, <2>2, <3>1
            <4>2. PICK i \in DOMAIN resets : ids = {i} /\ ~ resets[i].consumed
                BY <4>1
            <4>. QED
                BY <4>1, <4>2
        <3>2. CASE v # w
            BY <1>3, <2>2, <3>2 DEF TokenInv, InHands
        <3>. QED
            BY <3>1, <3>2
    <2>3. ASSUME NEW v \in Requesters, v # w, work[v].op = op, op \in {"accept", "confirm"}
          PROVE  work[v].ids \cap ids = {}
        BY <2>3 DEF Members!Held
    <2>4. \A u, v \in Requesters :
              u # v /\ work'[u].op = work'[v].op /\ work'[u].op \in {"accept", "confirm"}
                  => work'[u].ids \cap work'[v].ids = {}
        BY <1>1, <1>3, <2>3 DEF TokenInv, InHands
    <2>. QED
        BY <1>2, <2>1, <2>2, <2>4 DEF InHands
<1>. QED
    BY <1>2, <1>4, <1>5 DEF TokenInv, Unspent

\* A request that ends, and leaves alone what is in the hands of others.
LEMMA EndKeeps ==
    ASSUME TokenInv, NEW w \in Requesters, Members!End(w),
           account' \in [Users -> {"none", "active", "inactive"}],
           member' \in [Users -> [role : Members!Roles, status : Members!Standing]],
           invites' \in Seq(Invite), resets' \in Seq(Reset), Unspent',
           \A v \in Requesters \ {w} : \A i \in DOMAIN invites :
               work[v].op = "accept" /\ work[v].ids = {i}
                   => i \in DOMAIN invites' /\ invites'[i] = invites[i],
           \A v \in Requesters \ {w} : \A i \in DOMAIN resets :
               work[v].op = "confirm" /\ work[v].ids = {i}
                   => i \in DOMAIN resets' /\ resets'[i] = resets[i]
    PROVE  TokenInv'
<1>1. /\ work' = [work EXCEPT ![w] = Members!Idle] /\ UNCHANGED operational
      /\ Members!Idle \in Errand /\ Members!Idle.op = "idle"
    BY DEF Members!End, Errand, Members!Idle
<1>2. /\ \A v \in Requesters : work'[v] = IF v = w THEN Members!Idle ELSE work[v]
      /\ work' \in [Requesters -> Errand]
    BY <1>1 DEF TokenInv, TokenShapes
<1>3. TokenShapes'
    BY <1>1, <1>2 DEF TokenInv, TokenShapes
<1>4. InHands'
    <2>1. ASSUME NEW v \in Requesters, work'[v].op = "accept"
          PROVE  \E i \in DOMAIN invites' :
                     /\ work'[v].ids = {i}
                     /\ invites'[i].status = "pending" /\ invites'[i].used = 0
        <3>1. v # w /\ work'[v] = work[v]
            BY <1>1, <1>2, <2>1
        <3>2. PICK i \in DOMAIN invites : /\ work[v].ids = {i}
                                          /\ invites[i].status = "pending"
                                          /\ invites[i].used = 0
            BY <2>1, <3>1 DEF TokenInv, InHands
        <3>3. i \in DOMAIN invites' /\ invites'[i] = invites[i]
            BY <2>1, <3>1, <3>2
        <3>. QED
            BY <3>1, <3>2, <3>3
    <2>2. ASSUME NEW v \in Requesters, work'[v].op = "confirm"
          PROVE  \E i \in DOMAIN resets' : work'[v].ids = {i} /\ ~ resets'[i].consumed
        <3>1. v # w /\ work'[v] = work[v]
            BY <1>1, <1>2, <2>2
        <3>2. PICK i \in DOMAIN resets : work[v].ids = {i} /\ ~ resets[i].consumed
            BY <2>2, <3>1 DEF TokenInv, InHands
        <3>3. i \in DOMAIN resets' /\ resets'[i] = resets[i]
            BY <2>2, <3>1, <3>2
        <3>. QED
            BY <3>1, <3>2, <3>3
    <2>3. \A u, v \in Requesters :
              u # v /\ work'[u].op = work'[v].op /\ work'[u].op \in {"accept", "confirm"}
                  => work'[u].ids \cap work'[v].ids = {}
        BY <1>1, <1>2 DEF TokenInv, InHands
    <2>. QED
        BY <2>1, <2>2, <2>3 DEF InHands
<1>. QED
    BY <1>3, <1>4 DEF TokenInv

\* Requests about members and accounts.
LEMMA MemberEnds ==
    ASSUME TokenInv, NEW w \in Requesters,
           Members!FinishCreate(w) \/ Members!FinishMember(w) \/ Members!Abandon(w)
    PROVE  TokenInv'
<1>1. UNCHANGED <<invites, resets>> /\ Members!End(w)
    BY DEF Members!FinishCreate, Members!FinishMember, Members!Abandon
<1>2. PICK q : q = work[w] /\ q \in Errand
    BY DEF TokenInv, TokenShapes
<1>3. /\ account' \in [Users -> {"none", "active", "inactive"}]
      /\ member' \in [Users -> [role : Members!Roles, status : Members!Standing]]
    <2>1. CASE Members!FinishCreate(w)
        <3>1. q.target \in Users /\ q.arg \in Members!Roles
            BY <1>2, <2>1 DEF Members!FinishCreate, Errand, Members!Idle
        <3>2. "active" \in Members!Standing
            BY DEF Members!Standing
        <3>. QED
            BY <1>2, <2>1, <3>1, <3>2 DEF Members!FinishCreate, TokenInv, TokenShapes
    <2>2. CASE Members!FinishMember(w)
        <3>1. PICK m : m = member /\ m \in [Users -> [role : Members!Roles,
                                                      status : Members!Standing]]
            BY DEF TokenInv, TokenShapes
        <3>2. q.op \in {"role", "status", "active", "assign"} /\ q.target \in Users
            BY <1>2, <2>2 DEF Members!FinishMember, Errand, Members!Idle
        <3>3. /\ q.op \in {"role", "assign"} => q.arg \in Members!Roles
              /\ q.op = "status" => q.arg \in Members!Standing
              /\ q.op = "active" => q.arg \in {"active", "inactive"}
              /\ "active" \in Members!Standing
            BY <1>2 DEF Errand, Members!Idle, Members!Standing
        <3>4. account' \in [Users -> {"none", "active", "inactive"}]
            BY <1>2, <2>2, <3>2, <3>3 DEF Members!FinishMember, TokenInv, TokenShapes
        <3>5. /\ q.op = "role" => member' = [m EXCEPT ![q.target].role = q.arg]
              /\ q.op = "status" => member' = [m EXCEPT ![q.target].status = q.arg]
              /\ q.op = "assign" => member' = [m EXCEPT ![q.target] =
                                                [role |-> q.arg, status |-> "active"]]
              /\ q.op = "active" => member' = m
            BY <1>2, <2>2, <3>1, <3>2 DEF Members!FinishMember
        <3>6. member' \in [Users -> [role : Members!Roles, status : Members!Standing]]
            BY <3>1, <3>2, <3>3, <3>5
        <3>. QED
            BY <3>4, <3>6
    <2>3. CASE Members!Abandon(w)
        BY <2>3 DEF Members!Abandon, TokenInv, TokenShapes
    <2>. QED
        BY <2>1, <2>2, <2>3
<1>4. Unspent'
    BY <1>1 DEF TokenInv, Unspent
<1>. QED
    BY <1>1, <1>3, <1>4, EndKeeps DEF TokenInv, TokenShapes
\* A token in another's hands is not among those nobody holds.
LEMMA OutOfReach ==
    ASSUME NEW v \in Requesters, NEW i, NEW ids, work[v].ids = {i},
           ids \intersect Members!Held(work[v].op) = {}
    PROVE  i \notin ids
BY DEF Members!Held

\* Invitations that are issued or revoked leave those being accepted alone.
LEMMA InviteEnds ==
    ASSUME TokenInv, NEW w \in Requesters, Members!FinishInvite(w) \/ Members!FinishRevoke(w)
    PROVE  TokenInv' /\ \A i \in DOMAIN invites : /\ i \in DOMAIN invites'
                                                  /\ invites'[i].used = invites[i].used
<1>1. PICK q : q = work[w] /\ q \in Errand
    BY DEF TokenInv, TokenShapes
<1>2. /\ Members!End(w) /\ UNCHANGED <<account, member, resets>>
      /\ q.op \in {"invite", "revoke"} /\ q.ids \intersect Members!Held("accept") = {}
    BY <1>1 DEF Members!FinishInvite, Members!FinishRevoke
<1>3. PICK past : past = invites /\ past \in Seq(Invite)
    BY DEF TokenInv, TokenShapes
<1>4. PICK new : /\ new = Members!Revoked(q.ids) /\ new \in Seq(Invite)
                 /\ DOMAIN new = DOMAIN past
                 /\ \A i \in DOMAIN past : /\ new[i].used = past[i].used
                                           /\ i \notin q.ids => new[i] = past[i]
    <2>1. PICK new : new = Members!Revoked(q.ids)
        OBVIOUS
    <2>2. /\ DOMAIN new = DOMAIN past
          /\ \A i \in DOMAIN past : new[i] = IF i \in q.ids
                                                THEN [past[i] EXCEPT !.status = "revoked"]
                                                ELSE past[i]
          /\ new = [i \in DOMAIN past |-> new[i]]
        BY <1>3, <2>1 DEF Members!Revoked
    <2>3. \A i \in DOMAIN past : past[i] \in Invite
        BY <1>3
    <2>4. \A i \in DOMAIN past : new[i] \in Invite /\ new[i].used = past[i].used
        BY <2>2, <2>3 DEF Invite
    <2>5. new \in [DOMAIN past -> Invite]
        BY <2>2, <2>4
    <2>6. new \in Seq(Invite)
        BY <1>3, <2>5, RewrittenRows
    <2>. QED
        BY <2>1, <2>2, <2>4, <2>6
<1>5. /\ invites' \in Seq(Invite) /\ DOMAIN past \subseteq DOMAIN invites'
      /\ \A i \in DOMAIN past : invites'[i] = new[i]
    <2>1. CASE Members!FinishInvite(w)
        <3>1. PICK row : /\ row = Members!Invitation(q.target, q.arg)
                         /\ invites' = Append(new, row) /\ q.op = "invite"
            BY <1>1, <1>4, <2>1 DEF Members!FinishInvite
        <3>2. q.target \in Users /\ q.arg \in Members!Roles
            BY <1>1, <3>1 DEF Errand, Members!Idle
        <3>3. row \in Invite
            BY <3>1, <3>2 DEF Invite, Members!Invitation
        <3>. QED
            BY <1>4, <3>1, <3>3, AddedRow
    <2>2. CASE Members!FinishRevoke(w)
        BY <1>1, <1>4, <2>2 DEF Members!FinishRevoke
    <2>. QED
        BY <2>1, <2>2
<1>6. ASSUME NEW v \in Requesters \ {w}, NEW i \in DOMAIN invites, work[v].op = "accept",
             work[v].ids = {i}
      PROVE  i \in DOMAIN invites' /\ invites'[i] = invites[i]
    <2>1. i \notin q.ids
        BY <1>2, <1>6, OutOfReach
    <2>. QED
        BY <1>3, <1>4, <1>5, <1>6, <2>1
<1>7. Unspent'
    BY <1>2 DEF TokenInv, Unspent
<1>8. TokenInv'
    BY <1>2, <1>5, <1>6, <1>7, EndKeeps DEF TokenInv, TokenShapes
<1>. QED
    BY <1>3, <1>4, <1>5, <1>8

\* An invitation is accepted: it is open as it is used, and this is its only use.
LEMMA AcceptEnds ==
    ASSUME TokenInv, NEW w \in Requesters, Members!FinishAccept(w)
    PROVE  /\ TokenInv'
           /\ \A i \in DOMAIN invites : invites'[i].used # invites[i].used
                  => invites[i].status = "pending" /\ invites'[i].used = 1
<1>1. PICK q : q = work[w] /\ q \in Errand
    BY DEF TokenInv, TokenShapes
<1>2. /\ Members!End(w) /\ UNCHANGED resets /\ q.op = "accept"
      /\ account' = [account EXCEPT ![q.target] = "active"]
      /\ member' = [member EXCEPT ![q.target] = [role |-> q.arg, status |-> "active"]]
    BY <1>1 DEF Members!FinishAccept
<1>3. PICK past : past = invites /\ past \in Seq(Invite)
    BY DEF TokenInv, TokenShapes
<1>4. PICK held \in DOMAIN past : /\ q.ids = {held}
                                  /\ past[held].status = "pending" /\ past[held].used = 0
    BY <1>1, <1>2, <1>3 DEF TokenInv, InHands
<1>5. PICK new : /\ new = invites' /\ DOMAIN new = DOMAIN past
                 /\ new = [i \in DOMAIN past |-> new[i]]
                 /\ \A i \in DOMAIN past : new[i] = IF i \in q.ids
                        THEN [past[i] EXCEPT !.status = "accepted", !.used = @ + 1] ELSE past[i]
    <2>1. PICK new : new = invites'
        OBVIOUS
    <2>2. new = [i \in DOMAIN past |-> IF i \in q.ids
              THEN [past[i] EXCEPT !.status = "accepted", !.used = @ + 1] ELSE past[i]]
        BY <1>1, <1>3, <2>1 DEF Members!FinishAccept
    <2>3. /\ DOMAIN new = DOMAIN past
          /\ \A i \in DOMAIN past : new[i] = IF i \in q.ids
                 THEN [past[i] EXCEPT !.status = "accepted", !.used = @ + 1] ELSE past[i]
        BY <2>2
    <2>4. new = [i \in DOMAIN past |-> new[i]]
        BY <2>2
    <2>. QED
        BY <2>1, <2>3, <2>4, Zenon
<1>6. \A i \in DOMAIN past : past[i] \in Invite
    BY <1>3
<1>7. new[held] \in Invite /\ new[held].used = 1
    <2>1. PICK row : row = past[held] /\ row \in Invite
        BY <1>4, <1>6
    <2>2. new[held] = [row EXCEPT !.status = "accepted", !.used = @ + 1] /\ row.used = 0
        BY <1>4, <1>5, <2>1
    <2>3. row = [to |-> row.to, role |-> row.role, status |-> row.status, used |-> row.used]
          /\ row.to \in Users /\ row.role \in Members!Roles
        BY <2>1 DEF Invite
    <2>4. new[held] = [to |-> row.to, role |-> row.role, status |-> "accepted", used |-> 1]
        <3>1. row.used + 1 = 1
            BY <2>2
        <3>2. new[held] = [row EXCEPT !.status = "accepted", !.used = 1]
            BY <2>2, <3>1, Zenon
        <3>. QED
            BY <2>1, <3>2 DEF Invite
    <2>. QED
        BY <2>3, <2>4 DEF Invite
<1>8. \A i \in DOMAIN past : i # held => new[i] = past[i]
    BY <1>4, <1>5
<1>9. new \in Seq(Invite)
    <2>1. new \in [DOMAIN past -> Invite]
        BY <1>5, <1>6, <1>7, <1>8
    <2>. QED
        BY <1>3, <2>1, RewrittenRows
<1>10. /\ account' \in [Users -> {"none", "active", "inactive"}]
       /\ member' \in [Users -> [role : Members!Roles, status : Members!Standing]]
    <2>1. q.target \in Users /\ q.arg \in Members!Roles /\ "active" \in Members!Standing
        BY <1>1, <1>2 DEF Errand, Members!Idle, Members!Standing
    <2>. QED
        BY <1>2, <2>1 DEF TokenInv, TokenShapes
<1>11. ASSUME NEW v \in Requesters \ {w}, NEW i \in DOMAIN invites, work[v].op = "accept",
              work[v].ids = {i}
       PROVE  i \in DOMAIN invites' /\ invites'[i] = invites[i]
    <2>1. work[v].ids \cap work[w].ids = {}
        BY <1>1, <1>2, <1>11 DEF TokenInv, InHands
    <2>2. i # held
        BY <1>1, <1>4, <1>11, <2>1
    <2>. QED
        BY <1>3, <1>5, <1>8, <2>2
<1>12. Unspent'
    BY <1>2 DEF TokenInv, Unspent
<1>13. TokenInv'
    BY <1>2, <1>5, <1>9, <1>10, <1>11, <1>12, EndKeeps DEF TokenInv, TokenShapes
<1>. QED
    BY <1>3, <1>4, <1>5, <1>7, <1>8, <1>13

\* A reset is requested: the user's earlier ones are consumed, not used.
LEMMA RequestEnds ==
    ASSUME TokenInv, NEW w \in Requesters, Members!FinishRequest(w)
    PROVE  TokenInv' /\ \A i \in DOMAIN resets : /\ i \in DOMAIN resets'
                                                 /\ resets'[i].used = resets[i].used
<1>1. PICK q : q = work[w] /\ q \in Errand
    BY DEF TokenInv, TokenShapes
<1>2. /\ Members!End(w) /\ UNCHANGED <<account, member, invites>>
      /\ q.op = "request" /\ q.ids \intersect Members!Held("confirm") = {}
    BY <1>1 DEF Members!FinishRequest
<1>3. PICK past : past = resets /\ past \in Seq(Reset)
    BY DEF TokenInv, TokenShapes
<1>4. PICK new : new = Members!Consumed(q.ids)
    OBVIOUS
<1>5. /\ DOMAIN new = DOMAIN past /\ new = [i \in DOMAIN past |-> new[i]]
      /\ \A i \in DOMAIN past : new[i] = IF i \in q.ids
             THEN [past[i] EXCEPT !.consumed = TRUE] ELSE past[i]
    BY <1>3, <1>4 DEF Members!Consumed
<1>6. \A i \in DOMAIN past : past[i] \in Reset
    BY <1>3
<1>7. \A i \in DOMAIN past :
          /\ new[i] \in Reset /\ new[i].used = past[i].used
          /\ ~ new[i].consumed => ~ past[i].consumed
    BY <1>5, <1>6 DEF Reset
<1>8. new \in Seq(Reset)
    <2>1. new \in [DOMAIN past -> Reset]
        BY <1>5, <1>7
    <2>. QED
        BY <1>3, <2>1, RewrittenRows
<1>9. PICK row : row = [user |-> q.target, consumed |-> FALSE, used |-> 0] /\ row \in Reset
    <2>1. PICK row : row = [user |-> q.target, consumed |-> FALSE, used |-> 0]
        OBVIOUS
    <2>2. q.target \in Users
        BY <1>1, <1>2 DEF Errand, Members!Idle
    <2>3. row \in Reset
        BY <2>1, <2>2 DEF Reset
    <2>. QED
        BY <2>1, <2>3, Zenon
<1>10. resets' = Append(new, row)
    BY <1>1, <1>4, <1>9 DEF Members!FinishRequest
<1>11. /\ resets' \in Seq(Reset) /\ DOMAIN past \subseteq DOMAIN resets'
       /\ \A i \in DOMAIN past : resets'[i] = new[i]
       /\ \A i \in DOMAIN resets' \ DOMAIN past : resets'[i] = row
    BY <1>5, <1>8, <1>9, <1>10, AddedRow
<1>12. ASSUME NEW v \in Requesters \ {w}, NEW i \in DOMAIN resets, work[v].op = "confirm",
              work[v].ids = {i}
       PROVE  i \in DOMAIN resets' /\ resets'[i] = resets[i]
    <2>1. i \notin q.ids
        BY <1>2, <1>12, OutOfReach
    <2>. QED
        BY <1>3, <1>5, <1>11, <1>12, <2>1
<1>13. Unspent'
    <2>1. ASSUME NEW i \in DOMAIN resets', ~ resets'[i].consumed
          PROVE  resets'[i].used = 0
        <3>1. CASE i \in DOMAIN past
            BY <1>3, <1>7, <1>11, <2>1, <3>1 DEF TokenInv, Unspent
        <3>2. CASE i \notin DOMAIN past
            BY <1>9, <1>11, <3>2
        <3>. QED
            BY <3>1, <3>2
    <2>. QED
        BY <2>1 DEF Unspent
<1>14. TokenInv'
    BY <1>2, <1>11, <1>12, <1>13, EndKeeps DEF TokenInv, TokenShapes
<1>. QED
    BY <1>3, <1>7, <1>11, <1>14

\* A reset is confirmed: it is open as it is used, and this is its only use.
LEMMA ConfirmEnds ==
    ASSUME TokenInv, NEW w \in Requesters, Members!FinishConfirm(w)
    PROVE  /\ TokenInv'
           /\ \A i \in DOMAIN resets : resets'[i].used # resets[i].used
                  => ~ resets[i].consumed /\ resets'[i].used = 1
<1>1. PICK q : q = work[w] /\ q \in Errand
    BY DEF TokenInv, TokenShapes
<1>2. /\ Members!End(w) /\ UNCHANGED <<account, member, invites>> /\ q.op = "confirm"
    BY <1>1 DEF Members!FinishConfirm
<1>3. PICK past : past = resets /\ past \in Seq(Reset)
    BY DEF TokenInv, TokenShapes
<1>4. PICK held \in DOMAIN past : q.ids = {held} /\ ~ past[held].consumed
    BY <1>1, <1>2, <1>3 DEF TokenInv, InHands
<1>5. past[held].used = 0
    BY <1>3, <1>4 DEF TokenInv, Unspent
<1>6. PICK new : /\ new = resets' /\ DOMAIN new = DOMAIN past
                 /\ new = [i \in DOMAIN past |-> new[i]]
                 /\ \A i \in DOMAIN past : new[i] = IF i \in q.ids
                        THEN [past[i] EXCEPT !.consumed = TRUE, !.used = @ + 1] ELSE past[i]
    <2>1. PICK new : new = resets'
        OBVIOUS
    <2>2. new = [i \in DOMAIN past |-> IF i \in q.ids
              THEN [past[i] EXCEPT !.consumed = TRUE, !.used = @ + 1] ELSE past[i]]
        BY <1>1, <1>3, <2>1 DEF Members!FinishConfirm
    <2>3. /\ DOMAIN new = DOMAIN past
          /\ \A i \in DOMAIN past : new[i] = IF i \in q.ids
                 THEN [past[i] EXCEPT !.consumed = TRUE, !.used = @ + 1] ELSE past[i]
        BY <2>2
    <2>4. new = [i \in DOMAIN past |-> new[i]]
        BY <2>2
    <2>. QED
        BY <2>1, <2>3, <2>4, Zenon
<1>7. \A i \in DOMAIN past : past[i] \in Reset
    BY <1>3
<1>8. new[held] \in Reset /\ new[held].used = 1 /\ new[held].consumed
    <2>1. PICK row : row = past[held] /\ row \in Reset
        BY <1>4, <1>7
    <2>2. new[held] = [row EXCEPT !.consumed = TRUE, !.used = @ + 1] /\ row.used = 0
        BY <1>4, <1>5, <1>6, <2>1
    <2>3. row = [user |-> row.user, consumed |-> row.consumed, used |-> row.used]
          /\ row.user \in Users
        BY <2>1 DEF Reset
    <2>4. new[held] = [user |-> row.user, consumed |-> TRUE, used |-> 1]
        <3>1. row.used + 1 = 1
            BY <2>2
        <3>2. new[held] = [row EXCEPT !.consumed = TRUE, !.used = 1]
            BY <2>2, <3>1, Zenon
        <3>. QED
            BY <2>1, <3>2 DEF Reset
    <2>. QED
        BY <2>3, <2>4 DEF Reset
<1>9. \A i \in DOMAIN past : i # held => new[i] = past[i]
    BY <1>4, <1>6
<1>10. new \in Seq(Reset)
    <2>1. new \in [DOMAIN past -> Reset]
        BY <1>6, <1>7, <1>8, <1>9
    <2>. QED
        BY <1>3, <2>1, RewrittenRows
<1>11. ASSUME NEW v \in Requesters \ {w}, NEW i \in DOMAIN resets, work[v].op = "confirm",
              work[v].ids = {i}
       PROVE  i \in DOMAIN resets' /\ resets'[i] = resets[i]
    <2>1. work[v].ids \cap work[w].ids = {}
        BY <1>1, <1>2, <1>11 DEF TokenInv, InHands
    <2>2. i # held
        BY <1>1, <1>4, <1>11, <2>1
    <2>. QED
        BY <1>3, <1>6, <1>9, <2>2
<1>12. Unspent'
    <2>1. ASSUME NEW i \in DOMAIN resets', ~ resets'[i].consumed
          PROVE  resets'[i].used = 0
        <3>1. i \in DOMAIN past /\ i # held
            BY <1>6, <1>8, <2>1
        <3>. QED
            BY <1>3, <1>6, <1>9, <2>1, <3>1 DEF TokenInv, Unspent
    <2>. QED
        BY <2>1 DEF Unspent
<1>13. TokenInv'
    BY <1>2, <1>6, <1>10, <1>11, <1>12, EndKeeps DEF TokenInv, TokenShapes
<1>. QED
    BY <1>3, <1>4, <1>6, <1>8, <1>9, <1>13

\* The requests that begin.
LEMMA Begins ==
    ASSUME TokenInv, NEW w \in Requesters,
           \/ Members!BeginRole(w) \/ Members!BeginStatus(w) \/ Members!BeginActive(w)
           \/ Members!BeginAssign(w) \/ Members!BeginCreate(w) \/ Members!BeginInvite(w)
           \/ Members!BeginRevoke(w) \/ Members!BeginAccept(w) \/ Members!BeginRequest(w)
           \/ Members!BeginConfirm(w)
    PROVE  TokenInv' /\ UNCHANGED <<invites, resets>>
<1>. DEFINE Asks(op, whom, arg, ids) ==
                /\ Members!Begin(w, op, whom, arg, ids)
                /\ [op |-> op, target |-> whom, arg |-> arg, ids |-> ids] \in Errand
                /\ op = "accept" => \E i \in DOMAIN invites :
                       /\ ids = {i} /\ invites[i].status = "pending"
                                    /\ invites[i].used = 0
                       /\ i \notin Members!Held("accept")
                /\ op = "confirm" => \E i \in DOMAIN resets :
                       ids = {i} /\ ~ resets[i].consumed /\ i \notin Members!Held("confirm")
<1>1. SUFFICES ASSUME NEW op, NEW whom, NEW arg, NEW ids, Asks(op, whom, arg, ids)
               PROVE  TokenInv' /\ UNCHANGED <<invites, resets>>
    <2>1. SUFFICES \E op, whom, arg, ids : Asks(op, whom, arg, ids)
        BY <2>1
    <2>2. CASE Members!BeginRole(w)
        <3>1. PICK u \in Users, r \in Members!Roles : Members!Begin(w, "role", u, r, {})
            BY <2>2 DEF Members!BeginRole
        <3>2. Asks("role", u, r, {})
            BY <3>1 DEF Errand
        <3>. QED
            BY <3>2
    <2>3. CASE Members!BeginStatus(w)
        <3>1. PICK u \in Users, s \in Members!Standing : Members!Begin(w, "status", u, s, {})
            BY <2>3 DEF Members!BeginStatus
        <3>2. Asks("status", u, s, {})
            BY <3>1 DEF Errand
        <3>. QED
            BY <3>2
    <2>4. CASE Members!BeginActive(w)
        <3>1. PICK u \in Users, s \in {"active", "inactive"} :
                  Members!Begin(w, "active", u, s, {})
            BY <2>4 DEF Members!BeginActive
        <3>2. Asks("active", u, s, {})
            BY <3>1 DEF Errand
        <3>. QED
            BY <3>2
    <2>5. CASE Members!BeginAssign(w)
        <3>1. PICK u \in Users, r \in Members!Roles : Members!Begin(w, "assign", u, r, {})
            BY <2>5 DEF Members!BeginAssign
        <3>2. Asks("assign", u, r, {})
            BY <3>1 DEF Errand
        <3>. QED
            BY <3>2
    <2>6. CASE Members!BeginCreate(w)
        <3>1. PICK u \in Users, r \in Members!Roles : Members!Begin(w, "create", u, r, {})
            BY <2>6 DEF Members!BeginCreate
        <3>2. Asks("create", u, r, {})
            BY <3>1 DEF Errand
        <3>. QED
            BY <3>2
    <2>7. CASE Members!BeginInvite(w)
        <3>1. PICK u \in Users, r \in Members!Roles :
                  Members!Begin(w, "invite", u, r, Members!PendingFor(u))
            BY <2>7 DEF Members!BeginInvite
        <3>2. Members!PendingFor(u) \in SUBSET Nat
            BY LenProperties DEF Members!PendingFor, TokenInv, TokenShapes
        <3>3. Asks("invite", u, r, Members!PendingFor(u))
            BY <3>1, <3>2 DEF Errand
        <3>. QED
            BY <3>3
    <2>8. CASE Members!BeginRevoke(w)
        <3>1. PICK i \in DOMAIN invites :
                  Members!Begin(w, "revoke", invites[i].to, "none", {i})
            BY <2>8 DEF Members!BeginRevoke
        <3>2. i \in Nat /\ invites[i].to \in Users
            BY <3>1, TokenRow DEF Invite
        <3>3. Asks("revoke", invites[i].to, "none", {i})
            BY <3>1, <3>2 DEF Errand
        <3>. QED
            BY <3>3
    <2>9. CASE Members!BeginAccept(w)
        <3>1. PICK i \in DOMAIN invites :
                  /\ Members!Usable(i) /\ i \notin Members!Held("accept")
                  /\ Members!Begin(w, "accept", invites[i].to, invites[i].role, {i})
            BY <2>9 DEF Members!BeginAccept
        <3>2. i \in Nat /\ invites[i].to \in Users /\ invites[i].role \in Members!Roles
            BY <3>1, TokenRow DEF Invite
        <3>3. [op |-> "accept", target |-> invites[i].to, arg |-> invites[i].role,
               ids |-> {i}] \in Errand
            BY <3>2 DEF Errand
        <3>4. Asks("accept", invites[i].to, invites[i].role, {i})
            BY <3>1, <3>3 DEF Members!Usable
        <3>. QED
            BY <3>4
    <2>10. CASE Members!BeginRequest(w)
        <3>1. PICK u \in Users : Members!Begin(w, "request", u, "none", Members!LiveResets(u))
            BY <2>10 DEF Members!BeginRequest
        <3>2. Members!LiveResets(u) \in SUBSET Nat
            BY LenProperties DEF Members!LiveResets, TokenInv, TokenShapes
        <3>3. Asks("request", u, "none", Members!LiveResets(u))
            BY <3>1, <3>2 DEF Errand
        <3>. QED
            BY <3>3
    <2>11. CASE Members!BeginConfirm(w)
        <3>1. PICK i \in DOMAIN resets :
                  /\ ~ resets[i].consumed /\ i \notin Members!Held("confirm")
                  /\ Members!Begin(w, "confirm", resets[i].user, "none", {i})
            BY <2>11 DEF Members!BeginConfirm
        <3>2. i \in Nat /\ resets[i].user \in Users
            BY <3>1, TokenRow DEF Reset
        <3>3. [op |-> "confirm", target |-> resets[i].user, arg |-> "none", ids |-> {i}] \in Errand
            BY <3>2 DEF Errand
        <3>4. Asks("confirm", resets[i].user, "none", {i})
            BY <3>1, <3>3
        <3>. QED
            BY <3>4
    <2>. QED
        BY <2>2, <2>3, <2>4, <2>5, <2>6, <2>7, <2>8, <2>9, <2>10, <2>11
<1>2. TokenInv'
    BY <1>1, BeginKeeps
<1>. QED
    BY <1>1, <1>2 DEF Members!Begin

\* Every step keeps the invariant and uses a token only as it may.
LEMMA TokenStep ==
    ASSUME TokenInv, [Members!Next]_Members!vars
    PROVE  /\ TokenInv'
           /\ \A i \in DOMAIN invites : invites'[i].used # invites[i].used
                  => invites[i].status = "pending" /\ invites'[i].used = 1
           /\ \A i \in DOMAIN resets : resets'[i].used # resets[i].used
                  => ~ resets[i].consumed /\ resets'[i].used = 1
<1>1. CASE \E w \in Requesters : Members!FinishInvite(w) \/ Members!FinishRevoke(w)
    <2>1. PICK w \in Requesters : Members!FinishInvite(w) \/ Members!FinishRevoke(w)
        BY <1>1
    <2>2. UNCHANGED resets
        BY <2>1 DEF Members!FinishInvite, Members!FinishRevoke
    <2>. QED
        BY <2>1, <2>2, InviteEnds
<1>2. CASE \E w \in Requesters : Members!FinishAccept(w)
    <2>1. PICK w \in Requesters : Members!FinishAccept(w)
        BY <1>2
    <2>2. UNCHANGED resets
        BY <2>1 DEF Members!FinishAccept
    <2>. QED
        BY <2>1, <2>2, AcceptEnds
<1>3. CASE \E w \in Requesters : Members!FinishRequest(w)
    <2>1. PICK w \in Requesters : Members!FinishRequest(w)
        BY <1>3
    <2>2. UNCHANGED invites
        BY <2>1 DEF Members!FinishRequest
    <2>. QED
        BY <2>1, <2>2, RequestEnds
<1>4. CASE \E w \in Requesters : Members!FinishConfirm(w)
    <2>1. PICK w \in Requesters : Members!FinishConfirm(w)
        BY <1>4
    <2>2. UNCHANGED invites
        BY <2>1 DEF Members!FinishConfirm
    <2>. QED
        BY <2>1, <2>2, ConfirmEnds
<1>5. CASE \E w \in Requesters :
               Members!FinishCreate(w) \/ Members!FinishMember(w) \/ Members!Abandon(w)
    <2>1. PICK w \in Requesters :
              Members!FinishCreate(w) \/ Members!FinishMember(w) \/ Members!Abandon(w)
        BY <1>5
    <2>2. UNCHANGED <<invites, resets>>
        BY <2>1 DEF Members!FinishCreate, Members!FinishMember, Members!Abandon
    <2>. QED
        BY <2>1, <2>2, MemberEnds
<1>6. CASE \E w \in Requesters :
               \/ Members!BeginRole(w) \/ Members!BeginStatus(w) \/ Members!BeginActive(w)
               \/ Members!BeginAssign(w) \/ Members!BeginCreate(w) \/ Members!BeginInvite(w)
               \/ Members!BeginRevoke(w) \/ Members!BeginAccept(w) \/ Members!BeginRequest(w)
               \/ Members!BeginConfirm(w)
    BY <1>6, Begins
<1>7. CASE Members!Suspend \/ (\E u \in Users : Members!SignUp(u) \/ Members!Recover(u))
           \/ UNCHANGED Members!vars
    <2>1. UNCHANGED <<invites, resets, work>>
        BY <1>7 DEF Members!Suspend, Members!SignUp, Members!Recover, Members!vars
    <2>2. InHands' /\ Unspent'
        BY <2>1 DEF TokenInv, InHands, Unspent
    <2>3. TokenShapes'
        <3>1. CASE Members!Suspend
            BY <2>1, <3>1 DEF Members!Suspend, TokenInv, TokenShapes
        <3>2. CASE \E u \in Users : Members!SignUp(u)
            BY <2>1, <3>2 DEF Members!SignUp, TokenInv, TokenShapes
        <3>3. CASE \E u \in Users : Members!Recover(u)
            <4>1. PICK u \in Users : Members!Recover(u)
                BY <3>3
            <4>2. /\ operational' = TRUE /\ account' = [account EXCEPT ![u] = "active"]
                  /\ member' = [member EXCEPT ![u] = [role |-> "admin", status |-> "active"]]
                BY <4>1 DEF Members!Recover
            <4>3. "admin" \in Members!Roles /\ "active" \in Members!Standing
                BY DEF Members!Roles, Members!Standing
            <4>. QED
                BY <2>1, <4>2, <4>3 DEF TokenInv, TokenShapes
        <3>4. CASE UNCHANGED Members!vars
            BY <3>4 DEF Members!vars, TokenInv, TokenShapes
        <3>. QED
            BY <1>7, <3>1, <3>2, <3>3, <3>4
    <2>. QED
        BY <2>1, <2>2, <2>3 DEF TokenInv
<1>. QED
    BY <1>1, <1>2, <1>3, <1>4, <1>5, <1>6, <1>7 DEF Members!Next

\* Whatever requests overlap, an invitation lets in, and a reset link sets a
\* password, at most once, and only while its row is still open
\* (organisation_access_service, password_reset_service): accepting and
\* confirming hold the row from their check to their commit.
THEOREM TokensWorkOnce ==
    ASSUME Founder \in Users
    PROVE  Members!Spec => OneTimeTokens
<1>1. Members!Init => TokenInv
    BY TokenInit
<1>2. TokenInv /\ [Members!Next]_Members!vars => TokenInv'
    BY TokenStep
<1>3. TokenInv /\ [Members!Next]_Members!vars
          => [/\ \A i \in DOMAIN invites : invites'[i].used # invites[i].used
                     => invites[i].status = "pending" /\ invites'[i].used = 1
              /\ \A i \in DOMAIN resets : resets'[i].used # resets[i].used
                     => ~ resets[i].consumed /\ resets'[i].used = 1]_Members!vars
    BY TokenStep
<1>. QED
    BY <1>1, <1>2, <1>3, PTL DEF Members!Spec, OneTimeTokens, Members!OneTimeTokens

-----------------------------------------------------------------------------
(* Verification of the company: the invariant *)

Company == [status : {"none"} \cup Verification!Status, overall : Verification!Overall,
            item : [Items -> Verification!Checked]]
Pursuit == {Verification!Idle}
           \cup [op : Verification!Ops, read : {o \in Company : o.status = "active"},
                 result : Verification!Results]

\* What is checked on the way in: a request has read an active company.
CompanyInv == org \in Company /\ checks \in [Workers -> Pursuit]

\* The request ends, and the company it holds has every item of the policy verified.
VerifiedInHand(w) ==
    LET q == checks[w] IN
    /\ Verification!Finish(w)
    /\ \A i \in Items : Verification!Effect(q.read, q.op, q.result).item[i] = "verified"

\* The overall status becomes verified by the operator, or by a request which holds a
\* company whose items are all verified, whatever the others committed since it read.
VerifiedOnSight ==
    [][org.overall # "verified" /\ org'.overall = "verified"
         => Verification!RulesInFavour \/ \E w \in Workers : VerifiedInHand(w)]_Verification!vars

-----------------------------------------------------------------------------
(* Verification of the company: each step *)

\* Nothing is registered and no request is under way.
LEMMA CompanyInit == Verification!Init => CompanyInv
<1>. SUFFICES ASSUME Verification!Init PROVE CompanyInv
    OBVIOUS
<1>1. org = Verification!NoOrg /\ checks = [w \in Workers |-> Verification!Idle]
    BY DEF Verification!Init
<1>2. Verification!NoOrg \in Company
    BY DEF Verification!NoOrg, Company, Verification!Overall, Verification!Checked
<1>. QED
    BY <1>1, <1>2 DEF CompanyInv, Pursuit

\* Computing the overall status again: it becomes verified only if the policy is met.
LEMMA Recomputed ==
    ASSUME NEW o \in Company, o.status = "active"
    PROVE  /\ Verification!Recompute(o) \in Company
           /\ Verification!Recompute(o).status = "active"
           /\ Verification!Recompute(o).overall = "verified"
                 => \A i \in Items : Verification!Recompute(o).item[i] = "verified"
<1>1. PICK overall : overall = Verification!ComputeOverall(o)
    OBVIOUS
<1>2. /\ overall \in Verification!Overall
      /\ overall = "verified" => Verification!PolicyMet(o)
    <2>1. o.overall \in Verification!Overall
        BY DEF Company
    <2>. QED
        BY <1>1, <2>1 DEF Verification!ComputeOverall, Verification!Overall
<1>3. PICK n : n = [o EXCEPT !.overall = overall]
    OBVIOUS
<1>4. /\ n \in Company /\ n.status = "active" /\ n.overall = overall /\ n.item = o.item
      /\ n = [n EXCEPT !.status = "active"]
    BY <1>2, <1>3 DEF Company
<1>5. Verification!Recompute(o) = n
    BY <1>1, <1>3, <1>4 DEF Verification!Recompute
<1>. QED
    BY <1>2, <1>4, <1>5 DEF Verification!PolicyMet

\* What a request makes of an active company it read: an active one, which has become
\* verified only if every item is.
LEMMA Effected ==
    ASSUME NEW o \in Company, o.status = "active", NEW op \in Verification!Ops,
           NEW result \in Verification!Results
    PROVE  /\ Verification!Effect(o, op, result) \in Company
           /\ Verification!Effect(o, op, result).status = "active"
           /\ Verification!Effect(o, op, result).overall = "verified" /\ o.overall # "verified"
                 => \A i \in Items : Verification!Effect(o, op, result).item[i] = "verified"
<1>. DEFINE Sound(new) == /\ new \in Company /\ new.status = "active"
                          /\ new.overall = "verified" /\ o.overall # "verified"
                                => \A i \in Items : new.item[i] = "verified"
<1>0. SUFFICES Sound(Verification!Effect(o, op, result))
    OBVIOUS
<1>1. ASSUME NEW p \in Company, p.status = "active" PROVE Sound(Verification!Recompute(p))
    BY <1>1, Recomputed
<1>2. ASSUME NEW p \in Company, p.status = "active", NEW i, NEW v \in Verification!Checked,
             NEW n, n = [p EXCEPT !.item[i] = v]
      PROVE  n \in Company /\ n.status = "active" /\ n.overall = p.overall
    BY <1>2 DEF Company
<1>3. ASSUME NEW p \in Company, p.status = "active", NEW v \in Verification!Overall,
             NEW n, n = [p EXCEPT !.overall = v]
      PROVE  n \in Company /\ n.status = "active" /\ n.overall = v
    BY <1>3 DEF Company
<1>4. /\ "pending" \in Verification!Checked /\ "pending" \in Verification!Overall
      /\ "manual" \in Verification!Checked /\ "manual" \in Verification!Overall
      /\ "verified" \in Verification!Checked
      /\ o.overall \in Verification!Overall
    BY DEF Verification!Checked, Verification!Overall, Company
<1>5. ASSUME NEW i
      PROVE  /\ Verification!Invalidate(o, i) \in Company
             /\ Verification!Invalidate(o, i).status = "active"
             /\ Verification!Invalidate(o, i).overall # "verified"
    <2>1. PICK p : p = [o EXCEPT !.item[i] = "pending"]
        OBVIOUS
    <2>2. PICK q : q = [p EXCEPT !.overall = IF @ = "verified" THEN "pending" ELSE @]
        OBVIOUS
    <2>3. p \in Company /\ p.status = "active" /\ p.overall = o.overall
        BY <1>2, <1>4, <2>1
    <2>4. q \in Company /\ q.status = "active" /\ q.overall # "verified"
        <3>1. PICK v \in Verification!Overall :
                  v = (IF p.overall = "verified" THEN "pending" ELSE p.overall)
            BY <1>4, <2>3
        <3>2. q = [p EXCEPT !.overall = v]
            BY <2>2, <3>1
        <3>. QED
            BY <1>3, <2>3, <3>1, <3>2
    <2>5. Verification!Invalidate(o, i) = q
        BY <2>1, <2>2 DEF Verification!Invalidate, Company
    <2>. QED
        BY <2>4, <2>5
<1>6. CASE op = "legal"
    <2>1. PICK v : v = IF o.overall = "verified" THEN Verification!Invalidate(o, "legal") ELSE o
        OBVIOUS
    <2>2. v \in Company /\ v.status = "active"
        BY <1>5, <2>1
    <2>3. CASE result = "matched"
        <3>1. PICK p : p = [v EXCEPT !.item["legal"] = "verified"]
            OBVIOUS
        <3>2. Verification!Effect(o, op, result) = Verification!Recompute(p)
            BY <1>6, <2>1, <2>3, <3>1 DEF Verification!Effect, Verification!Check
        <3>3. p \in Company /\ p.status = "active"
            BY <1>2, <1>4, <2>2, <3>1
        <3>. QED
            BY <1>1, <3>2, <3>3
    <2>4. CASE result = "unavailable"
        <3>1. PICK p : p = [v EXCEPT !.item["legal"] = "manual"]
            OBVIOUS
        <3>2. PICK r : r = [p EXCEPT !.overall = "manual"]
            OBVIOUS
        <3>3. Verification!Effect(o, op, result) = Verification!Recompute(r)
            BY <1>6, <2>1, <2>2, <2>4, <3>1, <3>2
               DEF Verification!Effect, Verification!Check, Company
        <3>4. p \in Company /\ p.status = "active"
            BY <1>2, <1>4, <2>2, <3>1
        <3>5. r \in Company /\ r.status = "active"
            BY <1>3, <1>4, <3>2, <3>4
        <3>. QED
            BY <1>1, <3>3, <3>5
    <2>5. CASE result = "mismatch"
        <3>1. PICK p : p = [v EXCEPT !.item["legal"] = "pending"]
            OBVIOUS
        <3>2. PICK r : r = [p EXCEPT !.overall = "manual"]
            OBVIOUS
        <3>3. Verification!Effect(o, op, result) = Verification!Recompute(r)
            BY <1>6, <2>1, <2>2, <2>5, <3>1, <3>2
               DEF Verification!Effect, Verification!Check, Company
        <3>4. p \in Company /\ p.status = "active"
            BY <1>2, <1>4, <2>2, <3>1
        <3>5. r \in Company /\ r.status = "active"
            BY <1>3, <1>4, <3>2, <3>4
        <3>. QED
            BY <1>1, <3>3, <3>5
    <2>. QED
        BY <2>3, <2>4, <2>5 DEF Verification!Results
<1>7. CASE op = "recheck"
    <2>1. PICK v \in Verification!Overall :
              v = (IF o.overall = "verified" THEN "pending" ELSE o.overall)
        BY <1>4
    <2>2. PICK p : p = [o EXCEPT !.overall = v]
        OBVIOUS
    <2>3. Verification!Effect(o, op, result) = Verification!Recompute(p)
        BY <1>7, <2>1, <2>2 DEF Verification!Effect, Verification!CheckPan
    <2>4. p \in Company /\ p.status = "active"
        BY <1>3, <2>2
    <2>. QED
        BY <1>1, <2>3, <2>4
<1>8. CASE op = "challenge"
    <2>1. Verification!Effect(o, op, result) = Verification!Invalidate(o, "domain")
        BY <1>8 DEF Verification!Effect, Verification!ChallengeDomain
    <2>. QED
        BY <1>5, <2>1
<1>9. CASE op \in {"domain", "email", "change"}
    <2>1. PICK i : i = IF op = "domain" THEN "domain" ELSE "email"
        OBVIOUS
    <2>2. PICK v \in Verification!Checked : v = IF op = "change" THEN "pending" ELSE "verified"
        BY <1>4
    <2>3. PICK p : p = [o EXCEPT !.item[i] = v]
        OBVIOUS
    <2>4. Verification!Effect(o, op, result) = Verification!Recompute(p)
        BY <1>9, <2>1, <2>2, <2>3
           DEF Verification!Effect, Verification!VerifyDomain, Verification!ConsumeToken,
               Verification!ChangeEmail
    <2>5. p \in Company /\ p.status = "active"
        BY <1>2, <2>3
    <2>. QED
        BY <1>1, <2>4, <2>5
<1>10. CASE op = "issue"
    <2>1. PICK p : p = [o EXCEPT !.item["email"] = "pending"]
        OBVIOUS
    <2>2. Verification!Effect(o, op, result) = p
        BY <1>10, <2>1 DEF Verification!Effect, Verification!IssueToken
    <2>3. p \in Company /\ p.status = "active" /\ p.overall = o.overall
        BY <1>2, <1>4, <2>1
    <2>. QED
        BY <2>2, <2>3
<1>11. CASE op = "review"
    <2>1. PICK p : p = [o EXCEPT !.overall = "manual"]
        OBVIOUS
    <2>2. Verification!Effect(o, op, result) = p
        BY <1>11, <2>1 DEF Verification!Effect, Verification!RequestReview
    <2>3. p \in Company /\ p.status = "active" /\ p.overall = "manual"
        BY <1>3, <1>4, <2>1
    <2>. QED
        BY <2>2, <2>3
<1>. QED
    BY <1>6, <1>7, <1>8, <1>9, <1>10, <1>11 DEF Verification!Ops

\* The commit of a request writes what it changed over what it finds.
LEMMA FinishRight ==
    ASSUME CompanyInv, NEW w \in Workers, Verification!Finish(w)
    PROVE  /\ CompanyInv'
           /\ org'.status = org.status
           /\ org.overall # "verified" /\ org'.overall = "verified" => VerifiedInHand(w)
<1>1. PICK q : q = checks[w] /\ q \in Pursuit
    BY DEF CompanyInv
<1>2. q # Verification!Idle /\ checks' = [checks EXCEPT ![w] = Verification!Idle]
    BY <1>1 DEF Verification!Finish
<1>3. /\ q.op \in Verification!Ops /\ q.result \in Verification!Results
      /\ q.read \in Company /\ q.read.status = "active"
    BY <1>1, <1>2 DEF Pursuit
<1>4. PICK new : /\ new = Verification!Effect(q.read, q.op, q.result)
                 /\ org' = Verification!Write(q.read, new)
    BY <1>1 DEF Verification!Finish
<1>5. /\ new \in Company /\ new.status = "active"
      /\ new.overall = "verified" /\ q.read.overall # "verified"
            => \A i \in Items : new.item[i] = "verified"
    BY <1>3, <1>4, Effected
<1>6. /\ org'.status = org.status
      /\ org'.overall = IF new.overall = q.read.overall THEN org.overall ELSE new.overall
      /\ org'.item = [i \in Items |-> IF new.item[i] = q.read.item[i] THEN org.item[i]
                                                                     ELSE new.item[i]]
    BY <1>3, <1>4, <1>5 DEF Verification!Write
<1>7. org' \in Company
    <2>1. org'.item \in [Items -> Verification!Checked]
        BY <1>3, <1>5, <1>6 DEF CompanyInv, Company
    <2>2. org'.overall \in Verification!Overall /\ org'.status \in {"none"} \cup Verification!Status
        BY <1>3, <1>5, <1>6 DEF CompanyInv, Company
    <2>3. org' = [status |-> org'.status, overall |-> org'.overall, item |-> org'.item]
        BY <1>4 DEF Verification!Write
    <2>. QED
        BY <2>1, <2>2, <2>3 DEF Company
<1>8. CompanyInv'
    BY <1>2, <1>7 DEF CompanyInv, Pursuit
<1>9. ASSUME org.overall # "verified", org'.overall = "verified"
      PROVE  VerifiedInHand(w)
    <2>1. new.overall = "verified" /\ q.read.overall # "verified"
        BY <1>6, <1>9
    <2>2. \A i \in Items : new.item[i] = "verified"
        BY <1>5, <2>1
    <2>. QED
        BY <1>1, <1>4, <2>2 DEF VerifiedInHand
<1>. QED
    BY <1>6, <1>8, <1>9

\* Every other step.
LEMMA OthersRight ==
    ASSUME CompanyInv, [Verification!Next]_Verification!vars,
           ~ \E w \in Workers : Verification!Finish(w)
    PROVE  /\ CompanyInv'
           /\ org.status = "suspended" /\ org'.status = "active" => Verification!RulesInFavour
           /\ org.overall # "verified" /\ org'.overall = "verified" => Verification!RulesInFavour
<1>1. ASSUME checks' = checks, org' \in Company PROVE CompanyInv'
    BY <1>1 DEF CompanyInv
<1>2. /\ \A v \in Verification!Overall : [org EXCEPT !.overall = v] \in Company
      /\ \A s \in Verification!Status, v \in Verification!Overall :
            [org EXCEPT !.status = s, !.overall = v] \in Company
    BY DEF CompanyInv, Company
<1>3. CASE Verification!Register
    <2>1. /\ org = Verification!NoOrg /\ checks' = checks
          /\ org' = [Verification!NoOrg EXCEPT !.status = "active"]
        BY <1>3 DEF Verification!Register
    <2>2. org' \in Company
        BY <2>1 DEF CompanyInv, Company, Verification!NoOrg, Verification!Status
    <2>3. org.status = "none" /\ org'.overall = org.overall
        BY <2>1 DEF Verification!NoOrg
    <2>. QED
        BY <1>1, <2>1, <2>2, <2>3
<1>4. CASE \E w \in Workers : Verification!Read(w)
    <2>1. PICK w \in Workers, op \in Verification!Ops, result \in Verification!Results :
              /\ org.status = "active" /\ org' = org
              /\ checks' = [checks EXCEPT ![w] = [op |-> op, read |-> org, result |-> result]]
        BY <1>4 DEF Verification!Read
    <2>2. [op |-> op, read |-> org, result |-> result] \in Pursuit
        BY <2>1 DEF CompanyInv, Pursuit
    <2>3. CompanyInv'
        BY <2>1, <2>2 DEF CompanyInv
    <2>. QED
        BY <2>1, <2>3
<1>5. CASE \E w \in Workers : Verification!Abandon(w)
    <2>1. PICK w \in Workers : org' = org /\ checks' = [checks EXCEPT ![w] = Verification!Idle]
        BY <1>5 DEF Verification!Abandon
    <2>2. Verification!Idle \in Pursuit
        BY DEF Pursuit
    <2>3. CompanyInv'
        BY <2>1, <2>2 DEF CompanyInv
    <2>. QED
        BY <2>1, <2>3
<1>6. CASE Verification!Approve
    <2>1. /\ checks' = checks
          /\ org' = [status |-> "active", overall |-> "verified",
                     item |-> [i \in Items |-> "verified"]]
        BY <1>6 DEF Verification!Approve, Verification!Rule
    <2>2. org' \in Company
        BY <2>1 DEF Company, Verification!Status, Verification!Overall, Verification!Checked
    <2>. QED
        BY <1>1, <1>6, <2>1, <2>2 DEF Verification!RulesInFavour
<1>7. CASE Verification!Reject \/ Verification!MoreInfo
    <2>1. PICK v \in {"rejected", "manual"} : checks' = checks /\ org' = [org EXCEPT !.overall = v]
        BY <1>7 DEF Verification!Reject, Verification!MoreInfo, Verification!Rule
    <2>2. v \in Verification!Overall
        BY DEF Verification!Overall
    <2>3. org'.status = org.status /\ org'.overall = v
        BY <2>1 DEF CompanyInv, Company
    <2>. QED
        BY <1>1, <1>2, <2>1, <2>2, <2>3
<1>8. CASE Verification!Suspend
    <2>1. /\ checks' = checks
          /\ org' = [org EXCEPT !.status = "suspended", !.overall = "suspended"]
        BY <1>8 DEF Verification!Suspend, Verification!Rule
    <2>2. org'.status = "suspended" /\ org'.overall = "suspended"
        BY <2>1 DEF CompanyInv, Company
    <2>3. org' \in Company
        BY <1>2, <2>1 DEF Verification!Status, Verification!Overall
    <2>. QED
        BY <1>1, <2>1, <2>2, <2>3
<1>9. CASE \E u \in Users : Verification!Recover(u)
    <2>1. PICK v \in Verification!Overall :
              checks' = checks /\ org' = [org EXCEPT !.status = "active", !.overall = v]
        <3>1. org.overall \in Verification!Overall /\ "verified" \in Verification!Overall
            BY DEF CompanyInv, Company, Verification!Overall
        <3>. QED
            BY <1>9, <3>1 DEF Verification!Recover, Verification!Rule
    <2>2. org' \in Company
        BY <1>2, <2>1 DEF Verification!Status
    <2>. QED
        BY <1>1, <1>9, <2>1, <2>2 DEF Verification!RulesInFavour
<1>10. CASE UNCHANGED Verification!vars
    <2>1. org' = org /\ checks' = checks
        BY <1>10 DEF Verification!vars
    <2>. QED
        BY <2>1 DEF CompanyInv
<1>. QED
    BY <1>3, <1>4, <1>5, <1>6, <1>7, <1>8, <1>9, <1>10 DEF Verification!Next

\* However many administrator requests are under way, none lifts a suspension committed
\* while it worked, and none makes the company verified unless it holds every item of the
\* policy as verified (organisation_verification_policy_service).
THEOREM CompanyVerifiedOnSight ==
    Verification!Spec => Verification!SuspensionHolds /\ VerifiedOnSight
<1>1. CompanyInv /\ [Verification!Next]_Verification!vars => CompanyInv'
    BY FinishRight, OthersRight
<1>2. CompanyInv /\ [Verification!Next]_Verification!vars
          => [org.status = "suspended" /\ org'.status = "active"
                  => Verification!RulesInFavour]_Verification!vars
    BY FinishRight, OthersRight
<1>3. CompanyInv /\ [Verification!Next]_Verification!vars
          => [org.overall # "verified" /\ org'.overall = "verified"
                  => \/ Verification!RulesInFavour
                     \/ \E w \in Workers : VerifiedInHand(w)]_Verification!vars
    BY FinishRight, OthersRight
<1>. QED
    BY CompanyInit, <1>1, <1>2, <1>3, PTL
       DEF Verification!Spec, Verification!SuspensionHolds, VerifiedOnSight

-----------------------------------------------------------------------------
(* Intake of events: the invariant *)

Thread == [pc : {"idle", "clear", "post", "await", "failed", "append"},
           call : {"none", "emit", "flush"}, todo : Seq(Events)]
Request == {Intake!Free}
           \cup [pc : {"arrived", "begun", "grouped"}, e : Events, t : Threads \cup {None},
                 at : Nat, alert : Nat]
AlertRow == [group : Groups, count : Nat, last : Nat, fresh : BOOLEAN,
             status : {"new", "dismissed"}]

IntakeShapes ==
    /\ host \in [Threads -> Thread]
    /\ \A t \in Threads : host[t].pc = "idle" <=> host[t].todo = << >>
    /\ queue \in Seq(Events) /\ Len(queue) <= QueueMax
    /\ clock \in Nat
    /\ slot \in [Slots -> Request]
    /\ alerts \in Seq(AlertRow)

\* A thread that waits does so on one request, which carries the event in its hand.
Waited ==
    /\ \A s \in Slots : slot[s].t \in Threads =>
          host[slot[s].t].pc = "await" /\ slot[s].e = Head(host[slot[s].t].todo)
    /\ \A s, r \in Slots : s # r /\ slot[s].t \in Threads => slot[s].t # slot[r].t

\* One request groups at a time.  One about to create an alert finds no other open in the
\* window, unless one was dismissed; one about to repeat an alert finds it in the window.
Excused(g) == \A i \in Intake!InGroup(g) :
                  alerts[i].fresh => \E k \in Intake!InGroup(g) : alerts[k].status = "dismissed"
Claimed ==
    /\ \A s, r \in Slots : slot[s].pc = "grouped" /\ slot[r].pc = "grouped" => s = r
    /\ \A s \in Slots : slot[s].pc = "grouped" =>
          IF slot[s].alert = 0 THEN Excused(GroupOf[slot[s].e])
          ELSE slot[s].alert \in DOMAIN alerts /\ alerts[slot[s].alert].fresh

IntakeInv == IntakeShapes /\ Waited /\ Claimed /\ Intake!OneOpenAlert

IntakeConstants == /\ GroupOf \in [Events -> Groups] /\ QueueMax \in Nat \ {0}
                   /\ None \notin Threads

-----------------------------------------------------------------------------
(* Intake of events: queues *)

\* The first of a queue and the rest.
LEMMA FirstAndRest ==
    ASSUME NEW S, NEW seq \in Seq(S), seq # << >>
    PROVE  /\ Head(seq) \in S /\ Tail(seq) \in Seq(S) /\ Len(Tail(seq)) = Len(seq) - 1
           /\ Len(seq) \in Nat \ {0} /\ (Len(seq) # 1 => Tail(seq) # << >>)
<1>1. /\ Head(seq) \in S /\ Tail(seq) \in Seq(S) /\ Len(Tail(seq)) = Len(seq) - 1
      /\ Len(seq) \in Nat \ {0}
    BY HeadTailProperties, LenProperties, EmptySeq
<1>2. Len(seq) # 1 => Tail(seq) # << >>
    <2>1. ASSUME Len(seq) # 1 PROVE Len(Tail(seq)) # 0
        BY <1>1, <2>1
    <2>. QED
        BY <2>1, EmptySeq
<1>. QED
    BY <1>1, <1>2

\* A thread goes on to what is left of its work.
LEMMA GoesOn ==
    ASSUME NEW h \in Thread, h.todo # << >>
    PROVE  /\ Intake!Onward(h) \in Thread /\ Intake!Onward(h).pc \in {"idle", "post"}
           /\ Intake!Onward(h).pc = "idle" <=> Intake!Onward(h).todo = << >>
           /\ Head(h.todo) \in Events
<1>1. PICK seq : seq = h.todo /\ seq \in Seq(Events)
    BY DEF Thread
<1>2. /\ Head(seq) \in Events /\ Tail(seq) \in Seq(Events) /\ (Len(seq) # 1 => Tail(seq) # << >>)
      /\ Len(Tail(seq)) = Len(seq) - 1 /\ Len(seq) \in Nat
    BY <1>1, FirstAndRest
<1>3. CASE Len(seq) = 1
    <2>1. Intake!Onward(h) = [pc |-> "idle", call |-> "none", todo |-> << >>]
        BY <1>1, <1>3 DEF Intake!Onward, Intake!Calm
    <2>2. Intake!Onward(h) \in Thread
        BY <2>1, EmptySeq DEF Thread
    <2>3. Intake!Onward(h).pc = "idle" /\ Intake!Onward(h).todo = << >>
        BY <2>1
    <2>. QED
        BY <1>1, <1>2, <2>2, <2>3
<1>4. CASE Len(seq) # 1
    <2>1. Intake!Onward(h) = [h EXCEPT !.pc = "post", !.todo = Tail(seq)]
        BY <1>1, <1>4 DEF Intake!Onward
    <2>. QED
        BY <1>1, <1>2, <1>4, <2>1 DEF Thread
<1>. QED
    BY <1>3, <1>4

-----------------------------------------------------------------------------
(* Intake of events: the host's steps *)

\* A thread that is not waiting moves: the requests under way are none of its.
LEMMA HostMoves ==
    ASSUME IntakeInv, NEW t \in Threads, host[t].pc # "await", NEW h,
           host' = [host EXCEPT ![t] = h], slot' = slot
    PROVE  Waited'
<1>1. \A s \in Slots : slot[s].t # t
    BY DEF IntakeInv, Waited
<1>2. \A u \in Threads : u # t => host'[u] = host[u]
    BY DEF IntakeInv, IntakeShapes
<1>. QED
    BY <1>1, <1>2 DEF IntakeInv, Waited

\* What the receiver holds is as before.
LEMMA ServerRests ==
    ASSUME IntakeInv, UNCHANGED <<slot, alerts>>
    PROVE  Claimed' /\ Intake!OneOpenAlert'
<1>1. \A g : Excused(g)' <=> Excused(g)
    BY DEF Excused, Intake!InGroup
<1>. QED
    BY <1>1 DEF IntakeInv, Claimed, Intake!OneOpenAlert, Intake!InGroup

\* An event is emitted: it is in the thread's hand, or dropped.
LEMMA Emits ==
    ASSUME IntakeInv, NEW t \in Threads, Intake!Emit(t)
    PROVE  IntakeInv'
<1>1. PICK e \in Events :
          /\ host[t].pc = "idle"
          /\ UNCHANGED <<queue, slot, rows, alerts, clock>>
          /\ \/ host' = host
             \/ host' = [host EXCEPT ![t] = [pc |-> "post", call |-> "emit", todo |-> <<e>>]]
    BY DEF Intake!Emit, Intake!server
<1>2. PICK h \in Thread : /\ h.pc = "post" /\ h.todo # << >>
                          /\ host' = host \/ host' = [host EXCEPT ![t] = h]
    <2>1. <<e>> \in Seq(Events) /\ <<e>> # << >>
        OBVIOUS
    <2>2. PICK h : h = [pc |-> "post", call |-> "emit", todo |-> <<e>>]
        OBVIOUS
    <2>3. h \in Thread /\ h.pc = "post" /\ h.todo # << >>
        BY <2>1, <2>2 DEF Thread
    <2>. QED
        BY <1>1, <2>2, <2>3
<1>3. IntakeShapes'
    <2>1. /\ host' \in [Threads -> Thread]
          /\ \A u \in Threads : host'[u].pc = "idle" <=> host'[u].todo = << >>
        BY <1>1, <1>2 DEF IntakeInv, IntakeShapes
    <2>. QED
        BY <1>1, <2>1 DEF IntakeInv, IntakeShapes
<1>4. Waited'
    <2>1. CASE host' = host
        BY <1>1, <2>1 DEF IntakeInv, Waited
    <2>2. CASE host' = [host EXCEPT ![t] = h]
        BY <1>1, <2>2, HostMoves
    <2>. QED
        BY <1>2, <2>1, <2>2
<1>5. Claimed' /\ Intake!OneOpenAlert'
    BY <1>1, ServerRests
<1>. QED
    BY <1>3, <1>4, <1>5 DEF IntakeInv

\* flush copies the queue, and then clears it.
LEMMA Flushes ==
    ASSUME IntakeInv, IntakeConstants, NEW t \in Threads, Intake!Flush(t) \/ Intake!Clear(t)
    PROVE  IntakeInv'
<1>1. UNCHANGED <<slot, rows, alerts, clock>>
    BY DEF Intake!Flush, Intake!Clear, Intake!server
<1>2. PICK h : /\ host' = [host EXCEPT ![t] = h]
               /\ \/ /\ host[t].pc = "idle" /\ queue # << >> /\ queue' = queue
                     /\ h = [pc |-> "clear", call |-> "flush", todo |-> queue]
                  \/ /\ host[t].pc = "clear" /\ queue' = << >>
                     /\ h = [host[t] EXCEPT !.pc = "post"]
    <2>1. CASE Intake!Flush(t)
        BY <2>1 DEF Intake!Flush
    <2>2. CASE Intake!Clear(t)
        BY <2>2 DEF Intake!Clear
    <2>. QED
        BY <2>1, <2>2
<1>3. host[t] \in Thread /\ host[t].pc \in {"idle", "clear"} /\ host[t].todo \in Seq(Events) /\ queue \in Seq(Events)
      /\ (host[t].pc = "clear" => host[t].todo # << >>)
    BY <1>2 DEF IntakeInv, IntakeShapes, Thread
<1>4. h \in Thread /\ h.pc # "idle" /\ h.todo # << >>
    BY <1>2, <1>3 DEF Thread
<1>5. IntakeShapes'
    <2>1. queue' \in Seq(Events) /\ Len(queue') <= QueueMax
        <3>1. CASE queue' = queue
            BY <3>1 DEF IntakeInv, IntakeShapes
        <3>2. CASE queue' = << >>
            <4>1. << >> \in Seq(Events) /\ Len(<< >>) = 0 /\ QueueMax \in Nat
                BY EmptySeq DEF IntakeConstants
            <4>. QED
                BY <3>2, <4>1
        <3>. QED
            BY <1>2, <3>1, <3>2
    <2>2. /\ host' \in [Threads -> Thread]
          /\ \A u \in Threads : host'[u].pc = "idle" <=> host'[u].todo = << >>
        BY <1>2, <1>4 DEF IntakeInv, IntakeShapes
    <2>. QED
        BY <1>1, <2>1, <2>2 DEF IntakeInv, IntakeShapes
<1>6. Waited'
    BY <1>1, <1>2, <1>3, HostMoves
<1>7. Claimed' /\ Intake!OneOpenAlert'
    BY <1>1, ServerRests
<1>. QED
    BY <1>5, <1>6, <1>7 DEF IntakeInv

\* A failed event is put back: the append may push out the oldest.
LEMMA Enqueues ==
    ASSUME IntakeInv, IntakeConstants, NEW t \in Threads,
           Intake!CountEviction(t) \/ Intake!Enqueue(t)
    PROVE  IntakeInv'
<1>1. UNCHANGED <<slot, rows, alerts, clock>>
    BY DEF Intake!CountEviction, Intake!Enqueue, Intake!server
<1>2. /\ host[t] \in Thread /\ host[t].todo # << >> /\ host[t].pc \in {"failed", "append"}
      /\ queue \in Seq(Events) /\ Len(queue) \in Nat /\ Len(queue) <= QueueMax
    <2>1. host[t] \in Thread /\ host[t].pc \in {"failed", "append"}
        BY DEF Intake!CountEviction, Intake!Enqueue, IntakeInv, IntakeShapes
    <2>2. queue \in Seq(Events) /\ Len(queue) <= QueueMax
          /\ (host[t].pc = "idle" <=> host[t].todo = << >>)
        BY DEF IntakeInv, IntakeShapes
    <2>. QED
        BY <2>1, <2>2, LenProperties
<1>3. CASE Intake!CountEviction(t)
    <2>1. PICK h : h = [host[t] EXCEPT !.pc = "append"]
        OBVIOUS
    <2>2. host[t].pc = "failed" /\ host' = [host EXCEPT ![t] = h] /\ queue' = queue
        BY <1>3, <2>1 DEF Intake!CountEviction
    <2>3. h \in Thread /\ h.pc = "append" /\ h.todo = host[t].todo
        BY <1>2, <2>1 DEF Thread
    <2>4. IntakeShapes'
        <3>1. host' \in [Threads -> Thread]
              /\ \A u \in Threads : host'[u].pc = "idle" <=> host'[u].todo = << >>
            BY <1>2, <2>2, <2>3 DEF IntakeInv, IntakeShapes
        <3>. QED
            BY <1>1, <2>2, <3>1 DEF IntakeInv, IntakeShapes
    <2>5. Waited'
        BY <1>1, <2>2, HostMoves
    <2>. QED
        BY <1>1, <2>4, <2>5, ServerRests DEF IntakeInv
<1>4. CASE Intake!Enqueue(t)
    <2>1. PICK h : h = Intake!Onward(host[t])
        OBVIOUS
    <2>2. PICK e, kept : e = Head(host[t].todo) /\ kept = Intake!Kept
        OBVIOUS
    <2>3. /\ host[t].pc = "append" /\ host' = [host EXCEPT ![t] = h]
          /\ queue' = Append(kept, e)
        BY <1>4, <2>1, <2>2 DEF Intake!Enqueue
    <2>4. /\ h \in Thread /\ h.pc \in {"idle", "post"} /\ (h.pc = "idle" <=> h.todo = << >>)
          /\ e \in Events
        BY <1>2, <2>1, <2>2, GoesOn
    <2>5. kept \in Seq(Events) /\ Len(kept) \in Nat /\ Len(kept) + 1 <= QueueMax
        <3>1. CASE Len(queue) = QueueMax
            <4>1. queue # << >> /\ kept = Tail(queue)
                BY <1>2, <2>2, <3>1, EmptySeq DEF IntakeConstants, Intake!Kept
            <4>2. kept \in Seq(Events) /\ Len(kept) = Len(queue) - 1 /\ Len(queue) \in Nat \ {0}
                BY <1>2, <4>1, FirstAndRest
            <4>. QED
                BY <3>1, <4>2
        <3>2. CASE Len(queue) # QueueMax
            BY <1>2, <2>2, <3>2 DEF IntakeConstants, Intake!Kept
        <3>. QED
            BY <3>1, <3>2
    <2>6. queue' \in Seq(Events) /\ Len(queue') <= QueueMax
        <3>1. Append(kept, e) \in Seq(Events) /\ Len(Append(kept, e)) = Len(kept) + 1
            BY <2>4, <2>5, AppendProperties
        <3>. QED
            BY <2>3, <2>5, <3>1
    <2>7. IntakeShapes'
        <3>1. host' \in [Threads -> Thread]
              /\ \A u \in Threads : host'[u].pc = "idle" <=> host'[u].todo = << >>
            BY <2>3, <2>4 DEF IntakeInv, IntakeShapes
        <3>. QED
            BY <1>1, <2>3, <2>6, <3>1 DEF IntakeInv, IntakeShapes
    <2>8. Waited'
        BY <1>1, <2>3, HostMoves
    <2>. QED
        BY <1>1, <2>7, <2>8, ServerRests DEF IntakeInv
<1>. QED
    BY <1>3, <1>4

-----------------------------------------------------------------------------
(* Intake of events: requests on the wire and at the receiver *)

\* Requests that group are as before, or fewer, and so are the alerts.
LEMMA ClaimsShrink ==
    ASSUME IntakeInv, alerts' = alerts,
           \A r \in Slots : slot'[r].pc = "grouped" =>
               slot[r].pc = "grouped" /\ slot'[r].e = slot[r].e /\ slot'[r].alert = slot[r].alert
    PROVE  Claimed' /\ Intake!OneOpenAlert'
<1>1. \A g : Excused(g)' <=> Excused(g)
    BY DEF Excused, Intake!InGroup
<1>2. Claimed'
    BY <1>1 DEF IntakeInv, Claimed
<1>3. Intake!OneOpenAlert'
    BY DEF IntakeInv, Intake!OneOpenAlert, Intake!InGroup
<1>. QED
    BY <1>2, <1>3

\* A request is posted to a free slot, in which nothing is under way, or fails.
LEMMA Posts ==
    ASSUME IntakeInv, IntakeConstants, NEW t \in Threads,
           Intake!Post(t) \/ Intake!Unreachable(t) \/ Intake!GiveUp(t)
    PROVE  IntakeInv'
<1>1. PICK p \in {"await", "failed"} :
          /\ host' = [host EXCEPT ![t].pc = p] /\ host[t].pc \in {"post", "await"}
          /\ UNCHANGED <<queue, rows, alerts, clock>>
    BY DEF Intake!Post, Intake!Unreachable, Intake!GiveUp, Intake!server
<1>2. PICK h : h = [host[t] EXCEPT !.pc = p]
    OBVIOUS
<1>3. /\ host[t] \in Thread /\ host[t].todo # << >>
      /\ h \in Thread /\ h.pc = p /\ h.todo = host[t].todo /\ host' = [host EXCEPT ![t] = h]
    <2>1. host[t] \in Thread /\ host[t].todo # << >>
        BY <1>1 DEF IntakeInv, IntakeShapes
    <2>. QED
        BY <1>1, <1>2, <2>1 DEF Thread
<1>4. \A u \in Threads : host'[u] = IF u = t THEN h ELSE host[u]
    BY <1>3 DEF IntakeInv, IntakeShapes
<1>5. slot' \in [Slots -> Request] /\ Waited'
      /\ \A r \in Slots : slot'[r].pc = "grouped" =>
            slot[r].pc = "grouped" /\ slot'[r].e = slot[r].e /\ slot'[r].alert = slot[r].alert
    <2>1. CASE Intake!Post(t)
        <3>0. PICK q : q = [Intake!Free EXCEPT !.pc = "arrived", !.e = Head(host[t].todo), !.t = t]
            OBVIOUS
        <3>1. PICK s \in Slots : slot[s] = Intake!Free /\ slot' = [slot EXCEPT ![s] = q]
            BY <2>1, <3>0 DEF Intake!Post, Intake!FreeSlots
        <3>2. q = [pc |-> "arrived", e |-> Head(host[t].todo), t |-> t, at |-> 0, alert |-> 0]
            BY <3>0 DEF Intake!Free
        <3>3. Head(host[t].todo) \in Events
            BY <1>3, GoesOn
        <3>4. q \in Request
            BY <3>2, <3>3 DEF Request
        <3>5. /\ slot' \in [Slots -> Request]
              /\ \A r \in Slots : slot'[r] = IF r = s THEN q ELSE slot[r]
            BY <3>1, <3>4 DEF IntakeInv, IntakeShapes
        <3>6. host[t].pc = "post" /\ p = "await"
            <4>1. host[t].pc = "post" /\ host' = [host EXCEPT ![t] = [host[t] EXCEPT !.pc = "await"]]
                BY <2>1 DEF Intake!Post
            <4>2. host'[t] = [host[t] EXCEPT !.pc = "await"]
                BY <4>1 DEF IntakeInv, IntakeShapes
            <4>3. host'[t].pc = "await"
                BY <1>3, <4>2 DEF Thread
            <4>. QED
                BY <1>3, <1>4, <4>1, <4>3
        <3>7. \A r \in Slots : slot[r].t # t
            BY <3>6 DEF IntakeInv, Waited
        <3>8. Waited'
            <4>1. ASSUME NEW r \in Slots, slot'[r].t \in Threads
                  PROVE  host'[slot'[r].t].pc = "await" /\ slot'[r].e = Head(host'[slot'[r].t].todo)
                <5>1. CASE r = s
                    BY <1>3, <1>4, <3>2, <3>5, <3>6, <5>1
                <5>2. CASE r # s
                    BY <1>4, <3>5, <3>7, <4>1, <5>2 DEF IntakeInv, Waited
                <5>. QED
                    BY <5>1, <5>2
            <4>2. \A r, v \in Slots : r # v /\ slot'[r].t \in Threads => slot'[r].t # slot'[v].t
                BY <3>2, <3>5, <3>7 DEF IntakeInv, Waited
            <4>. QED
                BY <4>1, <4>2 DEF Waited
        <3>. QED
            BY <3>2, <3>5, <3>8
    <2>2. CASE Intake!Unreachable(t)
        <3>1. slot' = slot /\ host[t].pc = "post"
            BY <2>2 DEF Intake!Unreachable, Intake!server
        <3>2. Waited'
            BY <1>3, <3>1, HostMoves
        <3>. QED
            BY <3>1, <3>2 DEF IntakeInv, IntakeShapes
    <2>3. CASE Intake!GiveUp(t)
        <3>1. slot' = [s \in Slots |-> IF slot[s].t = t THEN [slot[s] EXCEPT !.t = None]
                                                         ELSE slot[s]]
            BY <2>3 DEF Intake!GiveUp
        <3>2. ASSUME NEW r \in Slots
              PROVE  /\ slot'[r] \in Request /\ slot'[r].pc = slot[r].pc /\ slot'[r].e = slot[r].e
                     /\ slot'[r].alert = slot[r].alert
                     /\ slot'[r].t = IF slot[r].t = t THEN None ELSE slot[r].t
            <4>1. PICK q : q = slot[r] /\ q \in Request
                BY DEF IntakeInv, IntakeShapes
            <4>2. CASE q.t = t
                <5>1. q # Intake!Free
                    BY <4>2 DEF Intake!Free, IntakeConstants
                <5>2. slot'[r] = [q EXCEPT !.t = None]
                    BY <3>1, <4>1, <4>2
                <5>. QED
                    BY <4>1, <4>2, <5>1, <5>2 DEF Request
            <4>3. CASE q.t # t
                BY <3>1, <4>1, <4>3
            <4>. QED
                BY <4>2, <4>3
        <3>3. slot' \in [Slots -> Request]
            BY <3>1, <3>2
        <3>4. Waited'
            BY <1>4, <3>2 DEF IntakeInv, Waited, IntakeConstants
        <3>. QED
            BY <3>2, <3>3, <3>4
    <2>. QED
        BY <2>1, <2>2, <2>3
<1>6. IntakeShapes'
    <2>1. /\ host' \in [Threads -> Thread]
          /\ \A u \in Threads : host'[u].pc = "idle" <=> host'[u].todo = << >>
        BY <1>3, <1>4 DEF IntakeInv, IntakeShapes
    <2>. QED
        BY <1>1, <1>5, <2>1 DEF IntakeInv, IntakeShapes
<1>. QED
    BY <1>1, <1>5, <1>6, ClaimsShrink DEF IntakeInv

\* The receiver answers: the thread that waits, if one does, is done with the event, or
\* has it still.
LEMMA Answered ==
    ASSUME IntakeInv, IntakeConstants, NEW s \in Slots, NEW ok \in BOOLEAN,
           Intake!Answer(s, ok), Intake!Close(s)
    PROVE  /\ host' \in [Threads -> Thread]
           /\ \A t \in Threads : host'[t].pc = "idle" <=> host'[t].todo = << >>
           /\ slot' \in [Slots -> Request] /\ Waited'
           /\ \A r \in Slots : slot'[r] = IF r = s THEN Intake!Free ELSE slot[r]
<1>1. /\ slot' \in [Slots -> Request]
      /\ \A r \in Slots : slot'[r] = IF r = s THEN Intake!Free ELSE slot[r]
    <2>1. Intake!Free \in Request
        BY DEF Request
    <2>. QED
        BY <2>1 DEF Intake!Close, IntakeInv, IntakeShapes
<1>2. ASSUME NEW t \in Threads
      PROVE  /\ host'[t] \in Thread /\ (host'[t].pc = "idle" <=> host'[t].todo = << >>)
             /\ slot[s].t # t => host'[t] = host[t]
    <2>1. PICK h \in Thread : /\ h = host[t] /\ (h.pc = "idle" <=> h.todo = << >>)
        BY DEF IntakeInv, IntakeShapes
    <2>2. CASE slot[s].t # t
        <3>1. host'[t] = h
            BY <2>1, <2>2 DEF Intake!Answer, Intake!Waiting
        <3>. QED
            BY <2>1, <2>2, <3>1
    <2>3. CASE slot[s].t = t
        <3>1. host'[t] = IF ok THEN Intake!Onward(h) ELSE [h EXCEPT !.pc = "failed"]
            BY <2>1, <2>3 DEF Intake!Answer, Intake!Waiting
        <3>2. h.pc = "await" /\ slot[s].e = Head(h.todo) /\ h.todo # << >>
            BY <2>1, <2>3 DEF IntakeInv, Waited
        <3>3. CASE ok
            BY <2>1, <2>3, <3>1, <3>2, <3>3, GoesOn
        <3>4. CASE ~ ok
            <4>1. /\ host'[t] \in Thread /\ host'[t].pc = "failed" /\ host'[t].todo = h.todo
                BY <3>1, <3>4 DEF Thread
            <4>. QED
                BY <2>1, <2>3, <3>2, <3>4, <4>1
        <3>. QED
            BY <3>3, <3>4
    <2>. QED
        BY <2>2, <2>3
<1>3. host' \in [Threads -> Thread]
    BY <1>2 DEF Intake!Answer
<1>4. Waited'
    <2>1. ASSUME NEW r \in Slots, slot'[r].t \in Threads
          PROVE  r # s /\ slot'[r] = slot[r] /\ host'[slot'[r].t] = host[slot[r].t]
        <3>1. r # s /\ slot'[r] = slot[r]
            BY <1>1, <2>1 DEF Intake!Free, IntakeConstants
        <3>2. slot[s].t # slot[r].t
            BY <2>1, <3>1 DEF IntakeInv, Waited
        <3>. QED
            BY <1>2, <2>1, <3>1, <3>2
    <2>2. ASSUME NEW r \in Slots, NEW v \in Slots, r # v, slot'[r].t \in Threads
          PROVE  slot'[r].t # slot'[v].t
        <3>1. CASE v = s
            BY <1>1, <2>2, <3>1 DEF Intake!Free, IntakeConstants
        <3>2. CASE v # s
            BY <1>1, <2>1, <2>2, <3>2 DEF IntakeInv, Waited
        <3>. QED
            BY <3>1, <3>2
    <2>. QED
        BY <2>1, <2>2 DEF IntakeInv, Waited
<1>. QED
    BY <1>1, <1>2, <1>3, <1>4

\* A request ends without a new row.
LEMMA Refusals ==
    ASSUME IntakeInv, IntakeConstants, NEW s \in Slots,
           \/ Intake!Replay(s) \/ Intake!Refuse(s) \/ Intake!NotRunning(s) \/ Intake!Conflict(s)
    PROVE  IntakeInv'
<1>1. PICK ok \in BOOLEAN : /\ Intake!Answer(s, ok) /\ Intake!Close(s)
                            /\ UNCHANGED <<queue, rows, alerts, clock>>
    BY DEF Intake!Replay, Intake!Refuse, Intake!NotRunning, Intake!Conflict
<1>2. /\ host' \in [Threads -> Thread]
      /\ \A t \in Threads : host'[t].pc = "idle" <=> host'[t].todo = << >>
      /\ slot' \in [Slots -> Request] /\ Waited'
      /\ \A r \in Slots : slot'[r] = IF r = s THEN Intake!Free ELSE slot[r]
    BY <1>1, Answered
<1>3. IntakeShapes'
    BY <1>1, <1>2 DEF IntakeInv, IntakeShapes
<1>4. \A r \in Slots : slot'[r].pc = "grouped" =>
          slot[r].pc = "grouped" /\ slot'[r].e = slot[r].e /\ slot'[r].alert = slot[r].alert
    BY <1>2 DEF Intake!Free
<1>. QED
    BY <1>1, <1>2, <1>3, <1>4, ClaimsShrink DEF IntakeInv

-----------------------------------------------------------------------------
(* Intake of events: grouping *)

\* No event and no alert is stamped with a time that has not come.
Stamped ==
    /\ \A s \in Slots : slot[s].at <= clock
    /\ \A i \in DOMAIN alerts : alerts[i].last <= clock

\* Numbers have a least.
LEMMA LeastNumber ==
    ASSUME NEW T \in SUBSET Nat, T # {}
    PROVE  \E x \in T : \A y \in T : x <= y
<1>1. PICK R : R = OpToRel(<, Nat)
    OBVIOUS
<1>2. IsWellFoundedOn(R, Nat)
    BY <1>1, NatLessThanWellFounded
<1>3. PICK x \in T : \A y \in T : ~ (<<y, x>> \in R)
    BY <1>2, WFMin
<1>4. \A y \in T : ~ (y < x)
    BY <1>1, <1>3 DEF OpToRel
<1>. QED
    BY <1>4

\* Among alerts in the window one was seen last.
LEMMA LatestExists ==
    ASSUME IntakeInv, Stamped, NEW g, NEW i \in Intake!InGroup(g), alerts[i].fresh
    PROVE  Intake!LatestFresh(g) # {}
<1>. DEFINE fresh == {j \in Intake!InGroup(g) : alerts[j].fresh}
            ages == {clock - alerts[j].last : j \in fresh}
<1>1. \A j \in fresh : alerts[j].last \in Nat /\ alerts[j].last <= clock /\ clock \in Nat
    <2>1. \A j \in DOMAIN alerts : alerts[j] \in AlertRow
        BY DEF IntakeInv, IntakeShapes
    <2>2. \A j \in DOMAIN alerts : alerts[j].last \in Nat /\ alerts[j].last <= clock
        BY <2>1 DEF AlertRow, Stamped
    <2>3. fresh \subseteq DOMAIN alerts
        BY DEF Intake!InGroup
    <2>4. clock \in Nat
        BY DEF IntakeInv, IntakeShapes
    <2>. QED
        BY <2>2, <2>3, <2>4
<1>2. ages \in SUBSET Nat
    BY <1>1
<1>3. ages # {}
    OBVIOUS
<1>4. PICK age \in ages : \A a \in ages : age <= a
    <2>. HIDE DEF ages
    <2>. QED
        BY <1>2, <1>3, LeastNumber
<1>5. PICK j \in fresh : age = clock - alerts[j].last
    OBVIOUS
<1>6. \A k \in fresh : alerts[k].last <= alerts[j].last
    <2>1. ASSUME NEW k \in fresh PROVE alerts[k].last <= alerts[j].last
        <3>1. clock - alerts[j].last <= clock - alerts[k].last
            BY <1>4, <1>5
        <3>2. PICK c \in Nat, m \in Nat, n \in Nat :
                  c = clock /\ m = alerts[j].last /\ n = alerts[k].last
            BY <1>1
        <3>3. c - m <= c - n
            BY <3>1, <3>2
        <3>4. n <= m
            BY <3>3
        <3>. QED
            BY <3>2, <3>4
    <2>. QED
        BY <2>1
<1>. QED
    BY <1>6 DEF Intake!LatestFresh

\* An event is taken up, or grouped by the one request that holds the locks.
LEMMA Groupings ==
    ASSUME IntakeInv, Stamped, IntakeConstants, NEW s \in Slots,
           Intake!Begin(s) \/ Intake!Group(s)
    PROVE  IntakeInv'
<1>1. /\ UNCHANGED <<host, queue, rows, alerts>> /\ clock' \in Nat
      /\ slot[s].pc \in {"arrived", "begun"}
    BY DEF Intake!Begin, Intake!Group, Intake!client, IntakeInv, IntakeShapes
<1>2. PICK q : q = slot[s] /\ q \in Request
    BY DEF IntakeInv, IntakeShapes
<1>3. q \in [pc : {"arrived", "begun"}, e : Events, t : Threads \cup {None}, at : Nat, alert : Nat]
    BY <1>1, <1>2 DEF Request, Intake!Free
<1>4. PICK a : a = Intake!Candidate(GroupOf[q.e])
    OBVIOUS
<1>5. a = 0 \/ (a \in Intake!LatestFresh(GroupOf[q.e]) /\ a \in DOMAIN alerts /\ a \in Nat)
    <2>1. DOMAIN alerts \subseteq Nat
        BY LenProperties DEF IntakeInv, IntakeShapes
    <2>2. PICK latest : latest = Intake!LatestFresh(GroupOf[q.e]) /\ latest \subseteq DOMAIN alerts
        BY DEF Intake!LatestFresh, Intake!InGroup
    <2>3. CASE \E i \in latest : alerts[i].status # "dismissed"
        <3>1. a = CHOOSE i \in latest : TRUE
            BY <1>4, <2>2, <2>3 DEF Intake!Candidate
        <3>2. a \in latest
            BY <2>3, <3>1
        <3>. QED
            BY <2>1, <2>2, <3>2
    <2>4. CASE ~ \E i \in latest : alerts[i].status # "dismissed"
        BY <1>4, <2>2, <2>4 DEF Intake!Candidate
    <2>. QED
        BY <2>3, <2>4
<1>6. PICK r : /\ slot' = [slot EXCEPT ![s] = r] /\ r \in Request
               /\ r.e = q.e /\ r.t = q.t
               /\ \/ r.pc = "begun" \/ (r.pc = "grouped" /\ r.alert = a /\ Intake!Alone)
    <2>1. CASE Intake!Begin(s)
        <3>1. PICK r : r = [q EXCEPT !.pc = "begun", !.at = clock + 1]
            OBVIOUS
        <3>2. slot' = [slot EXCEPT ![s] = r]
            BY <1>2, <2>1, <3>1 DEF Intake!Begin, IntakeInv, IntakeShapes
        <3>3. clock + 1 \in Nat
            BY DEF IntakeInv, IntakeShapes
        <3>4. r \in Request /\ r.e = q.e /\ r.t = q.t /\ r.pc = "begun"
            BY <1>3, <3>1, <3>3 DEF Request
        <3>. QED
            BY <3>2, <3>4
    <2>2. CASE Intake!Group(s)
        <3>1. PICK r : r = [q EXCEPT !.pc = "grouped", !.alert = a]
            OBVIOUS
        <3>2. slot' = [slot EXCEPT ![s] = r] /\ Intake!Alone
            BY <1>2, <1>4, <2>2, <3>1 DEF Intake!Group, IntakeInv, IntakeShapes
        <3>3. a \in Nat
            BY <1>5
        <3>4. r \in Request /\ r.e = q.e /\ r.t = q.t /\ r.pc = "grouped" /\ r.alert = a
            BY <1>3, <3>1, <3>3 DEF Request
        <3>. QED
            BY <3>2, <3>4
    <2>. QED
        BY <2>1, <2>2
<1>7. \A v \in Slots : slot'[v] = IF v = s THEN r ELSE slot[v]
    BY <1>6 DEF IntakeInv, IntakeShapes
<1>8. IntakeShapes'
    BY <1>1, <1>6 DEF IntakeInv, IntakeShapes
<1>9. Waited'
    BY <1>1, <1>2, <1>6, <1>7 DEF IntakeInv, Waited
<1>10. Intake!OneOpenAlert'
    BY <1>1 DEF IntakeInv, Intake!OneOpenAlert, Intake!InGroup
<1>11. Claimed'
    <2>1. \A g : Excused(g)' <=> Excused(g)
        BY <1>1 DEF Excused, Intake!InGroup
    <2>2. \A v, w \in Slots : slot'[v].pc = "grouped" /\ slot'[w].pc = "grouped" => v = w
        BY <1>6, <1>7 DEF IntakeInv, Claimed, Intake!Alone
    <2>3. ASSUME NEW v \in Slots, slot'[v].pc = "grouped"
          PROVE  IF slot'[v].alert = 0 THEN Excused(GroupOf[slot'[v].e])
                 ELSE slot'[v].alert \in DOMAIN alerts /\ alerts[slot'[v].alert].fresh
        <3>1. CASE v # s
            BY <1>7, <2>3, <3>1 DEF IntakeInv, Claimed
        <3>2. CASE v = s
            <4>1. slot'[v].alert = a /\ slot'[v].e = q.e
                BY <1>6, <1>7, <2>3, <3>2
            <4>2. CASE a # 0
                <5>1. a \in DOMAIN alerts /\ alerts[a].fresh
                    BY <1>5, <4>2 DEF Intake!LatestFresh
                <5>. QED
                    BY <4>1, <4>2, <5>1
            <4>3. CASE a = 0
                <5>1. PICK g : g = GroupOf[q.e]
                    OBVIOUS
                <5>2. ASSUME NEW i \in Intake!InGroup(g), alerts[i].fresh
                      PROVE  \E k \in Intake!InGroup(g) : alerts[k].status = "dismissed"
                    <6>1. PICK k \in Intake!LatestFresh(g) : TRUE
                        BY <5>2, LatestExists
                    <6>2. alerts[k].status = "dismissed"
                        <7>1. 0 \notin Intake!LatestFresh(g)
                            BY LenProperties
                               DEF Intake!LatestFresh, Intake!InGroup, IntakeInv, IntakeShapes
                        <7>. QED
                            BY <1>4, <4>3, <5>1, <6>1, <7>1 DEF Intake!Candidate
                    <6>. QED
                        BY <6>1, <6>2 DEF Intake!LatestFresh
                <5>. QED
                    BY <4>1, <4>3, <5>1, <5>2 DEF Excused
            <4>. QED
                BY <4>2, <4>3
        <3>. QED
            BY <3>1, <3>2
    <2>. QED
        BY <1>1, <2>1, <2>2, <2>3 DEF Claimed
<1>. QED
    BY <1>8, <1>9, <1>10, <1>11 DEF IntakeInv

\* What a commit makes of the alerts: one row is added, or one that exists is repeated.
LEMMA RecordedRows ==
    ASSUME IntakeInv, IntakeConstants, NEW s \in Slots, slot[s].pc = "grouped"
    PROVE  /\ Intake!Recorded(s) \in Seq(AlertRow)
           /\ \A i \in DOMAIN alerts :
                 /\ i \in DOMAIN Intake!Recorded(s)
                 /\ Intake!Recorded(s)[i].group = alerts[i].group
                 /\ Intake!Recorded(s)[i].status = alerts[i].status
                 /\ Intake!Recorded(s)[i].fresh = alerts[i].fresh
                 /\ Intake!Recorded(s)[i].last \in {alerts[i].last, slot[s].at}
           /\ slot[s].alert # 0 => DOMAIN Intake!Recorded(s) = DOMAIN alerts
           /\ slot[s].alert = 0 => \A i \in DOMAIN Intake!Recorded(s) \ DOMAIN alerts :
                 /\ Intake!Recorded(s)[i].group = GroupOf[slot[s].e]
                 /\ Intake!Recorded(s)[i].last = slot[s].at
                 /\ i = Len(alerts) + 1
<1>1. PICK q : /\ q = slot[s]
               /\ q \in [pc : {"grouped"}, e : Events, t : Threads \cup {None}, at : Nat, alert : Nat]
    <2>1. slot[s] \in Request
        BY DEF IntakeInv, IntakeShapes
    <2>. QED
        BY <2>1 DEF Request, Intake!Free
<1>2. PICK before : before = alerts /\ before \in Seq(AlertRow)
    BY DEF IntakeInv, IntakeShapes
<1>3. PICK after : after = Intake!Recorded(s)
    OBVIOUS
<1>4. CASE q.alert = 0
    <2>1. PICK row : row = [group |-> GroupOf[q.e], count |-> 1, last |-> q.at, fresh |-> TRUE,
                            status |-> "new"]
        OBVIOUS
    <2>2. row \in AlertRow
        BY <1>1, <2>1 DEF AlertRow, IntakeConstants
    <2>3. after = Append(before, row)
        BY <1>1, <1>2, <1>3, <1>4, <2>1 DEF Intake!Recorded
    <2>4. /\ after \in Seq(AlertRow)
          /\ \A i \in 1..Len(before) : after[i] = before[i]
          /\ after[Len(before) + 1] = row /\ Len(before) \in Nat
          /\ DOMAIN before = 1..Len(before) /\ DOMAIN after = 1..(Len(before) + 1)
        BY <1>2, <2>2, <2>3, AppendProperties, LenProperties
    <2>5. DOMAIN after = DOMAIN before \cup {Len(before) + 1}
        BY <2>4
    <2>. QED
        BY <1>1, <1>2, <1>3, <1>4, <2>1, <2>4, <2>5
<1>5. CASE q.alert # 0
    <2>1. PICK i : i = q.alert /\ i \in DOMAIN before /\ before[i].fresh
        BY <1>1, <1>2, <1>5 DEF IntakeInv, Claimed
    <2>2. PICK old : old = before[i] /\ old \in AlertRow
        BY <1>2, <2>1
    <2>3. PICK stamp \in {old.last, q.at} : stamp = IF q.at > old.last THEN q.at ELSE old.last
        OBVIOUS
    <2>4. PICK row : row = [old EXCEPT !.count = @ + 1, !.fresh = TRUE, !.last = stamp]
        OBVIOUS
    <2>5. stamp \in Nat /\ old.count + 1 \in Nat
        BY <1>1, <2>2, <2>3 DEF AlertRow
    <2>6. /\ row \in AlertRow /\ row.group = old.group /\ row.status = old.status
          /\ row.fresh = TRUE /\ row.last = stamp
        BY <2>2, <2>4, <2>5 DEF AlertRow
    <2>7. after = [before EXCEPT ![i] = row]
        BY <1>1, <1>2, <1>3, <1>5, <2>1, <2>2, <2>3, <2>4 DEF Intake!Recorded
    <2>8. after \in Seq(AlertRow) /\ DOMAIN after = DOMAIN before
          /\ \A j \in DOMAIN before : after[j] = IF j = i THEN row ELSE before[j]
        BY <1>2, <2>1, <2>6, <2>7, ExceptSeq
    <2>9. old.fresh = TRUE
        BY <2>1, <2>2 DEF AlertRow
    <2>. QED
        BY <1>1, <1>2, <1>3, <1>5, <2>2, <2>3, <2>6, <2>8, <2>9, ZenonT(60)
<1>. QED
    BY <1>1, <1>4, <1>5

\* The event is recorded and its alert with it.
LEMMA Commits ==
    ASSUME IntakeInv, IntakeConstants, NEW s \in Slots, Intake!Commit(s)
    PROVE  IntakeInv'
<1>1. /\ Intake!Answer(s, TRUE) /\ Intake!Close(s) /\ slot[s].pc = "grouped"
      /\ UNCHANGED <<queue, clock>>
      /\ rows' = rows \cup {slot[s].e} /\ alerts' = Intake!Recorded(s)
    BY DEF Intake!Commit
<1>2. /\ host' \in [Threads -> Thread]
      /\ \A t \in Threads : host'[t].pc = "idle" <=> host'[t].todo = << >>
      /\ slot' \in [Slots -> Request] /\ Waited'
      /\ \A r \in Slots : slot'[r] = IF r = s THEN Intake!Free ELSE slot[r]
    BY <1>1, Answered
<1>3. /\ alerts' \in Seq(AlertRow)
      /\ \A i \in DOMAIN alerts : /\ i \in DOMAIN alerts' /\ alerts'[i].group = alerts[i].group
                                  /\ alerts'[i].status = alerts[i].status
                                  /\ alerts'[i].fresh = alerts[i].fresh
      /\ slot[s].alert # 0 => DOMAIN alerts' = DOMAIN alerts
      /\ slot[s].alert = 0 => \A i \in DOMAIN alerts' \ DOMAIN alerts :
            alerts'[i].group = GroupOf[slot[s].e] /\ i = Len(alerts) + 1
    BY <1>1, RecordedRows
<1>4. IntakeShapes'
    BY <1>1, <1>2, <1>3 DEF IntakeInv, IntakeShapes
<1>5. Claimed'
    <2>1. \A r \in Slots : slot'[r].pc # "grouped"
        BY <1>1, <1>2 DEF Intake!Free, IntakeInv, Claimed
    <2>. QED
        BY <2>1 DEF Claimed
<1>6. Intake!OneOpenAlert'
    <2>1. SUFFICES ASSUME NEW i \in DOMAIN alerts', NEW j \in DOMAIN alerts',
                          i # j, alerts'[i].group = alerts'[j].group,
                          \A k \in {i, j} : alerts'[k].fresh /\ alerts'[k].status # "dismissed"
                   PROVE  \E k \in DOMAIN alerts' : /\ alerts'[k].group = alerts'[i].group
                                                    /\ alerts'[k].status = "dismissed"
        BY DEF Intake!OneOpenAlert, Intake!InGroup
    <2>2. CASE i \in DOMAIN alerts /\ j \in DOMAIN alerts
        <3>1. PICK k \in DOMAIN alerts : /\ alerts[k].group = alerts[i].group
                                         /\ alerts[k].status = "dismissed"
            BY <1>3, <2>1, <2>2 DEF IntakeInv, Intake!OneOpenAlert, Intake!InGroup
        <3>. QED
            BY <1>3, <2>2, <3>1
    <2>3. ASSUME NEW new \in {i, j}, new \notin DOMAIN alerts
          PROVE  \E k \in DOMAIN alerts' : /\ alerts'[k].group = alerts'[i].group
                                           /\ alerts'[k].status = "dismissed"
        <3>1. slot[s].alert = 0 /\ alerts'[new].group = GroupOf[slot[s].e]
            BY <1>3, <2>1, <2>3
        <3>2. Excused(GroupOf[slot[s].e])
            BY <1>1, <3>1 DEF IntakeInv, Claimed
        <3>3. PICK old \in {i, j} : old \in DOMAIN alerts
            BY <1>3, <2>1, <2>3, <3>1
        <3>4. alerts[old].group = GroupOf[slot[s].e] /\ alerts[old].fresh
            BY <1>3, <2>1, <2>3, <3>1, <3>3
        <3>5. PICK k \in DOMAIN alerts : /\ alerts[k].group = GroupOf[slot[s].e]
                                         /\ alerts[k].status = "dismissed"
            BY <3>2, <3>3, <3>4 DEF Excused, Intake!InGroup
        <3>. QED
            BY <1>3, <2>1, <2>3, <3>1, <3>5
    <2>. QED
        BY <2>2, <2>3
<1>. QED
    BY <1>2, <1>4, <1>5, <1>6 DEF IntakeInv

\* The receiver stops, or its monitor does, and starts again.
LEMMA Outage ==
    ASSUME IntakeInv, IntakeConstants,
           Intake!Crash \/ Intake!StopMonitor \/ Intake!StartMonitor
    PROVE  IntakeInv'
<1>1. UNCHANGED <<queue, clock, rows, alerts>>
    BY DEF Intake!Crash, Intake!StopMonitor, Intake!StartMonitor, Intake!client
<1>2. \/ slot' = slot
      \/ slot' = [s \in Slots |-> Intake!Free]
    BY DEF Intake!Crash, Intake!StopMonitor, Intake!StartMonitor
<1>3. Intake!Calm \in Thread /\ Intake!Calm.pc = "idle" /\ Intake!Calm.todo = << >>
    BY EmptySeq DEF Thread, Intake!Calm
<1>4. /\ host' \in [Threads -> Thread]
      /\ \A t \in Threads : host'[t].pc = "idle" <=> host'[t].todo = << >>
    <2>1. CASE Intake!Crash
        BY <1>3, <2>1 DEF Intake!Crash, IntakeInv, IntakeShapes
    <2>2. CASE Intake!StopMonitor \/ Intake!StartMonitor
        BY <2>2 DEF Intake!StopMonitor, Intake!StartMonitor, Intake!client, IntakeInv, IntakeShapes
    <2>. QED
        BY <2>1, <2>2
<1>5. IntakeShapes'
    <2>1. slot' \in [Slots -> Request]
        BY <1>2 DEF IntakeInv, IntakeShapes, Request
    <2>. QED
        BY <1>1, <1>4, <2>1 DEF IntakeInv, IntakeShapes
<1>6. Waited'
    <2>1. CASE Intake!Crash
        BY <2>1 DEF Intake!Crash, Waited, Intake!Free, IntakeConstants
    <2>2. CASE Intake!StopMonitor \/ Intake!StartMonitor
        BY <2>2 DEF Intake!StopMonitor, Intake!StartMonitor, Intake!client, IntakeInv, Waited
    <2>. QED
        BY <2>1, <2>2
<1>7. \A r \in Slots : slot'[r].pc = "grouped" =>
          slot[r].pc = "grouped" /\ slot'[r].e = slot[r].e /\ slot'[r].alert = slot[r].alert
    BY <1>2 DEF Intake!Free
<1>. QED
    BY <1>1, <1>5, <1>6, <1>7, ClaimsShrink DEF IntakeInv

\* The window of an alert ends, or a person dismisses one.
LEMMA AlertEnds ==
    ASSUME IntakeInv, NEW i \in DOMAIN alerts, Intake!WindowEnds(i) \/ Intake!Dismiss(i)
    PROVE  IntakeInv'
<1>1. UNCHANGED <<host, queue, slot, rows, clock>>
    BY DEF Intake!WindowEnds, Intake!Dismiss, Intake!client
<1>2. PICK before : before = alerts /\ before \in Seq(AlertRow)
    BY DEF IntakeInv, IntakeShapes
<1>3. PICK old \in AlertRow : old = before[i]
    BY <1>2
<1>4. PICK row \in AlertRow :
          /\ alerts' = [before EXCEPT ![i] = row] /\ row.group = old.group
          /\ \/ /\ \A s \in Slots : slot[s] = Intake!Free
                /\ row.fresh = FALSE /\ row.status = old.status
             \/ row.status = "dismissed" /\ row.fresh = old.fresh
    <2>1. CASE Intake!WindowEnds(i)
        <3>1. PICK row : row = [old EXCEPT !.fresh = FALSE]
            OBVIOUS
        <3>2. /\ row \in AlertRow /\ row.group = old.group
                  /\ row.fresh = FALSE /\ row.status = old.status
            BY <3>1 DEF AlertRow
        <3>3. alerts' = [before EXCEPT ![i] = row]
            BY <1>2, <1>3, <2>1, <3>1 DEF Intake!WindowEnds
        <3>4. \A s \in Slots : slot[s] = Intake!Free
            BY <2>1 DEF Intake!WindowEnds
        <3>. QED
            BY <3>2, <3>3, <3>4
    <2>2. CASE Intake!Dismiss(i)
        <3>1. PICK row : row = [old EXCEPT !.status = "dismissed"]
            OBVIOUS
        <3>2. /\ row \in AlertRow /\ row.group = old.group
                  /\ row.status = "dismissed" /\ row.fresh = old.fresh
            BY <3>1 DEF AlertRow
        <3>3. alerts' = [before EXCEPT ![i] = row]
            BY <1>2, <1>3, <2>2, <3>1 DEF Intake!Dismiss
        <3>. QED
            BY <3>2, <3>3
    <2>. QED
        BY <2>1, <2>2
<1>5. /\ alerts' \in Seq(AlertRow) /\ DOMAIN alerts' = DOMAIN alerts
      /\ \A j \in DOMAIN alerts : alerts'[j] = IF j = i THEN row ELSE alerts[j]
    BY <1>2, <1>4, ExceptSeq
<1>6. \A j \in DOMAIN alerts : /\ alerts'[j].group = alerts[j].group
                               /\ alerts'[j].fresh => alerts[j].fresh
                               /\ alerts[j].status = "dismissed" => alerts'[j].status = "dismissed"
    BY <1>2, <1>3, <1>4, <1>5
<1>7. IntakeShapes'
    BY <1>1, <1>5 DEF IntakeInv, IntakeShapes
<1>8. Waited'
    BY <1>1 DEF IntakeInv, Waited
<1>9. Claimed'
    <2>1. \A g : Excused(g) => Excused(g)'
        BY <1>5, <1>6 DEF Excused, Intake!InGroup
    <2>2. ASSUME NEW s \in Slots, slot[s].pc = "grouped", slot[s].alert # 0
          PROVE  slot[s].alert \in DOMAIN alerts' /\ alerts'[slot[s].alert].fresh
        <3>1. slot[s] # Intake!Free
            BY <2>2 DEF Intake!Free
        <3>2. row.fresh = old.fresh
            BY <1>4, <3>1
        <3>. QED
            BY <1>2, <1>3, <1>5, <2>2, <3>2 DEF IntakeInv, Claimed
    <2>. QED
        BY <1>1, <2>1, <2>2 DEF IntakeInv, Claimed
<1>10. Intake!OneOpenAlert'
    BY <1>5, <1>6 DEF IntakeInv, Intake!OneOpenAlert, Intake!InGroup
<1>. QED
    BY <1>7, <1>8, <1>9, <1>10 DEF IntakeInv

\* Stamps are handed out before they are used.
LEMMA StampsKeep ==
    ASSUME IntakeInv, Stamped, IntakeConstants, [Intake!Next]_Intake!vars
    PROVE  Stamped'
<1>1. clock \in Nat
    BY DEF IntakeInv, IntakeShapes
<1>2. ASSUME NEW t \in Threads, Intake!Emit(t) \/ Intake!Flush(t) \/ Intake!HostStep(t)
      PROVE  Stamped'
    <2>1. UNCHANGED <<alerts, clock>>
        BY <1>2 DEF Intake!Emit, Intake!Flush, Intake!HostStep, Intake!Clear, Intake!Post,
                    Intake!Unreachable, Intake!GiveUp, Intake!CountEviction, Intake!Enqueue,
                    Intake!server
    <2>2. \A s \in Slots : slot'[s].at \in {0, slot[s].at}
        <3>1. CASE Intake!Post(t)
            <4>1. PICK new, r : /\ slot' = [slot EXCEPT ![new] = r]
                                /\ r = [Intake!Free EXCEPT !.pc = "arrived",
                                                           !.e = Head(host[t].todo), !.t = t]
                BY <3>1 DEF Intake!Post
            <4>2. r.at = 0
                BY <4>1 DEF Intake!Free
            <4>3. \A s \in Slots : slot'[s] = r \/ slot'[s] = slot[s]
                BY <4>1 DEF IntakeInv, IntakeShapes
            <4>. QED
                BY <4>2, <4>3
        <3>2. CASE Intake!GiveUp(t)
            <4>1. ASSUME NEW s \in Slots PROVE slot'[s].at = slot[s].at
                <5>1. slot'[s] = slot[s] \/ slot'[s] = [slot[s] EXCEPT !.t = None]
                    BY <3>2 DEF Intake!GiveUp
                <5>2. slot[s] \in Request
                    BY DEF IntakeInv, IntakeShapes
                <5>. QED
                    BY <5>1, <5>2 DEF Request, Intake!Free
            <4>. QED
                BY <4>1
        <3>3. CASE slot' = slot
            BY <3>3
        <3>. QED
            BY <1>2, <3>1, <3>2, <3>3
               DEF Intake!Emit, Intake!Flush, Intake!HostStep, Intake!Clear, Intake!Unreachable,
                   Intake!CountEviction, Intake!Enqueue, Intake!server
    <2>. QED
        BY <1>1, <2>1, <2>2 DEF Stamped
<1>3. ASSUME NEW s \in Slots, Intake!ServerStep(s)
      PROVE  Stamped'
    <2>1. CASE Intake!Begin(s)
        <3>1. PICK now : now = clock + 1
            OBVIOUS
        <3>2. now \in Nat /\ \A n \in Nat : n <= clock => n <= now
            BY <1>1, <3>1
        <3>3. clock' = now /\ alerts' = alerts /\ \A r \in Slots : slot'[r].at \in {now, slot[r].at}
            BY <2>1, <3>1 DEF Intake!Begin, IntakeInv, IntakeShapes
        <3>4. \A r \in Slots : slot[r].at \in Nat
            <4>1. \A r \in Slots : slot[r] \in Request
                BY DEF IntakeInv, IntakeShapes
            <4>2. \A q \in Request : q.at \in Nat
                BY DEF Request, Intake!Free
            <4>. QED
                BY <4>1, <4>2
        <3>5. \A i \in DOMAIN alerts : alerts[i].last \in Nat
            <4>1. \A i \in DOMAIN alerts : alerts[i] \in AlertRow
                BY DEF IntakeInv, IntakeShapes
            <4>. QED
                BY <4>1 DEF AlertRow
        <3>. QED
            BY <3>2, <3>3, <3>4, <3>5 DEF Stamped
    <2>2. CASE Intake!Group(s)
        <3>1. UNCHANGED <<alerts, clock>> /\ \A r \in Slots : slot'[r].at = slot[r].at
            BY <2>2 DEF Intake!Group, IntakeInv, IntakeShapes
        <3>. QED
            BY <3>1 DEF Stamped
    <2>3. CASE \/ Intake!Replay(s) \/ Intake!Refuse(s) \/ Intake!NotRunning(s)
               \/ Intake!Conflict(s) \/ Intake!Commit(s)
        <3>1. clock' = clock /\ \A r \in Slots : slot'[r].at \in {0, slot[r].at}
            <4>1. clock' = clock /\ slot' = [slot EXCEPT ![s] = Intake!Free]
                BY <2>3 DEF Intake!Replay, Intake!Refuse, Intake!NotRunning, Intake!Conflict,
                            Intake!Commit, Intake!Close
            <4>2. \A r \in Slots : slot'[r] = slot[r] \/ slot'[r] = Intake!Free
                BY <4>1 DEF IntakeInv, IntakeShapes
            <4>. QED
                BY <4>1, <4>2 DEF Intake!Free
        <3>2. ASSUME NEW i \in DOMAIN alerts' PROVE alerts'[i].last <= clock
            <4>1. CASE Intake!Commit(s)
                <5>1. alerts' = Intake!Recorded(s) /\ slot[s].pc = "grouped"
                    BY <4>1 DEF Intake!Commit
                <5>2. \/ i \in DOMAIN alerts /\ alerts'[i].last \in {alerts[i].last, slot[s].at}
                      \/ alerts'[i].last = slot[s].at
                    BY <3>2, <5>1, RecordedRows
                <5>. QED
                    BY <5>2 DEF Stamped
            <4>2. CASE alerts' = alerts
                BY <3>2, <4>2 DEF Stamped
            <4>. QED
                BY <2>3, <4>1, <4>2 DEF Intake!Replay, Intake!Refuse, Intake!NotRunning,
                                        Intake!Conflict
        <3>. QED
            BY <1>1, <3>1, <3>2 DEF Stamped
    <2>. QED
        BY <1>3, <2>1, <2>2, <2>3 DEF Intake!ServerStep
<1>4. CASE Intake!Crash \/ Intake!StopMonitor \/ Intake!StartMonitor
    <2>1. UNCHANGED <<alerts, clock>> /\ \A s \in Slots : slot'[s].at \in {0, slot[s].at}
        BY <1>4 DEF Intake!Crash, Intake!StopMonitor, Intake!StartMonitor, Intake!Free
    <2>. QED
        BY <1>1, <2>1 DEF Stamped
<1>5. ASSUME NEW i \in DOMAIN alerts, Intake!WindowEnds(i) \/ Intake!Dismiss(i)
      PROVE  Stamped'
    <2>1. /\ UNCHANGED <<slot, clock>> /\ DOMAIN alerts' = DOMAIN alerts
          /\ \A j \in DOMAIN alerts : alerts'[j].last = alerts[j].last
        <3>1. PICK old : old = alerts[i] /\ old \in AlertRow
            BY DEF IntakeInv, IntakeShapes
        <3>2. PICK row : /\ alerts' = [alerts EXCEPT ![i] = row]
                         /\ \/ row = [old EXCEPT !.fresh = FALSE]
                            \/ row = [old EXCEPT !.status = "dismissed"]
            BY <1>5, <3>1 DEF Intake!WindowEnds, Intake!Dismiss
        <3>3. row.last = old.last
            BY <3>1, <3>2 DEF AlertRow
        <3>4. UNCHANGED <<slot, clock>>
            BY <1>5 DEF Intake!WindowEnds, Intake!Dismiss
        <3>. QED
            BY <3>1, <3>2, <3>3, <3>4
    <2>. QED
        BY <2>1 DEF Stamped
<1>6. CASE UNCHANGED Intake!vars
    BY <1>6 DEF Intake!vars, Intake!client, Intake!server, Stamped
<1>. QED
    BY <1>2, <1>3, <1>4, <1>5, <1>6 DEF Intake!Next

-----------------------------------------------------------------------------
(* Intake of events: the invariant holds *)

\* Nothing is emitted, queued or recorded at the start.
LEMMA IntakeInit ==
    ASSUME IntakeConstants, Intake!Init
    PROVE  IntakeInv /\ Stamped
<1>1. /\ \A t \in Threads : host[t] = [pc |-> "idle", call |-> "none", todo |-> << >>]
      /\ queue = << >> /\ clock = 0 /\ alerts = << >>
      /\ \A s \in Slots : slot[s] = Intake!Free
    BY DEF Intake!Init, Intake!Calm
<1>2. << >> \in Seq(Events) /\ << >> \in Seq(AlertRow) /\ Len(<< >>) = 0 /\ DOMAIN << >> = {}
    OBVIOUS
<1>3. IntakeShapes
    <2>1. host \in [Threads -> Thread] /\ slot \in [Slots -> Request]
        BY <1>2 DEF Intake!Init, Intake!Calm, Thread, Request
    <2>2. Len(queue) <= QueueMax
        BY <1>1, <1>2 DEF IntakeConstants
    <2>. QED
        BY <1>1, <1>2, <2>1, <2>2 DEF IntakeShapes
<1>4. Waited /\ Claimed
    BY <1>1 DEF Waited, Claimed, Intake!Free, IntakeConstants
<1>5. Intake!OneOpenAlert /\ Stamped
    BY <1>1, <1>2 DEF Intake!OneOpenAlert, Stamped, Intake!Free
<1>. QED
    BY <1>3, <1>4, <1>5 DEF IntakeInv

\* Every step keeps the invariant.
LEMMA IntakeStep ==
    ASSUME IntakeInv, Stamped, IntakeConstants, [Intake!Next]_Intake!vars
    PROVE  IntakeInv'
<1>1. ASSUME NEW t \in Threads, Intake!Emit(t) \/ Intake!Flush(t) \/ Intake!HostStep(t)
      PROVE  IntakeInv'
    BY <1>1, Emits, Flushes, Enqueues, Posts DEF Intake!HostStep
<1>2. ASSUME NEW s \in Slots, Intake!ServerStep(s)
      PROVE  IntakeInv'
    BY <1>2, Refusals, Groupings, Commits DEF Intake!ServerStep
<1>3. ASSUME NEW i \in DOMAIN alerts, Intake!WindowEnds(i) \/ Intake!Dismiss(i)
      PROVE  IntakeInv'
    BY <1>3, AlertEnds
<1>4. CASE UNCHANGED Intake!vars
    <2>1. UNCHANGED <<host, queue, slot, rows, alerts, clock>>
        BY <1>4 DEF Intake!vars, Intake!client, Intake!server
    <2>2. IntakeShapes' /\ Waited'
        BY <2>1 DEF IntakeInv, IntakeShapes, Waited
    <2>. QED
        BY <2>1, <2>2, ServerRests DEF IntakeInv
<1>. QED
    BY <1>1, <1>2, <1>3, <1>4, Outage DEF Intake!Next

\* The inductive invariant, for any number of threads.
LEMMA IntakeHolds ==
    ASSUME IntakeConstants
    PROVE  Intake!Spec => [](IntakeInv /\ Stamped)
<1>. SUFFICES ASSUME IntakeConstants PROVE Intake!Spec => [](IntakeInv /\ Stamped)
    OBVIOUS
<1>1. Intake!Init => IntakeInv /\ Stamped
    BY IntakeInit
<1>2. IntakeInv /\ Stamped /\ [Intake!Next]_Intake!vars => IntakeInv' /\ Stamped'
    BY IntakeStep, StampsKeep
<1>. QED
    BY <1>1, <1>2, PTL DEF Intake!Spec

\* The model counts with the standard library's operator.
LEMMA SameCardinality ==
    \A S : Intake!Cardinality(S) = Cardinality(S)
BY DEF Intake!Cardinality, Cardinality, Intake!IsFiniteSet, IsFiniteSet

-----------------------------------------------------------------------------
(* Intake of events: the counts of the alerts *)

\* Sums over the first n numbers of a sequence.
PartialSums(counts, f) ==
    /\ f \in [0..Len(counts) -> Nat] /\ f[0] = 0
    /\ \A n \in 1..Len(counts) : f[n] = f[n - 1] + counts[n]

\* Partial sums exist, by the least length without them.
LEMMA SumsExist ==
    ASSUME NEW counts \in Seq(Nat)
    PROVE  \E f : PartialSums(counts, f)
<1>. PICK N \in Nat : N = Len(counts) /\ DOMAIN counts = 1..N
    BY LenProperties
<1>1. \A n \in 1..N : counts[n] \in Nat
    OBVIOUS
<1>. DEFINE Upto(M, f) == /\ f \in [0..M -> Nat] /\ f[0] = 0
                          /\ \A n \in 1..M : f[n] = f[n - 1] + counts[n]
            without == {M \in 0..N : ~ \E f : Upto(M, f)}
<1>2. CASE without # {}
    <2>1. PICK M \in without : \A L \in without : M <= L
        <3>1. without \in SUBSET Nat
            OBVIOUS
        <3>. HIDE DEF without
        <3>. QED
            BY <1>2, <3>1, LeastNumber
    <2>2. M # 0
        <3>1. Upto(0, [n \in 0..0 |-> 0])
            OBVIOUS
        <3>. QED
            BY <2>1, <3>1
    <2>3. M - 1 \in 0..N /\ M \in 1..N
        BY <2>1, <2>2
    <2>. PICK K \in 0..N : K = M - 1 /\ M = K + 1
        BY <2>3
    <2>4. PICK f : Upto(K, f)
        <3>1. ~ (M <= K)
            BY <2>3
        <3>2. K \notin without
            BY <2>1, <3>1
        <3>. QED
            BY <3>2
    <2>5. PICK h : h = [n \in 0..M |-> IF n = M THEN f[K] + counts[M] ELSE f[n]]
        OBVIOUS
    <2>6. Upto(M, h)
        <3>1. f[K] \in Nat /\ counts[M] \in Nat
            BY <1>1, <2>3, <2>4
        <3>2. h \in [0..M -> Nat] /\ h[0] = 0
            BY <2>3, <2>4, <2>5, <3>1
        <3>3. \A n \in 1..M : h[n] = h[n - 1] + counts[n]
            BY <2>3, <2>4, <2>5
        <3>. QED
            BY <3>2, <3>3
    <2>. QED
        BY <2>1, <2>6
<1>3. CASE without = {}
    <2>1. \E f : Upto(N, f)
        BY <1>3
    <2>. QED
        BY <2>1 DEF PartialSums
<1>. QED
    BY <1>2, <1>3

\* Total is the last of the partial sums, whichever function gives them.
LEMMA TotalIsLast ==
    ASSUME NEW counts \in Seq(Nat), NEW f, PartialSums(counts, f)
    PROVE  Intake!Total(counts) = f[Len(counts)]
<1>. PICK N \in Nat : N = Len(counts) /\ DOMAIN counts = 1..N
    BY LenProperties
<1>. DEFINE Rec(h) == h = [n \in 0..N |-> IF n = 0 THEN 0 ELSE h[n - 1] + counts[n]]
            total == CHOOSE h : Rec(h)
<1>1. Rec(f)
    <2>1. \A n \in 0..N : f[n] = IF n = 0 THEN 0 ELSE f[n - 1] + counts[n]
        BY DEF PartialSums
    <2>. QED
        BY <2>1 DEF PartialSums
<1>2. Rec(total)
    <2>. HIDE DEF Rec
    <2>. QED
        BY <1>1
<1>3. Intake!Total(counts) = total[N]
    BY Zenon DEF Intake!Total
<1>4. \A n \in 0..N : total[n] = f[n]
    <2>. PICK t : t = total
        OBVIOUS
    <2>1. \A n \in 0..N : t[n] = IF n = 0 THEN 0 ELSE t[n - 1] + counts[n]
        <3>1. Rec(t)
            BY <1>2
        <3>. QED
            BY <3>1
    <2>. DEFINE apart == {n \in 0..N : t[n] # f[n]}
    <2>2. CASE apart # {}
        <3>1. PICK n \in apart : \A m \in apart : n <= m
            <4>1. apart \in SUBSET Nat
                OBVIOUS
            <4>. HIDE DEF apart
            <4>. QED
                BY <2>2, <4>1, LeastNumber
        <3>2. n \in 1..N
            BY <2>1, <3>1, SMTT(30) DEF PartialSums
        <3>3. t[n - 1] = f[n - 1]
            BY <3>1, <3>2
        <3>. QED
            BY <2>1, <3>1, <3>2, <3>3 DEF PartialSums
    <2>. QED
        BY <2>2
<1>. QED
    BY <1>3, <1>4

\* One more in either part is one more in the sum.
LEMMA OneMore ==
    ASSUME NEW a \in Nat, NEW b \in Nat
    PROVE  (a + b) + 1 = (a + 1) + b /\ (a + b) + 1 = a + (b + 1)
OBVIOUS

\* How a position and the next one stand to a third.
LEMMA NextPosition ==
    ASSUME NEW k \in Int, NEW n \in Int, NEW i \in Int, n = k + 1
    PROVE  /\ k >= i => n >= i /\ n # i
           /\ n = i => n >= i /\ ~ (k >= i)
           /\ ~ (k >= i) /\ n # i => ~ (n >= i)
OBVIOUS

\* A count more at the end, and one count raised.
LEMMA TotalsGrow ==
    ASSUME NEW counts \in Seq(Nat)
    PROVE  /\ Intake!Total(counts) \in Nat
           /\ \A x \in Nat : Intake!Total(Append(counts, x)) = Intake!Total(counts) + x
           /\ \A i \in DOMAIN counts :
                 Intake!Total([counts EXCEPT ![i] = counts[i] + 1]) = Intake!Total(counts) + 1
<1>. PICK N \in Nat : N = Len(counts) /\ DOMAIN counts = 1..N
    BY LenProperties
<1>1. PICK f : PartialSums(counts, f)
    BY SumsExist
<1>2. Intake!Total(counts) = f[N] /\ f[N] \in Nat
    BY <1>1, TotalIsLast DEF PartialSums
<1>3. ASSUME NEW x \in Nat
      PROVE  Intake!Total(Append(counts, x)) = Intake!Total(counts) + x
    <2>1. PICK c : c = Append(counts, x)
        OBVIOUS
    <2>2. /\ c \in Seq(Nat) /\ Len(c) = N + 1 /\ c[N + 1] = x
          /\ \A n \in 1..N : c[n] = counts[n]
        BY <2>1, AppendProperties
    <2>3. PICK h : h = [n \in 0..(N + 1) |-> IF n = N + 1 THEN f[N] + x ELSE f[n]]
        OBVIOUS
    <2>4. PartialSums(c, h)
        BY <1>1, <1>2, <2>2, <2>3 DEF PartialSums
    <2>5. Intake!Total(c) = h[N + 1]
        BY <2>2, <2>4, TotalIsLast
    <2>. QED
        BY <1>2, <2>1, <2>3, <2>5
<1>4. ASSUME NEW i \in DOMAIN counts
      PROVE  Intake!Total([counts EXCEPT ![i] = counts[i] + 1]) = Intake!Total(counts) + 1
    <2>1. PICK c : c = [counts EXCEPT ![i] = counts[i] + 1]
        OBVIOUS
    <2>2. /\ c \in Seq(Nat) /\ Len(c) = N
          /\ \A n \in 1..N : c[n] = IF n = i THEN counts[n] + 1 ELSE counts[n]
        <3>1. counts[i] + 1 \in Nat /\ i \in 1..Len(counts)
            OBVIOUS
        <3>. QED
            BY <2>1, <3>1, ExceptSeq
    <2>3. PICK h : h = [n \in 0..N |-> IF n >= i THEN f[n] + 1 ELSE f[n]]
        OBVIOUS
    <2>4. PartialSums(c, h)
        <3>1. h \in [0..N -> Nat] /\ h[0] = 0
            BY <1>1, <2>3 DEF PartialSums
        <3>2. ASSUME NEW n \in 1..N PROVE h[n] = h[n - 1] + c[n]
            <4>1. n - 1 \in 0..N /\ n \in 0..N /\ counts[n] \in Nat
                OBVIOUS
            <4>2. PICK k \in 0..N, a \in Nat, b \in Nat :
                      k = n - 1 /\ n = k + 1 /\ a = f[k] /\ b = counts[n] /\ f[n] = a + b
                BY <1>1, <4>1, SMTT(30) DEF PartialSums
            <4>3. c[n] = IF n = i THEN b + 1 ELSE b
                BY <2>2, <4>2
            <4>4. h[k] = (IF k >= i THEN a + 1 ELSE a)
                  /\ h[n] = (IF n >= i THEN (a + b) + 1 ELSE a + b)
                BY <2>3, <4>1, <4>2
            <4>5. /\ k >= i => n >= i /\ n # i
                  /\ n = i => n >= i /\ ~ (k >= i)
                  /\ ~ (k >= i) /\ n # i => ~ (n >= i)
                <5>1. k \in Int /\ n \in Int /\ i \in Int /\ n = k + 1
                    BY <4>2
                <5>. QED
                    BY <5>1, NextPosition
            <4>6. (a + b) + 1 = (a + 1) + b /\ (a + b) + 1 = a + (b + 1)
                BY <4>2, OneMore
            <4>7. CASE k >= i
                <5>1. n >= i /\ n # i
                    BY <4>5, <4>7
                <5>2. h[k] = a + 1 /\ h[n] = (a + b) + 1 /\ c[n] = b
                    BY <4>3, <4>4, <4>7, <5>1
                <5>. QED
                    BY <4>2, <4>6, <5>2
            <4>8. CASE n = i
                <5>1. n >= i /\ ~ (k >= i)
                    BY <4>5, <4>8
                <5>2. h[k] = a /\ h[n] = (a + b) + 1 /\ c[n] = b + 1
                    BY <4>3, <4>4, <4>8, <5>1
                <5>. QED
                    BY <4>2, <4>6, <5>2
            <4>9. CASE ~ (k >= i) /\ n # i
                <5>1. ~ (n >= i)
                    BY <4>5, <4>9
                <5>2. h[k] = a /\ h[n] = a + b /\ c[n] = b
                    BY <4>3, <4>4, <4>9, <5>1
                <5>. QED
                    BY <4>2, <5>2
            <4>. QED
                BY <4>7, <4>8, <4>9
        <3>. QED
            BY <2>2, <3>1, <3>2 DEF PartialSums
    <2>5. Intake!Total(c) = h[N]
        BY <2>2, <2>4, TotalIsLast
    <2>. QED
        BY <1>2, <2>1, <2>3, <2>5
<1>. QED
    BY <1>2, <1>3, <1>4

\* The repeats of each group add up to its recorded events, and a request that is about to
\* repeat an alert repeats one of its event's group.
Counted ==
    /\ IsFiniteSet(rows)
    /\ Intake!CountedOnce
    /\ \A s \in Slots : slot[s].pc = "grouped" /\ slot[s].alert # 0 =>
          alerts[slot[s].alert].group = GroupOf[slot[s].e]

\* Rows and counts are as they were, and requests that group are, or fewer.
LEMMA CountsRest ==
    ASSUME Counted, rows' = rows, DOMAIN alerts' = DOMAIN alerts,
           \A i \in DOMAIN alerts : /\ alerts'[i].group = alerts[i].group
                                    /\ alerts'[i].count = alerts[i].count,
           \A r \in Slots : slot'[r].pc = "grouped" =>
               slot[r].pc = "grouped" /\ slot'[r].e = slot[r].e /\ slot'[r].alert = slot[r].alert,
           IntakeInv
    PROVE  Counted'
<1>1. ASSUME NEW g PROVE Intake!Repeats(g)' = Intake!Repeats(g)
    BY DEF Intake!Repeats
<1>2. Intake!CountedOnce'
    BY <1>1 DEF Counted, Intake!CountedOnce
<1>3. ASSUME NEW r \in Slots, slot'[r].pc = "grouped", slot'[r].alert # 0
      PROVE  alerts'[slot'[r].alert].group = GroupOf[slot'[r].e]
    <2>1. slot[r].alert \in DOMAIN alerts
        BY <1>3 DEF IntakeInv, Claimed
    <2>. QED
        BY <1>3, <2>1 DEF Counted
<1>. QED
    BY <1>2, <1>3 DEF Counted

\* The counts of a group's alerts are numbers.
LEMMA RepeatsAreCounts ==
    ASSUME NEW before \in Seq(AlertRow), NEW g
    PROVE  [i \in DOMAIN before |-> IF before[i].group = g THEN before[i].count ELSE 0] \in Seq(Nat)
<1>1. PICK n \in Nat : n = Len(before) /\ DOMAIN before = 1..n
    BY LenProperties
<1>2. \A i \in DOMAIN before : before[i].count \in Nat
    <2>1. \A i \in DOMAIN before : before[i] \in AlertRow
        BY <1>1
    <2>. QED
        BY <2>1 DEF AlertRow
<1>. QED
    BY <1>1, <1>2

\* The row of the event and the count of its alert are written together.
LEMMA CommitCounts ==
    ASSUME IntakeInv, Counted, IntakeConstants, NEW s \in Slots, Intake!Commit(s)
    PROVE  Counted'
<1>1. PICK q : /\ q = slot[s]
               /\ q \in [pc : {"grouped"}, e : Events, t : Threads \cup {None}, at : Nat, alert : Nat]
    <2>1. slot[s] \in Request /\ slot[s].pc = "grouped"
        BY DEF IntakeInv, IntakeShapes, Intake!Commit
    <2>. QED
        BY <2>1 DEF Request, Intake!Free
<1>2. PICK before : before = alerts /\ before \in Seq(AlertRow)
    BY DEF IntakeInv, IntakeShapes
<1>3. PICK after : after = alerts' /\ after = Intake!Recorded(s)
    BY DEF Intake!Commit
<1>4. q.e \notin rows /\ rows' = rows \cup {q.e} /\ q.e \in Events
    BY <1>1 DEF Intake!Commit
<1>. DEFINE counts(rs, g) == [i \in DOMAIN rs |-> IF rs[i].group = g THEN rs[i].count ELSE 0]
<1>5. ASSUME NEW g
      PROVE  Intake!Total(counts(after, g))
                 = Intake!Total(counts(before, g)) + IF GroupOf[q.e] = g THEN 1 ELSE 0
    <2>0. PICK old : old = counts(before, g)
        OBVIOUS
    <2>1. old = counts(before, g) /\ old \in Seq(Nat) /\ DOMAIN old = DOMAIN before
        BY <1>2, <2>0, RepeatsAreCounts
    <2>2. CASE q.alert = 0
        <3>1. PICK row : row = [group |-> GroupOf[q.e], count |-> 1, last |-> q.at, fresh |-> TRUE,
                                status |-> "new"]
            OBVIOUS
        <3>2. after = Append(before, row) /\ row \in AlertRow
            BY <1>1, <1>2, <1>3, <2>2, <3>1 DEF Intake!Recorded, AlertRow, IntakeConstants
        <3>3. PICK x \in Nat : x = IF GroupOf[q.e] = g THEN 1 ELSE 0
            OBVIOUS
        <3>4. PICK n \in Nat : n = Len(before) /\ DOMAIN before = 1..n
            BY <1>2, LenProperties
        <3>5. /\ DOMAIN after = 1..(n + 1) /\ after[n + 1] = row
              /\ \A i \in 1..n : after[i] = before[i]
            BY <1>2, <3>2, <3>4, AppendProperties, LenProperties
        <3>6. counts(after, g) = [i \in 1..(n + 1) |-> IF i = n + 1 THEN x ELSE old[i]]
            BY <2>1, <3>1, <3>3, <3>4, <3>5
        <3>7. Append(old, x) = [i \in 1..(n + 1) |-> IF i = n + 1 THEN x ELSE old[i]]
            BY <2>1, <3>4
        <3>8. Intake!Total(Append(old, x)) = Intake!Total(old) + x
            BY <2>1, TotalsGrow
        <3>. QED
            BY <2>1, <3>3, <3>6, <3>7, <3>8
    <2>3. CASE q.alert # 0
        <3>1. PICK i : i = q.alert /\ i \in DOMAIN before /\ before[i].group = GroupOf[q.e]
            BY <1>1, <1>2, <2>3 DEF IntakeInv, Claimed, Counted
        <3>2. PICK was : was = before[i] /\ was \in AlertRow
            BY <1>2, <3>1
        <3>3. PICK row : /\ row = [was EXCEPT !.count = @ + 1, !.fresh = TRUE,
                                              !.last = IF q.at > @ THEN q.at ELSE @]
            OBVIOUS
        <3>4. row.group = was.group /\ row.count = was.count + 1
            BY <3>2, <3>3 DEF AlertRow
        <3>5. after = [before EXCEPT ![i] = row]
            BY <1>1, <1>2, <1>3, <2>3, <3>1, <3>2, <3>3 DEF Intake!Recorded
        <3>6. counts(after, g) = IF GroupOf[q.e] = g THEN [old EXCEPT ![i] = old[i] + 1] ELSE old
            BY <2>1, <3>1, <3>2, <3>4, <3>5
        <3>7. Intake!Total([old EXCEPT ![i] = old[i] + 1]) = Intake!Total(old) + 1
              /\ Intake!Total(old) \in Nat
            BY <2>1, <3>1, TotalsGrow
        <3>. QED
            BY <2>1, <3>6, <3>7
    <2>. QED
        BY <1>1, <2>2, <2>3
<1>6. ASSUME NEW g
      PROVE  Cardinality({e \in rows' : GroupOf[e] = g})
                 = Cardinality({e \in rows : GroupOf[e] = g}) + IF GroupOf[q.e] = g THEN 1 ELSE 0
    <2>1. PICK of : of = {e \in rows : GroupOf[e] = g}
        OBVIOUS
    <2>2. IsFiniteSet(of) /\ q.e \notin of
        BY <1>4, <2>1, FS_Subset DEF Counted
    <2>3. {e \in rows' : GroupOf[e] = g} = IF GroupOf[q.e] = g THEN of \cup {q.e} ELSE of
        BY <1>4, <2>1
    <2>4. Cardinality(of \cup {q.e}) = Cardinality(of) + 1 /\ Cardinality(of) \in Nat
        BY <2>2, FS_AddElement, FS_CardinalityType
    <2>5. CASE GroupOf[q.e] = g
        BY <2>1, <2>3, <2>4, <2>5
    <2>6. CASE GroupOf[q.e] # g
        BY <2>1, <2>3, <2>4, <2>6
    <2>. QED
        BY <2>5, <2>6
<1>7. Intake!CountedOnce'
    <2>1. ASSUME NEW g \in Groups
          PROVE  Intake!Total(Intake!Repeats(g))' = Intake!Cardinality({e \in rows : GroupOf[e] = g})'
        <3>1. Intake!Repeats(g) = counts(before, g) /\ Intake!Repeats(g)' = counts(after, g)
            BY <1>2, <1>3 DEF Intake!Repeats
        <3>2. Intake!Total(counts(before, g)) = Cardinality({e \in rows : GroupOf[e] = g})
            BY <3>1, SameCardinality DEF Counted, Intake!CountedOnce
        <3>. PICK add : add = IF GroupOf[q.e] = g THEN 1 ELSE 0
            OBVIOUS
        <3>3. Intake!Total(counts(after, g)) = Cardinality({e \in rows : GroupOf[e] = g}) + add
            BY <1>5, <3>2
        <3>4. Cardinality({e \in rows' : GroupOf[e] = g})
                  = Cardinality({e \in rows : GroupOf[e] = g}) + add
            BY <1>6
        <3>5. Intake!Total(Intake!Repeats(g))' = Intake!Total(counts(after, g))
            BY <3>1
        <3>6. Intake!Cardinality({e \in rows : GroupOf[e] = g})'
                  = Cardinality({e \in rows' : GroupOf[e] = g})
            BY SameCardinality
        <3>. QED
            BY <3>3, <3>4, <3>5, <3>6
    <2>. QED
        BY <2>1 DEF Intake!CountedOnce
<1>8. IsFiniteSet(rows')
    BY <1>4, FS_AddElement DEF Counted
<1>9. ASSUME NEW r \in Slots PROVE slot'[r].pc # "grouped"
    <2>1. slot' = [slot EXCEPT ![s] = Intake!Free]
        BY DEF Intake!Commit, Intake!Close
    <2>2. slot'[r] = IF r = s THEN Intake!Free ELSE slot[r]
        BY <2>1 DEF IntakeInv, IntakeShapes
    <2>. QED
        BY <1>1, <2>2 DEF Intake!Free, IntakeInv, Claimed
<1>. QED
    BY <1>7, <1>8, <1>9 DEF Counted

\* Every step keeps the counts.
LEMMA CountsKeep ==
    ASSUME IntakeInv, Counted, IntakeConstants, [Intake!Next]_Intake!vars
    PROVE  Counted'
<1>1. ASSUME NEW t \in Threads, Intake!Emit(t) \/ Intake!Flush(t) \/ Intake!HostStep(t)
      PROVE  Counted'
    <2>1. UNCHANGED <<rows, alerts>>
        BY <1>1 DEF Intake!Emit, Intake!Flush, Intake!HostStep, Intake!Clear, Intake!Post,
                    Intake!Unreachable, Intake!GiveUp, Intake!CountEviction, Intake!Enqueue,
                    Intake!server
    <2>2. \A r \in Slots : slot'[r].pc = "grouped" =>
              slot[r].pc = "grouped" /\ slot'[r].e = slot[r].e /\ slot'[r].alert = slot[r].alert
        <3>1. CASE Intake!Post(t)
            <4>1. PICK new, r : /\ slot' = [slot EXCEPT ![new] = r]
                                /\ r = [Intake!Free EXCEPT !.pc = "arrived",
                                                           !.e = Head(host[t].todo), !.t = t]
                BY <3>1 DEF Intake!Post
            <4>2. r.pc = "arrived"
                BY <4>1 DEF Intake!Free
            <4>3. \A v \in Slots : slot'[v] = r \/ slot'[v] = slot[v]
                BY <4>1 DEF IntakeInv, IntakeShapes
            <4>. QED
                BY <4>2, <4>3
        <3>2. CASE Intake!GiveUp(t)
            <4>1. ASSUME NEW v \in Slots
                  PROVE  /\ slot'[v].pc = slot[v].pc /\ slot'[v].e = slot[v].e
                         /\ slot'[v].alert = slot[v].alert
                <5>1. slot'[v] = slot[v] \/ slot'[v] = [slot[v] EXCEPT !.t = None]
                    BY <3>2 DEF Intake!GiveUp
                <5>2. slot[v] \in Request
                    BY DEF IntakeInv, IntakeShapes
                <5>. QED
                    BY <5>1, <5>2 DEF Request, Intake!Free
            <4>. QED
                BY <4>1
        <3>3. CASE slot' = slot
            BY <3>3
        <3>. QED
            BY <1>1, <3>1, <3>2, <3>3
               DEF Intake!Emit, Intake!Flush, Intake!HostStep, Intake!Clear, Intake!Unreachable,
                   Intake!CountEviction, Intake!Enqueue, Intake!server
    <2>. QED
        BY <2>1, <2>2, CountsRest
<1>2. ASSUME NEW s \in Slots, Intake!ServerStep(s)
      PROVE  Counted'
    <2>1. CASE Intake!Begin(s)
        <3>1. /\ UNCHANGED <<rows, alerts>>
              /\ slot' = [slot EXCEPT ![s].pc = "begun", ![s].at = clock + 1]
            BY <2>1 DEF Intake!Begin
        <3>2. slot[s] \in Request /\ slot[s].pc = "arrived"
            BY <2>1 DEF IntakeInv, IntakeShapes, Intake!Begin
        <3>3. slot'[s].pc = "begun" /\ \A r \in Slots : r # s => slot'[r] = slot[r]
            BY <3>1, <3>2 DEF IntakeInv, IntakeShapes, Request, Intake!Free
        <3>. QED
            BY <3>1, <3>3, CountsRest
    <2>2. CASE Intake!Group(s)
        <3>1. PICK a : a = Intake!Candidate(GroupOf[slot[s].e])
            OBVIOUS
        <3>2. /\ UNCHANGED <<rows, alerts>> /\ slot[s].pc = "begun"
              /\ slot' = [slot EXCEPT ![s].pc = "grouped", ![s].alert = a]
            BY <2>2, <3>1 DEF Intake!Group, Intake!client
        <3>3. slot'[s].e = slot[s].e /\ slot'[s].alert = a
              /\ \A r \in Slots : r # s => slot'[r] = slot[r]
            <4>1. slot[s] \in Request
                BY DEF IntakeInv, IntakeShapes
            <4>. QED
                BY <3>2, <4>1 DEF IntakeInv, IntakeShapes, Request, Intake!Free
        <3>4. a # 0 => alerts[a].group = GroupOf[slot[s].e]
            <4>1. PICK latest : latest = Intake!LatestFresh(GroupOf[slot[s].e])
                OBVIOUS
            <4>2. a = 0 \/ a \in latest
                <5>1. CASE \E i \in latest : alerts[i].status # "dismissed"
                    <6>1. a = CHOOSE i \in latest : TRUE
                        BY <3>1, <4>1, <5>1 DEF Intake!Candidate
                    <6>. QED
                        BY <5>1, <6>1
                <5>2. CASE ~ \E i \in latest : alerts[i].status # "dismissed"
                    BY <3>1, <4>1, <5>2 DEF Intake!Candidate
                <5>. QED
                    BY <5>1, <5>2
            <4>. QED
                BY <4>1, <4>2 DEF Intake!LatestFresh, Intake!InGroup
        <3>5. Intake!CountedOnce'
            BY <3>2 DEF Counted, Intake!CountedOnce, Intake!Repeats
        <3>. QED
            BY <3>2, <3>3, <3>4, <3>5 DEF Counted
    <2>3. CASE \/ Intake!Replay(s) \/ Intake!Refuse(s) \/ Intake!NotRunning(s)
               \/ Intake!Conflict(s)
        <3>1. UNCHANGED <<rows, alerts>> /\ slot' = [slot EXCEPT ![s] = Intake!Free]
            BY <2>3 DEF Intake!Replay, Intake!Refuse, Intake!NotRunning, Intake!Conflict,
                        Intake!Close
        <3>2. \A r \in Slots : slot'[r] = slot[r] \/ slot'[r] = Intake!Free
            BY <3>1 DEF IntakeInv, IntakeShapes
        <3>3. Intake!Free.pc # "grouped"
            BY DEF Intake!Free
        <3>. QED
            BY <3>1, <3>2, <3>3, CountsRest
    <2>. QED
        BY <1>2, <2>1, <2>2, <2>3, CommitCounts DEF Intake!ServerStep
<1>3. CASE Intake!Crash \/ Intake!StopMonitor \/ Intake!StartMonitor
    <2>1. /\ UNCHANGED <<rows, alerts>>
          /\ \A r \in Slots : slot'[r] = slot[r] \/ slot'[r] = Intake!Free
        BY <1>3 DEF Intake!Crash, Intake!StopMonitor, Intake!StartMonitor, Intake!client
    <2>2. Intake!Free.pc # "grouped"
        BY DEF Intake!Free
    <2>. QED
        BY <2>1, <2>2, CountsRest
<1>4. ASSUME NEW i \in DOMAIN alerts, Intake!WindowEnds(i) \/ Intake!Dismiss(i)
      PROVE  Counted'
    <2>1. PICK old : old = alerts[i] /\ old \in AlertRow
        BY DEF IntakeInv, IntakeShapes
    <2>2. PICK row : /\ alerts' = [alerts EXCEPT ![i] = row]
                     /\ \/ row = [old EXCEPT !.fresh = FALSE]
                        \/ row = [old EXCEPT !.status = "dismissed"]
        BY <1>4, <2>1 DEF Intake!WindowEnds, Intake!Dismiss
    <2>3. row.group = old.group /\ row.count = old.count
        BY <2>1, <2>2 DEF AlertRow
    <2>4. UNCHANGED <<slot, rows>>
        BY <1>4 DEF Intake!WindowEnds, Intake!Dismiss
    <2>5. /\ DOMAIN alerts' = DOMAIN alerts
          /\ \A j \in DOMAIN alerts : /\ alerts'[j].group = alerts[j].group
                                      /\ alerts'[j].count = alerts[j].count
        BY <2>1, <2>2, <2>3
    <2>. QED
        BY <2>4, <2>5, CountsRest
<1>5. CASE UNCHANGED Intake!vars
    <2>1. UNCHANGED <<slot, rows, alerts>>
        BY <1>5 DEF Intake!vars, Intake!server
    <2>. QED
        BY <2>1, CountsRest
<1>. QED
    BY <1>1, <1>2, <1>3, <1>4, <1>5 DEF Intake!Next

\* Nothing is recorded or counted at the start.
LEMMA CountsInit ==
    ASSUME Intake!Init
    PROVE  Counted
<1>1. rows = {} /\ alerts = << >> /\ \A s \in Slots : slot[s].pc # "grouped"
    BY DEF Intake!Init, Intake!Free
<1>2. << >> \in Seq(Nat) /\ Len(<< >>) = 0
    OBVIOUS
<1>3. ASSUME NEW g PROVE Intake!Total(Intake!Repeats(g)) = 0
    <2>1. Intake!Repeats(g) = << >>
        BY <1>1 DEF Intake!Repeats
    <2>2. PICK f : PartialSums(<< >>, f)
        BY <1>2, SumsExist
    <2>3. Intake!Total(<< >>) = f[0] /\ f[0] = 0
        BY <1>2, <2>2, TotalIsLast DEF PartialSums
    <2>. QED
        BY <2>1, <2>3
<1>4. ASSUME NEW g PROVE Intake!Cardinality({e \in rows : GroupOf[e] = g}) = 0
    <2>1. {e \in rows : GroupOf[e] = g} = {}
        BY <1>1
    <2>. QED
        BY <2>1, SameCardinality, FS_EmptySet
<1>. QED
    BY <1>1, <1>3, <1>4, FS_EmptySet DEF Counted, Intake!CountedOnce

-----------------------------------------------------------------------------
(* Intake of events: the theorem *)

\* However often an event is sent and however many of its requests the receiver works on at
\* once, the repeat counts of a group's alerts add up to the group's recorded events.  And two
\* open alerts of a group within the window exist only where a person dismissed one of the
\* group: the claim of the group and the lock on the monitor's row order the first events of
\* a group (live_alert_grouping_service, find_open_alert and register_recurrence).
THEOREM EventsGroupedOnce ==
    ASSUME IntakeConstants
    PROVE  Intake!Spec => []GroupedOnce
<1>. SUFFICES ASSUME IntakeConstants PROVE Intake!Spec => []GroupedOnce
    OBVIOUS
<1>1. Intake!Init => Counted
    BY CountsInit
<1>2. IntakeInv /\ Counted /\ [Intake!Next]_Intake!vars => Counted'
    BY CountsKeep
<1>3. IntakeInv /\ Counted => GroupedOnce
    BY DEF IntakeInv, Counted, GroupedOnce
<1>. QED
    BY <1>1, <1>2, <1>3, IntakeHolds, PTL DEF Intake!Spec
=============================================================================
