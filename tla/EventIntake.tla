----------------------------- MODULE EventIntake -----------------------------
(***************************************************************************)
(* The runtime connector (connectors/runtime), which lives in the process  *)
(* of an observed application, the network between it and the receiver,    *)
(* the receiver (connector_ingest_service, siem_import_service.            *)
(* ingest_event, live_monitor_service.process_event) and the grouping of   *)
(* live alerts (live_alert_grouping_service).                              *)
(*                                                                         *)
(* The connector gives up on a request after five seconds whether or not   *)
(* the receiver is still working on it, keeps the event in a bounded       *)
(* queue and sends it again with the next flush: the same event can be in  *)
(* two requests at once.  A receiver that dies with the request pending    *)
(* breaks the connection, which _post() does not catch: the exception ends *)
(* the call.  The receiver knows an event by the pair (token's source      *)
(* name, envelope id), here a member of Events.                            *)
(*                                                                         *)
(* A request is three steps, because other transactions commit between     *)
(* them: the replay lookup with the checks that need no lock, the grouping *)
(* under the advisory lock of the alert group (held to the end of the      *)
(* transaction), and the flush of the event row with the commit.  From the *)
(* update of the monitor's one state row, after the stamp of received_at,  *)
(* to the commit a request is alone at the receiver, whatever its group.   *)
(***************************************************************************)
EXTENDS Naturals, FiniteSets, Sequences, Functions

CONSTANTS Threads,      \* threads of the host that call emit() and flush()
          Slots,        \* requests the receiver works on at once
          Events,       \* the events the host emits, once each
          Unsafe,       \* those the local scan drops (privacy_drop)
          Residual,     \* those the receiver refuses with 422
          Groups,       \* alert groups
          GroupOf,      \* [Events -> Groups]: compute_group_key of an event
          QueueMax,     \* queue_max of the connector
          MaxFlushes,   \* bound: calls of flush()
          MaxAlerts,    \* bound: alert rows
          MaxOutages,   \* bound: crashes of the receiver, stops of the monitor
          None

VARIABLES
  host,       \* what each thread is doing: pc, the call it is in, events still to post
  queue,      \* RuntimeConnector._queue, a deque with a maxlen
  dropped,    \* RuntimeConnector._dropped, what health() reports
  emitted,    \* the events handed to emit() so far
  slot,       \* the transaction of each request at the receiver
  rows,       \* integration_events, unique on (source_name, client_event_id)
  alerts,     \* privacy_alerts, in order of creation
  clock,      \* received_at stamps handed out
  running,    \* the live monitor is started
  flushes, outages

client == <<host, queue, dropped, emitted, flushes>>
server == <<slot, rows, alerts, clock, running, outages>>
vars   == <<client, server>>

Calm == [pc |-> "idle", call |-> "none", todo |-> <<>>]
Free == [pc |-> "free", e |-> None, t |-> None, at |-> 0, alert |-> 0]

Init == /\ host = [t \in Threads |-> Calm] /\ queue = <<>> /\ dropped = 0
        /\ emitted = {} /\ flushes = 0
        /\ slot = [s \in Slots |-> Free] /\ rows = {} /\ alerts = <<>> /\ clock = 0
        /\ running = TRUE /\ outages = 0

(***************************************************************************)
(* The connector.                                                          *)
(***************************************************************************)
\* emit(): the local scan drops the event, or it is posted at once.
Emit(t) ==
  /\ host[t].pc = "idle"
  /\ \E e \in Events \ emitted :
       /\ emitted' = emitted \union {e}
       /\ IF e \in Unsafe
          THEN dropped' = dropped + 1 /\ UNCHANGED host
          ELSE host' = [host EXCEPT ![t] = [pc |-> "post", call |-> "emit", todo |-> <<e>>]] /\ UNCHANGED dropped
  /\ UNCHANGED <<queue, flushes, server>>

\* flush() copies the queue and empties it: two statements, between which
\* another thread may append.
Flush(t) ==
  /\ host[t].pc = "idle" /\ queue # <<>> /\ flushes < MaxFlushes
  /\ host' = [host EXCEPT ![t] = [pc |-> "clear", call |-> "flush", todo |-> queue]]
  /\ flushes' = flushes + 1
  /\ UNCHANGED <<queue, dropped, emitted, server>>

Clear(t) ==
  /\ host[t].pc = "clear"
  /\ queue' = <<>> /\ host' = [host EXCEPT ![t].pc = "post"]
  /\ UNCHANGED <<dropped, emitted, flushes, server>>

\* _post: the request reaches the receiver ...
FreeSlots == {s \in Slots : slot[s] = Free}

Post(t) ==
  /\ host[t].pc = "post" /\ FreeSlots # {}
  /\ LET s == CHOOSE f \in FreeSlots : TRUE IN
       slot' = [slot EXCEPT ![s] = [Free EXCEPT !.pc = "arrived", !.e = Head(host[t].todo), !.t = t]]
  /\ host' = [host EXCEPT ![t].pc = "await"]
  /\ UNCHANGED <<queue, dropped, emitted, flushes, rows, alerts, clock, running, outages>>

\* ... or does not (URLError) ...
Unreachable(t) ==
  /\ host[t].pc = "post"
  /\ host' = [host EXCEPT ![t].pc = "failed"]
  /\ UNCHANGED <<queue, dropped, emitted, flushes, server>>

\* ... or is not answered in time.  The receiver keeps working on it.
GiveUp(t) ==
  /\ host[t].pc = "await"
  /\ host' = [host EXCEPT ![t].pc = "failed"]
  /\ slot' = [s \in Slots |-> IF slot[s].t = t THEN [slot[s] EXCEPT !.t = None] ELSE slot[s]]
  /\ UNCHANGED <<queue, dropped, emitted, flushes, rows, alerts, clock, running, outages>>

\* What a thread does next once the event at the head of todo is done with.
Onward(h) == IF Len(h.todo) = 1 THEN Calm ELSE [h EXCEPT !.pc = "post", !.todo = Tail(@)]

\* _enqueue counts the event the append is about to push out ...
CountEviction(t) ==
  /\ host[t].pc = "failed"
  /\ dropped' = IF Len(queue) = QueueMax THEN dropped + 1 ELSE dropped
  /\ host' = [host EXCEPT ![t].pc = "append"]
  /\ UNCHANGED <<queue, emitted, flushes, server>>

\* ... and appends; a deque with a maxlen loses its oldest element.
Kept == IF Len(queue) = QueueMax THEN Tail(queue) ELSE queue

RetryAtOnce(t) ==                           \* Fault: sends again instead of putting back
  /\ host[t].pc = "append"
  /\ host' = [host EXCEPT ![t].pc = "post"]
  /\ UNCHANGED <<queue, dropped, emitted, flushes, server>>

Enqueue(t) ==
  /\ host[t].pc = "append"
  /\ queue' = Append(Kept, Head(host[t].todo))
  /\ host' = [host EXCEPT ![t] = Onward(host[t])]
  /\ UNCHANGED <<dropped, emitted, flushes, server>>

(***************************************************************************)
(* The receiver answers the thread that still waits, if there is one.      *)
(***************************************************************************)
Waiting(s) == {t \in Threads : slot[s].t = t}

Answer(s, ok) ==
  host' = [t \in Threads |-> IF t \notin Waiting(s) THEN host[t]
                             ELSE IF ok THEN Onward(host[t]) ELSE [host[t] EXCEPT !.pc = "failed"]]

Close(s) == slot' = [slot EXCEPT ![s] = Free]

\* The event is already a row: status "duplicate".
Replay(s) ==
  /\ slot[s].pc = "arrived" /\ slot[s].e \in rows
  /\ Answer(s, TRUE) /\ Close(s)
  /\ UNCHANGED <<queue, dropped, emitted, flushes, rows, alerts, clock, running, outages>>

\* privacy_gate: 422.  _post counts the event as dropped, and emit() and
\* flush() enqueue it all the same.
Refuse(s) ==
  /\ slot[s].pc = "arrived" /\ slot[s].e \notin rows /\ slot[s].e \in Residual
  /\ Answer(s, FALSE) /\ Close(s)
  /\ dropped' = IF Waiting(s) = {} THEN dropped ELSE dropped + 1
  /\ UNCHANGED <<queue, emitted, flushes, rows, alerts, clock, running, outages>>

\* LiveMonitorNotRunningError: 409.
NotRunning(s) ==
  /\ slot[s].pc = "arrived" /\ slot[s].e \notin rows \union Residual /\ ~running
  /\ Answer(s, FALSE) /\ Close(s)
  /\ UNCHANGED <<queue, dropped, emitted, flushes, rows, alerts, clock, running, outages>>

\* process_event begins and stamps received_at.
Begin(s) ==
  /\ slot[s].pc = "arrived" /\ slot[s].e \notin rows \union Residual /\ running
  /\ clock' = clock + 1
  /\ slot' = [slot EXCEPT ![s].pc = "begun", ![s].at = clock + 1]
  /\ UNCHANGED <<client, rows, alerts, running, outages>>

(***************************************************************************)
(* Grouping.  record_event_received has updated the row of the monitor's   *)
(* state and acquire_group_claim taken the lock of the group: no other     *)
(* request groups an event until this one commits.  find_open_alert takes  *)
(* the alert of the group seen last within the window and gives it up if   *)
(* it was dismissed, in which case a new alert is created.                 *)
(***************************************************************************)
InGroup(g) == {i \in DOMAIN alerts : alerts[i].group = g}

Alone == \A s \in Slots : slot[s].pc # "grouped"

LatestFresh(g) == {i \in InGroup(g) : /\ alerts[i].fresh
                                      /\ \A j \in InGroup(g) : alerts[j].fresh => alerts[j].last <= alerts[i].last}

\* The alert the event attaches to, 0 for a new one.
Candidate(g) == IF \E i \in LatestFresh(g) : alerts[i].status # "dismissed"
                THEN CHOOSE i \in LatestFresh(g) : TRUE
                ELSE 0

GroupUnclaimed(s) ==                        \* Fault: neither lock
  /\ slot[s].pc = "begun"
  /\ LET a == Candidate(GroupOf[slot[s].e]) IN
       /\ a = 0 => Len(alerts) < MaxAlerts
       /\ slot' = [slot EXCEPT ![s].pc = "grouped", ![s].alert = a]
  /\ UNCHANGED <<client, rows, alerts, clock, running, outages>>

Group(s) ==
  /\ slot[s].pc = "begun"
  /\ Alone
  /\ LET a == Candidate(GroupOf[slot[s].e]) IN
       /\ a = 0 => Len(alerts) < MaxAlerts
       /\ slot' = [slot EXCEPT ![s].pc = "grouped", ![s].alert = a]
  /\ UNCHANGED <<client, rows, alerts, clock, running, outages>>

\* create_alert and register_recurrence, as the commit shows them.  The new
\* stamp never moves last_seen backwards.
Recorded(s) ==
  LET q == slot[s] IN
  IF q.alert = 0
  THEN Append(alerts, [group |-> GroupOf[q.e], count |-> 1, last |-> q.at, fresh |-> TRUE, status |-> "new"])
  ELSE [alerts EXCEPT ![q.alert].count = @ + 1, ![q.alert].fresh = TRUE,
                      ![q.alert].last = IF q.at > @ THEN q.at ELSE @]

Commit(s) ==
  /\ slot[s].pc = "grouped" /\ slot[s].e \notin rows
  /\ rows' = rows \union {slot[s].e} /\ alerts' = Recorded(s)
  /\ Answer(s, TRUE) /\ Close(s)
  /\ UNCHANGED <<queue, dropped, emitted, flushes, clock, running, outages>>

\* The unique index refuses the row.  _persist_integration_event flushes it
\* outside the try that handles IntegrityError, so the request ends in a 500
\* and a rollback instead of the status "duplicate".
Conflict(s) ==
  /\ slot[s].pc = "grouped" /\ slot[s].e \in rows
  /\ Answer(s, FALSE) /\ Close(s)
  /\ UNCHANGED <<queue, dropped, emitted, flushes, rows, alerts, clock, running, outages>>

(***************************************************************************)
(* Outages, the passing of the window, and reviewers.                      *)
(***************************************************************************)
\* The receiver stops: what is uncommitted is rolled back.  The connection of a
\* pending request breaks (RemoteDisconnected, ConnectionResetError), which is
\* none of the errors _post() catches.  emit() catches it, counts its event and
\* does not enqueue it; flush() has emptied the queue and raises into the host
\* with what it still had to post.
Pending(call) == {t \in Threads : host[t].pc = "await" /\ host[t].call = call}

Crash ==
  /\ outages < MaxOutages /\ \E s \in Slots : slot[s] # Free
  /\ outages' = outages + 1
  /\ slot' = [s \in Slots |-> Free]
  /\ host' = [t \in Threads |-> IF host[t].pc = "await" THEN Calm ELSE host[t]]
  /\ dropped' = dropped + Cardinality(Pending("emit"))
  /\ UNCHANGED <<queue, emitted, flushes, rows, alerts, clock, running>>

StopMonitor ==
  /\ running /\ Alone /\ outages < MaxOutages
  /\ running' = FALSE /\ outages' = outages + 1
  /\ UNCHANGED <<client, slot, rows, alerts, clock>>

StartMonitor ==
  /\ ~running /\ Alone /\ running' = TRUE
  /\ UNCHANGED <<client, slot, rows, alerts, clock, outages>>

\* A day passes since the alert was last seen.  No request takes that long.
WindowEnds(i) ==
  /\ alerts[i].fresh /\ \A s \in Slots : slot[s] = Free
  /\ alerts' = [alerts EXCEPT ![i].fresh = FALSE]
  /\ UNCHANGED <<client, slot, rows, clock, running, outages>>

RowHeld(i) == \E s \in Slots : slot[s].pc = "grouped" /\ slot[s].alert = i

\* dismiss_alert; no other request here changes the status it read.
Dismiss(i) ==
  /\ alerts[i].status = "new" /\ ~RowHeld(i)
  /\ alerts' = [alerts EXCEPT ![i].status = "dismissed"]
  /\ UNCHANGED <<client, slot, rows, clock, running, outages>>

HostStep(t) == Clear(t) \/ Post(t) \/ Unreachable(t) \/ GiveUp(t) \/ CountEviction(t) \/ Enqueue(t)

ServerStep(s) == Replay(s) \/ Refuse(s) \/ NotRunning(s) \/ Begin(s) \/ Group(s) \/ Commit(s) \/ Conflict(s)

Next ==
  \/ \E t \in Threads : Emit(t) \/ Flush(t) \/ HostStep(t)
  \/ \E s \in Slots : ServerStep(s)
  \/ Crash \/ StopMonitor \/ StartMonitor
  \/ \E i \in DOMAIN alerts : WindowEnds(i) \/ Dismiss(i)

\* The host schedules its threads, and urlopen has a timeout: a thread in a
\* call takes its next step.  Nothing is assumed of the receiver.
Fairness == \A t \in Threads : WF_vars(HostStep(t))

Spec == Init /\ [][Next]_vars /\ Fairness

-----------------------------------------------------------------------------
\* Types.  health() and the deque stay within their bounds, and a thread in a
\* call has an event in its hand.
TypeOK ==
  /\ queue \in Seq(Events) /\ Len(queue) <= QueueMax
  /\ dropped \in Nat /\ emitted \subseteq Events
  /\ \A t \in Threads : /\ (host[t].pc = "idle") = (host[t].todo = <<>>)
                         /\ (host[t].pc = "idle") = (host[t].call = "none")
  /\ \A s \in Slots : slot[s].t # None => host[slot[s].t].pc = "await"
  /\ rows \subseteq emitted \ (Unsafe \union Residual)
  /\ \A i \in DOMAIN alerts : alerts[i].count \in Nat \ {0} /\ alerts[i].last <= clock

\* However often an event is sent, and however many of its requests the
\* receiver works on at once, the repeat counts of a group's alerts add up to
\* the events of the group that are recorded: register_recurrence counts each
\* event once (docs/CONNECTOR_FRAMEWORK.md, idempotency).
Repeats(g) == [i \in DOMAIN alerts |-> IF alerts[i].group = g THEN alerts[i].count ELSE 0]
Total(counts) ==
  LET total[n \in 0..Len(counts)] == IF n = 0 THEN 0 ELSE total[n - 1] + counts[n]
  IN  total[Len(counts)]
CountedOnce == \A g \in Groups : Total(Repeats(g)) = Cardinality({e \in rows : GroupOf[e] = g})

\* Two open alerts of one group within the window exist only where a person
\* dismissed one of the group: concurrent first events never create two.
OneOpenAlert ==
  \A i, j \in DOMAIN alerts :
    /\ i # j /\ alerts[i].group = alerts[j].group
    /\ \A k \in {i, j} : alerts[k].fresh /\ alerts[k].status # "dismissed"
    => \E k \in InGroup(alerts[i].group) : alerts[k].status = "dismissed"

\* What the documentation promises of a failed send, that it is stored in the queue
\* (docs/CONNECTOR_FRAMEWORK.md), and health() of the rest: an event that is recorded
\* nowhere, waits in no queue and is in no thread's hands is counted as dropped.  The code
\* does not keep it: flush() loses what it took from the queue when the receiver dies.
InHand == UNION {Range(host[t].todo) : t \in Threads}
Missing == emitted \ (rows \union Range(queue) \union InHand)
NothingLost == Cardinality(Missing) <= dropped

\* emit() and flush() come to an end whatever the receiver does, with an answer or with
\* an exception: each posts an event once and puts back what it could not send, so that
\* a receiver that never answers costs a call one timeout for each event.
CallsEnd == \A t \in Threads : host[t].pc # "idle" ~> host[t].pc = "idle"
=============================================================================
