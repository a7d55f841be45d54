--------------------------- MODULE BreachResponse ---------------------------
(***************************************************************************)
(* The response to one incident: versions of its privacy-impact assessment,*)
(* the breach alerts every evaluation raises or refreshes, versions of the *)
(* breach decision, and the containment of exposed credentials.            *)
(*                                                                         *)
(* A request is a worker with its own transaction: it reads in one step    *)
(* and commits in a later one.  Where the code takes a row or advisory     *)
(* lock nobody moves the row in between; where it takes none, someone may. *)
(***************************************************************************)
EXTENDS Naturals, FiniteSets

CONSTANTS
    Workers,       \* requests in progress
    MaxVersion,    \* versions of the assessment
    MaxDecision,   \* decision records
    Actions,       \* (subject, credential) pairs that containment is recommended for
    MaxEvaluations,\* evaluations of an assessment
    MaxReopened,   \* reopenings of an alert
    Suppressions   \* kinds of suppression asked for: "timed", "forever"

VARIABLES
    assessment,  \* status of each version
    decision,    \* the BreachDecisionRecord rows
    alert,       \* the BreachAlert of one deduplication window
    action,      \* the ContainmentAction rows
    confirmed,   \* the incident has a human-verified status
    evaluations, \* committed evaluations
    worker

vars == <<assessment, decision, alert, action, confirmed, evaluations, worker>>

Versions == 1..MaxVersion
Decisions == 1..MaxDecision

Live == {"suspected", "verified", "acknowledged", "contained"}
Terminal == {"resolved", "false_positive"}
Idle == [op |-> "idle"]

ReviewStatus == {"none", "draft", "changes_required", "reviewed", "approved"}
Decision == [status : ReviewStatus \cup {"superseded"}, version : Nat,
             next : 0..MaxDecision]            \* superseded_by_record_id, 0 for NULL
Alert == [status : {"none"} \cup Live \cup Terminal,
          critical : BOOLEAN,                  \* severity critical with an exposed credential
          muted : {"no", "timed", "forever"},  \* suppression, with and without an expiry
          count : Nat, reopened : Nat]

\* Rows and requests have the shape of the models and of the handlers' steps.
TypeOK ==
    /\ assessment \in [Versions -> ReviewStatus]
    /\ decision \in [Decisions -> Decision]
    /\ alert \in Alert
    /\ action \in [Actions -> {"none", "recommended", "approved", "executed",
                               "manual_action_required"}]
    /\ confirmed \in BOOLEAN
    /\ evaluations \in Nat
    /\ \A w \in Workers :
          \/ worker[w] = Idle
          \/ /\ worker[w].op \in {"assess", "approve", "decide", "create", "supersede", "review"}
             /\ worker[w].on \in Versions \cup Decisions
          \/ worker[w].op = "raise" /\ worker[w].row \in Alert
          \/ /\ worker[w].op \in {"authorise", "execute", "counted"}
             /\ worker[w].on \in Actions

Init ==
    /\ assessment = [v \in Versions |-> "none"]
    /\ decision = [d \in Decisions |-> [status |-> "none", version |-> 0, next |-> 0]]
    /\ alert = [status |-> "none", critical |-> FALSE, muted |-> "no", count |-> 0,
                reopened |-> 0]
    /\ action = [a \in Actions |-> "none"]
    /\ confirmed = FALSE
    /\ evaluations = 0
    /\ worker = [w \in Workers |-> Idle]

-----------------------------------------------------------------------------
(* Requests and locks *)

Begins(w, request) ==
    /\ worker[w] = Idle
    /\ worker' = [worker EXCEPT ![w] = request]

Ends(w) == worker' = [worker EXCEPT ![w] = Idle]

\* What a request is about, also while it raises the alert.
Request(w) == IF worker[w].op = "raise" THEN worker[w].by ELSE worker[w]
Op(w) == Request(w).op
Target(w) == Request(w).on

\* Assessing, creating and superseding lock the incident row.
IncidentFree == \A w \in Workers : Op(w) \notin {"assess", "create", "supersede"}

\* Approving and superseding a decision lock its row.
DecisionFree(d) ==
    \A w \in Workers : Op(w) \in {"decide", "supersede"} => Target(w) # d

\* Raising an alert holds its row.
AlertFree == \A w \in Workers : worker[w].op # "raise"

\* A request that fails or dies takes its rows with it.
Fails(w) ==
    /\ worker[w] # Idle
    /\ Ends(w)
    /\ UNCHANGED <<assessment, decision, alert, action, confirmed, evaluations>>

-----------------------------------------------------------------------------
(* Evaluation: the alert of the window and the recommended containment *)

\* evaluate_assessment on the alert of the window, whose row it holds.
Refreshed(row, status, critical) ==
    IF row.status = "none"
    THEN [status |-> status, critical |-> critical, muted |-> "no", count |-> 1,
          reopened |-> 0]
    ELSE [row EXCEPT !.count = @ + 1,
                     !.critical = IF row.status \in Terminal THEN @ ELSE critical,
                     !.status = IF @ \in {"suspected", "verified"} THEN status ELSE @]

\* evaluate_assessment waits for the advisory lock on the alert's signature and reads
\* the alert of the window for update.
Raise(w) ==
    /\ worker[w].op \in {"assess", "approve", "decide"}
    /\ \A v \in Workers : worker[v].op # "raise"
    /\ worker' = [worker EXCEPT ![w] = [op |-> "raise", row |-> alert, by |-> worker[w]]]
    /\ UNCHANGED <<assessment, decision, alert, action, confirmed, evaluations>>

\* The assessment and the incident are what the request loaded before it waited;
\* severity depends on the assessment's factors and the subject count.
Evaluate(w, critical) ==
    LET by == worker[w].by
        status == IF by.seen = "approved" /\ by.verified THEN "verified" ELSE "suspected"
    IN  /\ evaluations < MaxEvaluations
        /\ evaluations' = evaluations + 1
        /\ alert' = Refreshed(worker[w].row, status, critical)
        /\ \/ UNCHANGED action                     \* no credential exposed
           \/ action' = [a \in Actions |->
                            IF action[a] = "none" THEN "recommended" ELSE action[a]]

Raises(w, op) == worker[w].op = "raise" /\ worker[w].by.op = op

-----------------------------------------------------------------------------
(* Assessments *)

Latest == Cardinality({v \in Versions : assessment[v] # "none"})

\* assess_incident: a new version, or an old one whose inputs came again.
Assess(w, v) ==
    /\ IncidentFree
    /\ v = Latest + 1 \/ assessment[v] # "none"
    /\ Begins(w, [op |-> "assess", on |-> v, verified |-> confirmed,
                  seen |-> IF assessment[v] = "none" THEN "draft" ELSE assessment[v],
                  new |-> assessment[v] = "none"])
    /\ UNCHANGED <<assessment, decision, alert, action, confirmed, evaluations>>

AssessCommits(w, critical) ==
    /\ Raises(w, "assess")
    /\ assessment' = IF worker[w].by.new THEN [assessment EXCEPT ![worker[w].by.on] = "draft"]
                                         ELSE assessment
    /\ Evaluate(w, critical)
    /\ Ends(w)
    /\ UNCHANGED <<decision, confirmed>>

\* review_assessment takes no lock.
Review(w, v) ==
    /\ assessment[v] \in {"draft", "changes_required"}
    /\ Begins(w, [op |-> "review", on |-> v, seen |-> assessment[v]])
    /\ UNCHANGED <<assessment, decision, alert, action, confirmed, evaluations>>

\* Only a column that differs from what was loaded is written.
ReviewCommits(w, verdict) ==
    /\ worker[w].op = "review"
    /\ assessment' = IF verdict = worker[w].seen THEN assessment
                     ELSE [assessment EXCEPT ![worker[w].on] = verdict]
    /\ Ends(w)
    /\ UNCHANGED <<decision, alert, action, confirmed, evaluations>>

\* approve_assessment takes none either; its approver neither created nor reviewed it.
Approve(w, v) ==
    /\ assessment[v] = "reviewed"
    /\ Begins(w, [op |-> "approve", on |-> v, seen |-> "approved", verified |-> confirmed])
    /\ UNCHANGED <<assessment, decision, alert, action, confirmed, evaluations>>

ApproveCommits(w, critical) ==
    /\ Raises(w, "approve")
    /\ assessment' = [assessment EXCEPT ![worker[w].by.on] = "approved"]
    /\ Evaluate(w, critical)
    /\ Ends(w)
    /\ UNCHANGED <<decision, confirmed>>

-----------------------------------------------------------------------------
(* Decisions *)

Exists(d) == decision[d].status # "none"
Current == {d \in Decisions : Exists(d) /\ decision[d].next = 0}
NextVersion == Cardinality({d \in Decisions : Exists(d)}) + 1

\* A new record has an id of its own: the first unused one.
Unused(d) == ~ Exists(d) /\ \A w \in Workers :
    worker[w].op \in {"create", "supersede"} => worker[w].new # d
New(d) == Unused(d) /\ \A e \in Decisions : Unused(e) => d <= e

\* _create_record asks for an approved assessment of the incident.
Basis == \E v \in Versions : assessment[v] = "approved"

\* Fault: the incident is read without its lock.
CreateUnlocked(w, d) ==
    /\ Basis
    /\ Current = {} /\ New(d)
    /\ Begins(w, [op |-> "create", on |-> d, new |-> d, version |-> NextVersion])
    /\ UNCHANGED <<assessment, decision, alert, action, confirmed, evaluations>>

Create(w, d) ==
    /\ IncidentFree
    /\ Basis
    /\ Current = {} /\ New(d)
    /\ Begins(w, [op |-> "create", on |-> d, new |-> d, version |-> NextVersion])
    /\ UNCHANGED <<assessment, decision, alert, action, confirmed, evaluations>>

CreateCommits(w) ==
    /\ worker[w].op = "create"
    /\ decision' = [decision EXCEPT
           ![worker[w].new] = [status |-> "draft", version |-> worker[w].version, next |-> 0]]
    /\ Ends(w)
    /\ UNCHANGED <<assessment, alert, action, confirmed, evaluations>>

\* review_decision, under the row's lock.
ReviewDecision(d, verdict) ==
    /\ DecisionFree(d)
    /\ decision[d].status \in {"draft", "changes_required"}
    /\ decision' = [decision EXCEPT ![d].status = verdict]
    /\ UNCHANGED <<assessment, alert, action, confirmed, evaluations, worker>>

\* approve_decision: the ledger append is IntegrityLedger's.
Decide(w, d, v) ==
    /\ DecisionFree(d)
    /\ decision[d].status = "reviewed"
    /\ assessment[v] # "none"
    /\ Begins(w, [op |-> "decide", on |-> d, seen |-> assessment[v], verified |-> confirmed])
    /\ UNCHANGED <<assessment, decision, alert, action, confirmed, evaluations>>

\* A suspected or confirmed breach raises its alert again, any other is just approved.
DecideCommits(w, critical) ==
    /\ \/ /\ worker[w].op = "decide"
          /\ decision' = [decision EXCEPT ![worker[w].on].status = "approved"]
          /\ UNCHANGED <<alert, action, evaluations>>
       \/ /\ Raises(w, "decide")
          /\ decision' = [decision EXCEPT ![worker[w].by.on].status = "approved"]
          /\ Evaluate(w, critical)
    /\ Ends(w)
    /\ UNCHANGED <<assessment, confirmed>>

\* supersede_decision: the current approved decision and its replacement in one commit.
Supersede(w, d, e) ==
    /\ DecisionFree(d) /\ IncidentFree
    /\ decision[d].status = "approved" /\ decision[d].next = 0
    /\ Basis
    /\ New(e)
    /\ Begins(w, [op |-> "supersede", on |-> d, new |-> e,
                  version |-> decision[d].version + 1])
    /\ UNCHANGED <<assessment, decision, alert, action, confirmed, evaluations>>

SupersedeCommits(w) ==
    /\ worker[w].op = "supersede"
    /\ decision' = [decision EXCEPT
           ![worker[w].on].status = "superseded", ![worker[w].on].next = worker[w].new,
           ![worker[w].new] = [status |-> "draft", version |-> worker[w].version, next |-> 0]]
    /\ Ends(w)
    /\ UNCHANGED <<assessment, alert, action, confirmed, evaluations>>

-----------------------------------------------------------------------------
(* Alert operations, under the row's lock *)

Operates(row) ==
    /\ AlertFree
    /\ alert' = row
    /\ UNCHANGED <<assessment, decision, action, confirmed, evaluations, worker>>

\* Also from contained (privacy_breach_alert_service.acknowledge).
Acknowledge ==
    /\ alert.status \in Live
    /\ Operates([alert EXCEPT !.status = "acknowledged"])

Resolve(how) ==
    /\ alert.status \in Live
    /\ Operates([alert EXCEPT !.status = how])

Reopen ==
    /\ alert.status \in Terminal
    /\ alert.reopened < MaxReopened
    /\ Operates([alert EXCEPT !.status = "suspected", !.muted = "no",
                                    !.reopened = @ + 1])

\* A critical credential alert needs an expiry, whoever asks.
Suppress(how) ==
    /\ alert.status \in Live
    /\ how = "forever" => ~ alert.critical
    /\ Operates([alert EXCEPT !.muted = how])

Unsuppress ==
    /\ alert.muted # "no"
    /\ Operates([alert EXCEPT !.muted = "no"])

-----------------------------------------------------------------------------
(* Containment, without locks *)

Authorise(w, a) ==
    /\ action[a] = "recommended"
    /\ Begins(w, [op |-> "authorise", on |-> a])
    /\ UNCHANGED <<assessment, decision, alert, action, confirmed, evaluations>>

AuthoriseCommits(w) ==
    /\ worker[w].op = "authorise"
    /\ action' = [action EXCEPT ![worker[w].on] = "approved"]
    /\ Ends(w)
    /\ UNCHANGED <<assessment, decision, alert, confirmed, evaluations>>

\* The provider is called between the check and the commit.
Execute(w, a, ok) ==
    /\ action[a] = "approved"
    /\ Begins(w, [op |-> "execute", on |-> a, ok |-> ok])
    /\ UNCHANGED <<assessment, decision, alert, action, confirmed, evaluations>>

\* The session does not flush before a query: the row's own new status is not counted.
CountIncomplete(w) ==
    /\ worker[w].op = "execute"
    /\ worker' = [worker EXCEPT ![w] =
          [op |-> "counted", on |-> worker[w].on, ok |-> worker[w].ok,
           done |-> \A a \in Actions : action[a] \in {"none", "executed"}]]
    /\ UNCHANGED <<assessment, decision, alert, action, confirmed, evaluations>>

\* Fault: alerts are read first and locked later.
ContainedAll(row) ==
    IF row.status # "none" THEN [row EXCEPT !.status = "contained"] ELSE row

Contained(row) ==
    IF row.status \in Live THEN [row EXCEPT !.status = "contained"] ELSE row

ExecuteCommits(w) ==
    /\ worker[w].op = "counted"
    /\ worker[w].ok /\ worker[w].done => AlertFree
    /\ action' = [action EXCEPT ![worker[w].on] =
                     IF worker[w].ok THEN "executed" ELSE "manual_action_required"]
    /\ alert' = IF worker[w].ok /\ worker[w].done
                THEN Contained(alert) ELSE alert
    /\ Ends(w)
    /\ UNCHANGED <<assessment, decision, confirmed, evaluations>>

-----------------------------------------------------------------------------
\* Reviewers confirm the incident and take it back.
Confirm ==
    /\ IncidentFree
    /\ confirmed' = ~ confirmed
    /\ UNCHANGED <<assessment, decision, alert, action, evaluations, worker>>

Verdicts == {"reviewed", "changes_required"}

Next ==
    \/ \E w \in Workers :
          \/ \E v \in Versions : Assess(w, v) \/ Review(w, v) \/ Approve(w, v)
          \/ \E critical \in BOOLEAN :
                \/ AssessCommits(w, critical) \/ ApproveCommits(w, critical)
                \/ DecideCommits(w, critical)
          \/ Raise(w)
          \/ \E verdict \in Verdicts : ReviewCommits(w, verdict)
          \/ \E d \in Decisions :
                \/ Create(w, d) \/ \E e \in Decisions : Supersede(w, d, e)
                \/ \E v \in Versions : Decide(w, d, v)
          \/ CreateCommits(w)
          \/ SupersedeCommits(w)
          \/ \E a \in Actions : Authorise(w, a) \/ \E ok \in BOOLEAN : Execute(w, a, ok)
          \/ AuthoriseCommits(w) \/ CountIncomplete(w) \/ ExecuteCommits(w)
          \/ Fails(w)
    \/ \E d \in Decisions, verdict \in Verdicts : ReviewDecision(d, verdict)
    \/ Acknowledge \/ Reopen \/ Unsuppress
    \/ \E how \in Terminal : Resolve(how)
    \/ \E how \in Suppressions : Suppress(how)
    \/ Confirm

Spec == Init /\ [][Next]_vars

-----------------------------------------------------------------------------
(* Safety *)

\* The history of decisions is one chain with one end: every version but the newest was
\* superseded by the next one, whatever creations and supersessions run together.
OneDecisionChain ==
    /\ Cardinality(Current) <= 1
    /\ \A d \in Decisions :
          /\ decision[d].status = "superseded" <=> decision[d].next # 0
          /\ decision[d].next # 0 =>
                decision[decision[d].next].version = decision[d].version + 1
          /\ \A e \in Decisions : Exists(d) /\ decision[d].version = decision[e].version => d = e

\* No evaluation is lost or counted twice: whichever requests raise the alert
\* together, its occurrences add up to what was committed.
EveryOccurrenceCounted ==
    alert.count = evaluations

\* The records of a breach tell what happened: one line of decisions, every evaluation.
BreachRecordsTrue == OneDecisionChain /\ EveryOccurrenceCounted

\* A closed alert stays closed until someone reopens it: no evaluation and no late
\* containment brings it back.
ClosedUntilReopened ==
    [][ alert.status \in Terminal /\ alert'.status \notin Terminal =>
            alert'.reopened = alert.reopened + 1 /\ alert'.muted = "no" ]_vars

-----------------------------------------------------------------------------
(* What the documentation says and the code does not keep *)

\* A critical credential alert is never silenced without an expiry (docs/ALERT_OPERATIONS.md).
CriticalIsTimeBounded ==
    alert.status \in Live /\ alert.critical => alert.muted # "forever"
=============================================================================
