--------------------------- MODULE ControlledPatch --------------------------
(***************************************************************************)
(* One controlled patch and its sandbox workspace: approval, apply,        *)
(* regression test, rollback and the recovery run at startup.              *)
(*                                                                         *)
(* A request is a worker with its own database transaction.  What it wrote *)
(* to the workspace is on disk at once; what it wrote to its rows is seen  *)
(* only at its commit and is lost when the process dies before it.         *)
(***************************************************************************)
EXTENDS Naturals

CONSTANTS
    Workers,     \* requests that can be in progress together
    Tests,       \* sandbox test executions of the patch
    MaxCrashes,  \* process deaths
    MaxDrifts    \* edits of the workspace by someone else

VARIABLES
    patch,       \* the PatchProposal row
    implementation, \* the RemediationImplementationRecord row of the patch
    rollbacks,   \* RollbackExecution rows, by trigger and whether they name the implementation
    verdict,     \* status of each sandbox test execution
    target, orig,\* request_logger.py and its .orig snapshot in the workspace
    permitted,   \* the governed permission of the patch's chain
    worker,      \* what each request is doing
    up,          \* "serving", "starting" (startup recovery) or "down"
    crashes, drifts

vars == <<patch, implementation, rollbacks, verdict, target, orig, permitted, worker,
          up, crashes, drifts>>

-----------------------------------------------------------------------------
Startup == "startup"     \* the worker of recover_incomplete_patches
ASSUME StartupIsNoRequest == Startup \notin Workers
ASSUME BoundsAreNumbers == MaxCrashes \in Nat /\ MaxDrifts \in Nat

Everyone == Workers \cup {Startup}
Triggers == Tests \cup {"human", "startup"}
Keys == [trigger : Triggers, named : BOOLEAN]
Bytes == {"base", "fixed", "drift"}

Patch == [status : {"awaiting_human_review", "approved_for_sandbox", "applying",
                    "applied_to_sandbox", "rolled_back", "recovery_required"},
          known : {"none", "applied", "apply_interrupted", "rolled_back",
                   "integrity_drift"},
          integrity : {"none", "ok", "failed", "unsafe"},
          recovery : BOOLEAN,
          post : {"none"} \cup Bytes,          \* post_apply_workspace_hash
          workflow : {"current", "stale"}]
Rollback == [status : {"absent", "running", "succeeded", "failed"}, retries : 0..1]
Idle == [step |-> "idle"]

\* Rows, files and requests have the shape of the models and of the handlers' steps.
TypeOK ==
    /\ patch \in Patch
    /\ implementation \in [status : {"none", "completed", "rolled_back"},
                           workflow : {"current", "stale"}]
    /\ rollbacks \in [Keys -> Rollback]
    /\ verdict \in [Tests -> {"none", "running", "passed", "failed"}]
    /\ target \in Bytes /\ orig \in Bytes
    /\ permitted \in BOOLEAN
    /\ \A w \in Everyone :
          \/ worker[w] = Idle
          \/ /\ worker[w].step \in {"checked", "written"}
             /\ worker[w].seen \in Patch
          \/ /\ worker[w].step = "testing"
             /\ worker[w].test \in Tests
          \/ /\ worker[w].step = "rolling"
             /\ worker[w].trigger \in Triggers
          \/ /\ worker[w].step \in {"restored", "blocked"}
             /\ worker[w].seen \in Patch /\ worker[w].key \in Keys
    /\ up \in {"serving", "starting", "down"}
    /\ crashes \in 0..MaxCrashes /\ drifts \in 0..MaxDrifts

\* generate_real_patch_proposal: workspace and snapshot hold the vulnerable file.
Init ==
    /\ patch = [status |-> "awaiting_human_review", known |-> "none",
                integrity |-> "none", recovery |-> FALSE, post |-> "none",
                workflow |-> "current"]
    /\ implementation = [status |-> "none", workflow |-> "current"]
    /\ rollbacks = [k \in Keys |-> [status |-> "absent", retries |-> 0]]
    /\ verdict = [c \in Tests |-> "none"]
    /\ target = "base" /\ orig = "base"
    /\ permitted = TRUE
    /\ worker = [w \in Everyone |-> Idle]
    /\ up = "serving"
    /\ crashes = 0 /\ drifts = 0

-----------------------------------------------------------------------------
(* The session *)

\* A commit writes the columns the transaction changed from what it had loaded.
Update(row, seen, new) ==
    [f \in DOMAIN row |-> IF new[f] # seen[f] THEN new[f] ELSE row[f]]

\* The flush of "applying" holds the patch row until the request commits.
RowFree == \A w \in Everyone : worker[w].step # "written"

\* A request starts only while the application serves.
Starts(w) == w \in Workers /\ up = "serving" /\ worker[w] = Idle

Step(w, next) == worker' = [worker EXCEPT ![w] = next]

\* Fault: the row says what is wrong but is not marked for recovery.
WithDriftUnmarked(row) == [row EXCEPT !.status = "recovery_required",
                                      !.known = "integrity_drift", !.integrity = "failed"]

\* _recovery_error: committed on its own before the error is raised.
WithDrift(row) == [row EXCEPT !.status = "recovery_required", !.known = "integrity_drift",
                              !.integrity = "failed", !.recovery = TRUE]

-----------------------------------------------------------------------------
(* Approval and apply *)

Approve(w) ==
    /\ Starts(w)
    /\ RowFree
    /\ permitted /\ patch.workflow = "current"
    /\ patch.status = "awaiting_human_review"
    /\ patch' = [patch EXCEPT !.status = "approved_for_sandbox"]
    /\ UNCHANGED <<implementation, rollbacks, verdict, target, orig, permitted, worker,
                   up, crashes, drifts>>

Applicable == permitted /\ patch.workflow = "current" /\ patch.status = "approved_for_sandbox"

\* Everything apply_patch_to_sandbox reads before its flush.
ApplyCheck(w) ==
    /\ Starts(w)
    /\ Applicable
    /\ IF target = "base"
       THEN Step(w, [step |-> "checked", seen |-> patch]) /\ UNCHANGED patch
       ELSE RowFree /\ patch' = WithDrift(patch) /\ UNCHANGED worker
    /\ UNCHANGED <<implementation, rollbacks, verdict, target, orig, permitted,
                   up, crashes, drifts>>

\* The flush of status "applying" and the write of the fixed file.
ApplyWrite(w) ==
    /\ worker[w].step = "checked"
    /\ RowFree
    /\ target' = "fixed"
    /\ Step(w, [worker[w] EXCEPT !.step = "written"])
    /\ UNCHANGED <<patch, implementation, rollbacks, verdict, orig, permitted,
                   up, crashes, drifts>>

\* The write raises before, while or after it touches the file: the handler commits the mark.
ApplyInterrupted(w, left) ==
    /\ worker[w].step = "checked"
    /\ RowFree
    /\ target' = left
    /\ patch' = Update(patch, worker[w].seen,
                       [worker[w].seen EXCEPT !.status = "applying",
                                              !.known = "apply_interrupted",
                                              !.recovery = TRUE])
    /\ Step(w, Idle)
    /\ UNCHANGED <<implementation, rollbacks, verdict, orig, permitted, up, crashes, drifts>>

\* record_implementation passes the gate again, and both rows commit together.
ApplyCommit(w) ==
    /\ worker[w].step = "written"
    /\ permitted
    /\ patch' = Update(patch, worker[w].seen,
                       [worker[w].seen EXCEPT !.status = "applied_to_sandbox",
                                              !.known = "applied", !.integrity = "ok",
                                              !.recovery = FALSE, !.post = "fixed"])
    /\ implementation' = IF implementation.status = "none"
                         THEN [status |-> "completed", workflow |-> "current"]
                         ELSE implementation
    /\ Step(w, Idle)
    /\ UNCHANGED <<rollbacks, verdict, target, orig, permitted, up, crashes, drifts>>

\* The gate refuses, or a later statement fails: the rows roll back, the file does not.
ApplyAborts(w) ==
    /\ worker[w].step = "written"
    /\ Step(w, Idle)
    /\ UNCHANGED <<patch, implementation, rollbacks, verdict, target, orig, permitted,
                   up, crashes, drifts>>

-----------------------------------------------------------------------------
(* Sandbox tests *)

StartTest(w, c) ==
    /\ Starts(w)
    /\ verdict[c] = "none"
    /\ permitted
    /\ implementation = [status |-> "completed", workflow |-> "current"]
    /\ patch.post \in {"none", target}
    /\ verdict' = [verdict EXCEPT ![c] = "running"]
    /\ Step(w, [step |-> "testing", test |-> c])
    /\ UNCHANGED <<patch, implementation, rollbacks, target, orig, permitted,
                   up, crashes, drifts>>

\* The regression fails on the vulnerable file; any test can time out or leak.  The
\* verdict is committed before the rollback a failure asks for.
FinishTest(w, passed) ==
    /\ worker[w].step = "testing"
    /\ passed => target # "base"
    /\ verdict' = [verdict EXCEPT ![worker[w].test] = IF passed THEN "passed" ELSE "failed"]
    /\ Step(w, IF passed THEN Idle
                         ELSE [step |-> "rolling", trigger |-> worker[w].test])
    /\ UNCHANGED <<patch, implementation, rollbacks, target, orig, permitted,
                   up, crashes, drifts>>

-----------------------------------------------------------------------------
(* Rollback *)

CurrentImplementation ==
    implementation.status # "none" /\ implementation.workflow = "current"

\* get_or_create_pending: a rollback without a current implementation finds any row.
KeyOf(trigger) ==
    LET named == [trigger |-> trigger, named |-> TRUE]
        unnamed == [trigger |-> trigger, named |-> FALSE]
    IN  IF \/ CurrentImplementation
           \/ rollbacks[unnamed].status = "absent" /\ rollbacks[named].status # "absent"
        THEN named ELSE unnamed

\* MAX_AUTOMATIC_ROLLBACK_RETRIES = 1.
Settled(k) ==
    \/ rollbacks[k].status = "succeeded"
    \/ rollbacks[k].status = "failed" /\ rollbacks[k].retries >= 1

Attempt(k) == [status |-> "running",
               retries |-> rollbacks[k].retries
                           + (IF rollbacks[k].status = "failed" THEN 1 ELSE 0)]

\* rollback_sandbox_patch: the human request passes the gate, an automatic one does not.
RequestRollback(w) ==
    /\ Starts(w)
    /\ permitted
    /\ Step(w, [step |-> "rolling", trigger |-> "human"])
    /\ UNCHANGED <<patch, implementation, rollbacks, verdict, target, orig, permitted,
                   up, crashes, drifts>>

\* The rollback of this trigger already has its answer.
RollbackSettled(w) ==
    /\ worker[w].step = "rolling"
    /\ Settled(KeyOf(worker[w].trigger))
    /\ Step(w, Idle)
    /\ UNCHANGED <<patch, implementation, rollbacks, verdict, target, orig, permitted,
                   up, crashes, drifts>>

\* What restore_sandbox_from_baseline accepts; startup recovery forces its way.
Restorable(w) ==
    /\ orig = "base"
    /\ w # Startup /\ patch.post # "none" => target \in {patch.post, "base"}

\* One rollback of a trigger at a time: its execution row is held from the first flush.
Unclaimed(w, k) == \A v \in Everyone \ {w} :
    worker[v].step \in {"restored", "blocked"} => worker[v].key # k

RestoreWrite(w) ==
    /\ worker[w].step = "rolling"
    /\ LET k == KeyOf(worker[w].trigger)
       IN  /\ ~ Settled(k) /\ Unclaimed(w, k)
           /\ Restorable(w)
           /\ target' = "base"
           /\ Step(w, [step |-> "restored", key |-> k, seen |-> patch,
                       named |-> CurrentImplementation])
    /\ UNCHANGED <<patch, implementation, rollbacks, verdict, orig, permitted,
                   up, crashes, drifts>>

RollbackCommit(w) ==
    /\ worker[w].step = "restored"
    /\ RowFree
    /\ patch' = Update(patch, worker[w].seen,
                       [worker[w].seen EXCEPT !.status = "rolled_back", !.recovery = FALSE,
                                              !.integrity = "ok", !.known = "rolled_back",
                                              !.post = "base"])
    /\ rollbacks' = [rollbacks EXCEPT
           ![worker[w].key] = [Attempt(worker[w].key) EXCEPT !.status = "succeeded"]]
    /\ implementation' = IF worker[w].named
                         THEN [implementation EXCEPT !.status = "rolled_back"]
                         ELSE implementation
    /\ Step(w, Idle)
    /\ UNCHANGED <<verdict, target, orig, permitted, up, crashes, drifts>>

\* A drifted workspace or snapshot: the first commit carries the running execution.
RestoreRefused(w) ==
    /\ worker[w].step = "rolling"
    /\ RowFree
    /\ LET k == KeyOf(worker[w].trigger)
       IN  /\ ~ Settled(k) /\ Unclaimed(w, k)
           /\ ~ Restorable(w)
           /\ patch' = WithDrift(patch)
           /\ rollbacks' = [rollbacks EXCEPT ![k] = Attempt(k)]
           /\ Step(w, [step |-> "blocked", key |-> k, seen |-> WithDrift(patch)])
    /\ UNCHANGED <<implementation, verdict, target, orig, permitted, up, crashes, drifts>>

\* The handler of the error marks the execution failed, in a second commit.
RollbackFailed(w) ==
    /\ worker[w].step = "blocked"
    /\ RowFree
    /\ patch' = Update(patch, worker[w].seen,
                       [worker[w].seen EXCEPT !.recovery = TRUE, !.integrity = "unsafe"])
    /\ rollbacks' = [rollbacks EXCEPT ![worker[w].key].status = "failed"]
    /\ Step(w, Idle)
    /\ UNCHANGED <<implementation, verdict, target, orig, permitted, up, crashes, drifts>>

-----------------------------------------------------------------------------
(* Invalidation, drift, crash and startup *)

\* mark_stale on the patch's analysis, from another handler.
Invalidate ==
    /\ permitted
    /\ RowFree
    /\ permitted' = FALSE
    /\ patch' = [patch EXCEPT !.workflow = "stale"]
    /\ implementation' = [implementation EXCEPT !.workflow =
                             IF implementation.status = "none" THEN @ ELSE "stale"]
    /\ UNCHANGED <<rollbacks, verdict, target, orig, worker, up, crashes, drifts>>

\* Someone edits the workspace, whatever the requests on it are doing.
Drift ==
    /\ drifts < MaxDrifts
    /\ drifts' = drifts + 1
    /\ \/ target' = "drift" /\ UNCHANGED orig
       \/ orig' = "drift" /\ UNCHANGED target
    /\ UNCHANGED <<patch, implementation, rollbacks, verdict, permitted, worker, up, crashes>>

\* The process dies: requests and uncommitted rows are gone, the workspace is not.
Crash ==
    /\ crashes < MaxCrashes
    /\ up # "down"
    /\ crashes' = crashes + 1
    /\ up' = "down"
    /\ worker' = [w \in Everyone |-> Idle]
    /\ UNCHANGED <<patch, implementation, rollbacks, verdict, target, orig, permitted, drifts>>

\* Fault: only interrupted applies are recovered, not drifted workspaces.
IncompleteInterrupted == patch.workflow = "current" /\ patch.known = "apply_interrupted"

\* recover_incomplete_patches selects current patches that need recovery.
Incomplete ==
    patch.workflow = "current" /\ (patch.recovery \/ patch.known = "apply_interrupted")

Start ==
    /\ up = "down"
    /\ up' = "starting"
    /\ Step(Startup, IF Incomplete THEN [step |-> "rolling", trigger |-> "startup"] ELSE Idle)
    /\ UNCHANGED <<patch, implementation, rollbacks, verdict, target, orig, permitted,
                   crashes, drifts>>

Serve ==
    /\ up = "starting"
    /\ worker[Startup] = Idle
    /\ up' = "serving"
    /\ UNCHANGED <<patch, implementation, rollbacks, verdict, target, orig, permitted,
                   worker, crashes, drifts>>

-----------------------------------------------------------------------------
Rolls(w) ==
    RollbackSettled(w) \/ RestoreWrite(w) \/ RollbackCommit(w)
        \/ RestoreRefused(w) \/ RollbackFailed(w)

Next ==
    \/ \E w \in Workers :
          \/ Approve(w) \/ ApplyCheck(w) \/ ApplyWrite(w) \/ ApplyCommit(w) \/ ApplyAborts(w)
          \/ \E left \in {target, "fixed", "drift"} : ApplyInterrupted(w, left)
          \/ \E c \in Tests : StartTest(w, c)
          \/ \E passed \in BOOLEAN : FinishTest(w, passed)
          \/ RequestRollback(w)
    \/ \E w \in Everyone : Rolls(w)
    \/ Invalidate \/ Drift \/ Crash \/ Start \/ Serve

\* The supervisor restarts the process, and a request that began runs on: nothing
\* obliges anyone to send one, to edit the workspace or to kill the process.
Fairness ==
    /\ WF_vars(Start) /\ WF_vars(Serve)
    /\ \A w \in Everyone : WF_vars(Rolls(w))

Spec == Init /\ [][Next]_vars /\ Fairness

-----------------------------------------------------------------------------
(* Safety *)

\* A rollback that failed, or that a crash cut between its two commits, is never
\* forgotten: until some rollback verifies, the patch keeps its mark, so that the next
\* startup takes it up.
FailureKeepsMark ==
    /\ \E k \in Keys : rollbacks[k].status \in {"running", "failed"}
    /\ \A k \in Keys : rollbacks[k].status # "succeeded"
    => patch.recovery

\* A process that died with a marked patch answers for it when it comes up: the patch is
\* restored, or its startup rollback has been tried and says why not.  Once is enough:
\* a startup rollback that succeeded is never run again (recover_incomplete_patches).
StartupAnswers ==
    (up = "down" /\ patch.recovery) ~>
        \/ ~ patch.recovery
        \/ patch.workflow = "stale"
        \/ rollbacks[KeyOf("startup")].status \in {"succeeded", "failed"}

-----------------------------------------------------------------------------
(* What the documentation says and the code does not keep *)

\* An interrupted apply is marked for recovery (docs/CONTROLLED_WORKSPACE_MODEL.md):
\* no request in progress, the fixed file in the workspace, and a row that says so.
InterruptedApplyIsMarked ==
    (\A w \in Everyone : worker[w] = Idle) /\ target = "fixed" =>
        patch.status = "applied_to_sandbox" \/ patch.recovery
=============================================================================
