--------------------------- MODULE WorkflowEngine ---------------------------
(***************************************************************************)
(* The backend's workflow engine (Backend/src/workflow/services): starting *)
(* and executing a workflow, retry, cancel, compensation and recovery.     *)
(*                                                                         *)
(* Every service call is an asynchronous task of one Node.js process. A    *)
(* task runs without interruption up to its next await, so an action is    *)
(* one awaited database call (or one awaited step function) together with  *)
(* the code that runs when it returns. Between two awaits any other task   *)
(* may run. A task works on its own copies of the rows it has read (the    *)
(* TypeORM entities); repository.save() writes the copy over the row.      *)
(***************************************************************************)
EXTENDS Integers, Sequences, FiniteSets, TLC

CONSTANTS
  Requests,    \* (type, user, input) triples: what the idempotency key hashes
  MaxDay,      \* bound: calendar days; the key also hashes the date
  N,           \* number of steps of the workflow definition
  MaxRetries,  \* maxRetries of every step
  Idempotent,  \* steps declared isIdempotent
  Compensable, \* steps that have a compensate function
  Tasks,       \* bound: concurrent invocations
  Ops,         \* administrator calls made, each at most once ...
  MaxCalls,    \* ... and at most this many of them (bound)
  MaxCrashes,  \* bound: process crashes
  DbErrors,    \* TRUE: an awaited database call may fail
  SlowSteps    \* TRUE: a live execution may leave its rows untouched for longer
               \* than the recovery service's 5 and 10 minute thresholds

ASSUME CountsAssumption ==
  /\ MaxDay \in Nat \ {0} /\ N \in Nat /\ MaxRetries \in Nat \ {0}
  /\ MaxCrashes \in Nat /\ MaxCalls \in Nat
ASSUME StepSetsAssumption == Idempotent \subseteq 1 .. N /\ Compensable \subseteq 1 .. N
ASSUME FlagsAssumption == DbErrors \in BOOLEAN /\ SlowSteps \in BOOLEAN
ASSUME OpsAssumption ==
  Ops \subseteq {"retry", "retryStep", "cancel", "compensate", "force", "manualRecovery"}

VARIABLES
  today,    \* the date the idempotency key is built with
  wf,       \* table workflows: the state of the row of each key, or "NONE"
  st,       \* table workflow_steps: the rows of each key, <<>> before insertion
  task,     \* the invocations in progress
  used,     \* the administrator calls already made
  crashes,  \* crashes so far
  did       \* history: how often the function of each step has succeeded

vars == <<today, wf, st, task, used, crashes, did>>

Keys == Requests \X (1 .. MaxDay)
StepIds == 1 .. N

-----------------------------------------------------------------------------
(* workflow-state-machine.service.ts                                       *)

WorkflowTransitions ==
  [ PENDING      |-> {"RUNNING", "CANCELLED"},
    RUNNING      |-> {"COMPLETED", "FAILED", "CANCELLED", "COMPENSATING"},
    COMPLETED    |-> {"COMPENSATING"},
    FAILED       |-> {"RUNNING", "CANCELLED", "COMPENSATING"},
    CANCELLED    |-> {"COMPENSATING"},
    COMPENSATING |-> {"COMPENSATED", "FAILED"},
    COMPENSATED  |-> {} ]

StepTransitions ==
  [ PENDING      |-> {"RUNNING", "SKIPPED"},
    RUNNING      |-> {"COMPLETED", "FAILED", "SKIPPED"},
    COMPLETED    |-> {"COMPENSATING"},
    FAILED       |-> {"RUNNING", "SKIPPED", "COMPENSATING"},
    SKIPPED      |-> {"COMPENSATING"},
    COMPENSATING |-> {"COMPENSATED", "FAILED"},
    COMPENSATED  |-> {} ]

WorkflowStates == DOMAIN WorkflowTransitions
StepStates == DOMAIN StepTransitions

canTransitionWorkflow(from, to) == to \in WorkflowTransitions[from]
canTransitionStep(from, to) == to \in StepTransitions[from]

isWorkflowRecoverable(s) == s = "FAILED"
canWorkflowCompensate_running(s) == s \in {"RUNNING", "COMPLETED", "FAILED", "CANCELLED"}
canWorkflowCompensate(s) == s \in {"COMPLETED", "FAILED", "CANCELLED"}

shouldRetry_one_more(retryCount) == retryCount <= MaxRetries
shouldRetry(retryCount) == retryCount < MaxRetries

-----------------------------------------------------------------------------
(* Tasks. A task record holds the await it is blocked on (pc), the row it  *)
(* works on (key), its copies of the workflow state (w) and of the step    *)
(* rows (s), whether its workflow entity was loaded with its steps, so     *)
(* that saving it also saves them (rel), the step it is at (i), and what   *)
(* a recovery pass has still to look at (todo).                            *)

NoKey == <<>>
Idle == [op |-> "idle", pc |-> "idle", key |-> NoKey, w |-> "PENDING",
         s |-> <<>>, rel |-> FALSE, i |-> 0, todo |-> {}]

Reader(op, pc, k, rel) ==
  [Idle EXCEPT !.op = op, !.pc = pc, !.key = k, !.w = wf[k],
               !.s = IF rel THEN st[k] ELSE <<>>, !.rel = rel]

IsIdle(t) == task[t].op = "idle"
Becomes(t, x) == task' = [task EXCEPT ![t] = x]

\* repository.save(workflow) and repository.save(step).
SaveWorkflow(x) ==
  /\ wf' = [wf EXCEPT ![x.key] = x.w]
  /\ st' = IF x.rel THEN [st EXCEPT ![x.key] = x.s] ELSE st
SaveStep(x) ==
  /\ st' = [st EXCEPT ![x.key][x.i] = x.s[x.i]]
  /\ UNCHANGED wf

\* The catch of executeWorkflow: the copy becomes FAILED and is saved.
FailWorkflow(x) == [x EXCEPT !.w = "FAILED", !.pc = "saveFailed"]

\* The loop of executeSteps: the next step, or the end of the workflow.
NextStep_never_completes(x, i) ==
  IF i > Len(x.s) THEN Idle ELSE [x EXCEPT !.i = i, !.pc = "saveCurrent"]
NextStep_skips_last(x, i) ==
  IF i >= Len(x.s) THEN [x EXCEPT !.w = "COMPLETED", !.pc = "saveCompleted"]
                   ELSE [x EXCEPT !.i = i, !.pc = "saveCurrent"]
NextStep(x, i) ==
  IF i > Len(x.s) THEN [x EXCEPT !.w = "COMPLETED", !.pc = "saveCompleted"]
                  ELSE [x EXCEPT !.i = i, !.pc = "saveCurrent"]

\* The entry of executeStep: the transition check is outside its try block.
EnterStep(x) ==
  IF canTransitionStep(x.s[x.i].state, "RUNNING")
  THEN [x EXCEPT !.s[x.i].state = "RUNNING", !.pc = "saveStepRunning"]
  ELSE FailWorkflow(x)

\* The catch of executeStep.
StepFails_swallowed(x) ==
  LET r == x.s[x.i].retryCount + 1 IN
  [x EXCEPT !.s[x.i] = [state |-> "FAILED", retryCount |-> r],
            !.pc = IF shouldRetry(r) THEN "saveRetry" ELSE "saveStepDone"]
StepFails(x) ==
  LET r == x.s[x.i].retryCount + 1 IN
  [x EXCEPT !.s[x.i] = [state |-> "FAILED", retryCount |-> r],
            !.pc = IF shouldRetry(r) THEN "saveRetry" ELSE "saveStepFailed"]

\* executeWorkflow up to its first await: it throws when its copy may not
\* become RUNNING.
ExecuteWorkflow(x) ==
  IF canTransitionWorkflow(x.w, "RUNNING")
  THEN [x EXCEPT !.w = "RUNNING", !.pc = "saveRunning"]
  ELSE Idle

\* The next step to compensate, in reverse order, among the completed steps of
\* the copy; below bounds the steps not compensated yet.
ToCompensate_skips_one(x, below) ==
  {j \in 1 .. Len(x.s) : j < below - 1 /\ x.s[j].state = "COMPLETED" /\ j \in Compensable}
ToCompensate(x, below) ==
  {j \in 1 .. Len(x.s) : j < below /\ x.s[j].state = "COMPLETED" /\ j \in Compensable}
NextCompensation(x, below) ==
  LET todo == ToCompensate(x, below)
      j == CHOOSE m \in todo : \A n \in todo : n <= m
  IN IF todo = {} THEN [x EXCEPT !.w = "COMPENSATED", !.pc = "saveCompensated"]
     ELSE [x EXCEPT !.i = j, !.s[j].state = "COMPENSATING", !.pc = "saveStepCompensating"]

-----------------------------------------------------------------------------
Init ==
  /\ today = 1
  /\ wf = [k \in Keys |-> "NONE"]
  /\ st = [k \in Keys |-> <<>>]
  /\ task = [t \in Tasks |-> Idle]
  /\ used = {}
  /\ crashes = 0
  /\ did = [k \in Keys |-> [i \in StepIds |-> 0]]

\* The date changes; the same request then hashes to another key.
NextDay ==
  /\ today < MaxDay
  /\ today' = today + 1
  /\ UNCHANGED <<wf, st, task, used, crashes, did>>

\* The process stops: every task and all memory is lost, the database is not.
Crash ==
  /\ crashes < MaxCrashes
  /\ crashes' = crashes + 1
  /\ task' = [t \in Tasks |-> Idle]
  /\ UNCHANGED <<today, wf, st, used, did>>

-----------------------------------------------------------------------------
(* startWorkflow and executeWorkflow                                       *)

\* No workflow has the key: create one. Otherwise the existing one is returned
\* and nothing changes.
startWorkflow(t, r) ==
  /\ IsIdle(t)
  /\ wf[<<r, today>>] = "NONE"
  /\ Becomes(t, [Idle EXCEPT !.op = "start", !.pc = "insertWorkflow", !.key = <<r, today>>])
  /\ UNCHANGED <<today, wf, st, used, crashes, did>>

\* The key column is unique: of two tasks that found no row one fails here.
UniqueKey_missing(x) == TRUE
UniqueKey(x) == wf[x.key] = "NONE"
InsertWorkflow(t) ==
  LET x == task[t] IN
  /\ x.pc = "insertWorkflow"
  /\ IF UniqueKey(x)
     THEN /\ wf' = [wf EXCEPT ![x.key] = "PENDING"]
          /\ Becomes(t, [x EXCEPT !.pc = "insertSteps"])
     ELSE /\ UNCHANGED wf
          /\ Becomes(t, Idle)
  /\ UNCHANGED <<today, st, used, crashes, did>>

FreshSteps_one_short == [i \in 1 .. (N - 1) |-> [state |-> "PENDING", retryCount |-> 0]]
FreshSteps == [i \in StepIds |-> [state |-> "PENDING", retryCount |-> 0]]
InsertSteps(t) ==
  LET x == task[t] IN
  /\ x.pc = "insertSteps"
  /\ st' = [st EXCEPT ![x.key] = FreshSteps]
  /\ Becomes(t, ExecuteWorkflow(x))
  /\ UNCHANGED <<today, wf, used, crashes, did>>

SaveRunning(t) ==
  LET x == task[t] IN
  /\ x.pc = "saveRunning"
  /\ SaveWorkflow(x)
  /\ Becomes(t, [x EXCEPT !.pc = "findSteps"])
  /\ UNCHANGED <<today, used, crashes, did>>

FindSteps(t) ==
  LET x == task[t] IN
  /\ x.pc = "findSteps"
  /\ Becomes(t, NextStep([x EXCEPT !.s = st[x.key]], 1))
  /\ UNCHANGED <<today, wf, st, used, crashes, did>>

\* currentStepIndex is saved before each step; the state column goes with it.
SaveCurrentStepIndex(t) ==
  LET x == task[t] IN
  /\ x.pc = "saveCurrent"
  /\ SaveWorkflow(x)
  /\ Becomes(t, EnterStep(x))
  /\ UNCHANGED <<today, used, crashes, did>>

\* An idempotent step saves its key as well; nothing ever looks the key up.
SaveStepRunning(t) ==
  LET x == task[t] IN
  /\ x.pc \in {"saveStepRunning", "saveKey"}
  /\ SaveStep(x)
  /\ Becomes(t, [x EXCEPT !.pc = IF x.pc = "saveStepRunning" /\ x.i \in Idempotent
                                 THEN "saveKey" ELSE "run"])
  /\ UNCHANGED <<today, used, crashes, did>>

\* The step's function returns ...
StepSucceeds(t) ==
  LET x == task[t] IN
  /\ x.pc = "run"
  /\ did' = [did EXCEPT ![x.key][x.i] = @ + 1]
  /\ Becomes(t, [x EXCEPT !.s[x.i].state = "COMPLETED", !.pc = "saveStepDone"])
  /\ UNCHANGED <<today, wf, st, used, crashes>>

\* ... or throws.
StepThrows(t) ==
  LET x == task[t] IN
  /\ x.pc = "run"
  /\ Becomes(t, StepFails(x))
  /\ UNCHANGED <<today, wf, st, used, crashes, did>>

\* The result of the step is saved; then the next step, the retry after its
\* delay, or the end of the workflow.
SaveStepResult(t) ==
  LET x == task[t] IN
  /\ x.pc \in {"saveStepDone", "saveRetry", "saveStepFailed"}
  /\ SaveStep(x)
  /\ Becomes(t, CASE x.pc = "saveStepDone"   -> NextStep(x, x.i + 1)
                  [] x.pc = "saveRetry"      -> EnterStep(x)
                  [] x.pc = "saveStepFailed" -> FailWorkflow(x))
  /\ UNCHANGED <<today, used, crashes, did>>

\* The last save of executeWorkflow.
SaveOutcome(t) ==
  LET x == task[t] IN
  /\ x.pc \in {"saveCompleted", "saveFailed"}
  /\ SaveWorkflow(x)
  /\ Becomes(t, Idle)
  /\ UNCHANGED <<today, used, crashes, did>>

-----------------------------------------------------------------------------
(* Administrator calls: each starts by reading the row.                    *)

Call(t, op, x) ==
  /\ IsIdle(t)
  /\ op \in Ops \ used
  /\ Cardinality(used) < MaxCalls
  /\ used' = used \union {op}
  /\ Becomes(t, x)
  /\ UNCHANGED <<today, wf, st, crashes, did>>

retryWorkflow(t, k) ==
  /\ isWorkflowRecoverable(wf[k])
  /\ Call(t, "retry", [Reader("retry", "retrySave", k, TRUE) EXCEPT !.w = "RUNNING"])

\* retryWorkflow's first save is followed by the reset of the first failed step
\* of the copy, then by executeWorkflow on a copy that already says RUNNING.
RetrySave(t) ==
  LET x == task[t]
      failed == {i \in 1 .. Len(x.s) : x.s[i].state = "FAILED"}
      i == CHOOSE m \in failed : \A n \in failed : m <= n
  IN
  /\ x.pc = "retrySave"
  /\ SaveWorkflow(x)
  /\ Becomes(t, IF failed = {} THEN ExecuteWorkflow(x)
                ELSE [x EXCEPT !.i = i, !.s[i].state = "PENDING", !.pc = "retrySaveStep"])
  /\ UNCHANGED <<today, used, crashes, did>>

RetrySaveStep(t) ==
  LET x == task[t] IN
  /\ x.pc = "retrySaveStep"
  /\ SaveStep(x)
  /\ Becomes(t, ExecuteWorkflow(x))
  /\ UNCHANGED <<today, used, crashes, did>>

\* The admin controller's retry of one step resets the step's row, then calls
\* retryWorkflow.
retryWorkflowStep(t, k, i) ==
  /\ i \in 1 .. Len(st[k])
  /\ st[k][i].state = "FAILED"
  /\ Call(t, "retryStep",
          [Idle EXCEPT !.op = "retryStep", !.pc = "resetStep", !.key = k, !.i = i,
                       !.s = [st[k] EXCEPT ![i] = [state |-> "PENDING",
                                                  retryCount |-> @.retryCount + 1]]])

ResetStep(t) ==
  LET x == task[t] IN
  /\ x.pc = "resetStep"
  /\ SaveStep(x)
  /\ Becomes(t, [x EXCEPT !.pc = "readForRetry"])
  /\ UNCHANGED <<today, used, crashes, did>>

ReadForRetry(t) ==
  LET x == task[t] IN
  /\ x.pc = "readForRetry"
  /\ Becomes(t, IF isWorkflowRecoverable(wf[x.key])
                THEN [Reader("retry", "retrySave", x.key, TRUE) EXCEPT !.w = "RUNNING"]
                ELSE Idle)
  /\ UNCHANGED <<today, wf, st, used, crashes, did>>

\* cancelWorkflow reads the row without its steps and tells no running task.
cancelWorkflow(t, k) ==
  /\ wf[k] # "NONE"
  /\ canTransitionWorkflow(wf[k], "CANCELLED")
  /\ Call(t, "cancel", [Reader("cancel", "cancelSave", k, FALSE) EXCEPT !.w = "CANCELLED"])

CancelSave(t) ==
  LET x == task[t] IN
  /\ x.pc = "cancelSave"
  /\ SaveWorkflow(x)
  /\ Becomes(t, Idle)
  /\ UNCHANGED <<today, used, crashes, did>>

-----------------------------------------------------------------------------
(* compensation.service.ts. Calls that arrive between the two inserts of   *)
(* startWorkflow, when the workflow has no steps yet, are left out.        *)

compensateWorkflow(t, k) ==
  /\ st[k] # <<>>
  /\ canWorkflowCompensate(wf[k])
  /\ canTransitionWorkflow(wf[k], "COMPENSATING")
  /\ Call(t, "compensate",
          [Reader("compensate", "saveCompensating", k, TRUE) EXCEPT !.w = "COMPENSATING"])

\* No check of the state, and no try block.
forceCompensateWorkflow(t, k) ==
  /\ st[k] # <<>>
  /\ Call(t, "force",
          [Reader("force", "saveCompensating", k, TRUE) EXCEPT !.w = "COMPENSATING"])

SaveCompensating(t) ==
  LET x == task[t] IN
  /\ x.pc = "saveCompensating"
  /\ SaveWorkflow(x)
  /\ Becomes(t, NextCompensation(x, Len(x.s) + 1))
  /\ UNCHANGED <<today, used, crashes, did>>

SaveStepCompensating(t) ==
  LET x == task[t] IN
  /\ x.pc = "saveStepCompensating"
  /\ SaveStep(x)
  /\ Becomes(t, [x EXCEPT !.s[x.i].state = "COMPENSATED", !.pc = "saveStepCompensated"])
  /\ UNCHANGED <<today, used, crashes, did>>

SaveStepCompensated(t) ==
  LET x == task[t] IN
  /\ x.pc = "saveStepCompensated"
  /\ SaveStep(x)
  /\ Becomes(t, NextCompensation(x, x.i))
  /\ UNCHANGED <<today, used, crashes, did>>

\* A step whose compensation could not be recorded (compensateWorkflow only).
SaveStepUncompensated(t) ==
  LET x == task[t] IN
  /\ x.pc = "saveStepUncompensated"
  /\ SaveStep(x)
  /\ Becomes(t, [x EXCEPT !.w = "FAILED", !.pc = "saveUncompensated"])
  /\ UNCHANGED <<today, used, crashes, did>>

SaveCompensated(t) ==
  LET x == task[t] IN
  /\ x.pc \in {"saveCompensated", "saveUncompensated"}
  /\ SaveWorkflow(x)
  /\ Becomes(t, Idle)
  /\ UNCHANGED <<today, used, crashes, did>>

-----------------------------------------------------------------------------
(* recovery.service.ts                                                     *)

\* A row looks untouched for longer than a threshold when no execution keeps
\* writing it, and may look so beside an execution that is slow enough. A row
\* that is still fresh after a crash is skipped, which is the same as the pass
\* coming later.
Live(k) == \E t \in Tasks : task[t].key = k /\ task[t].op \in {"start", "retry"}
StaleSubset(rows, keyOf(_), stale) ==
  /\ stale \subseteq rows
  /\ \A row \in rows \ stale : Live(keyOf(row))
  /\ SlowSteps \/ \A row \in stale : ~Live(keyOf(row))

\* The stale RUNNING workflows with their steps, as recoverOrphanedWorkflows
\* reads them; a fresh one is skipped.
Orphans(stale) ==
  /\ StaleSubset({k \in Keys : wf[k] = "RUNNING"}, LAMBDA k : k, stale)
OrphanCopies(stale) == {[key |-> k, w |-> wf[k], s |-> st[k]] : k \in stale}

\* Scheduled and startup passes exclude each other by isRecovering ...
scheduledRecovery(t) ==
  /\ IsIdle(t)
  /\ \A u \in Tasks : task[u].op # "recovery"
  /\ \E stale \in SUBSET Keys :
       /\ Orphans(stale)
       /\ Becomes(t, [Idle EXCEPT !.op = "recovery", !.pc = "orphans",
                                  !.todo = OrphanCopies(stale)])
  /\ UNCHANGED <<today, wf, st, used, crashes, did>>

\* ... a manual pass does not look at the flag.
triggerManualRecovery(t) ==
  \E stale \in SUBSET Keys :
    /\ Orphans(stale)
    /\ Call(t, "manualRecovery",
            [Idle EXCEPT !.op = "manual", !.pc = "orphans", !.todo = OrphanCopies(stale)])

\* recoverWorkflow on one workflow of the list: one with a failed step is marked
\* FAILED, and executeWorkflow is called for the others.
RecoverWorkflow(t) ==
  LET x == task[t] IN
  /\ x.pc = "orphans"
  /\ \E o \in x.todo :
       LET rest == [x EXCEPT !.todo = x.todo \ {o}]
           copy == [rest EXCEPT !.key = o.key, !.w = o.w, !.s = o.s, !.rel = TRUE]
           resumed == ExecuteWorkflow(copy)
       IN Becomes(t, IF \E i \in 1 .. Len(o.s) : o.s[i].state = "FAILED"
                     THEN [copy EXCEPT !.w = "FAILED", !.pc = "recoverySave"]
                     ELSE IF resumed = Idle THEN rest ELSE resumed)
  /\ UNCHANGED <<today, wf, st, used, crashes, did>>

RecoverySave(t) ==
  LET x == task[t] IN
  /\ x.pc = "recoverySave"
  /\ SaveWorkflow(x)
  /\ Becomes(t, [Idle EXCEPT !.op = x.op, !.pc = "orphans", !.todo = x.todo])
  /\ UNCHANGED <<today, used, crashes, did>>

\* recoverStuckSteps reads the steps that have been RUNNING for too long, each
\* with the workflow it belongs to.
FindStuckSteps(t) ==
  LET x == task[t]
      running == {p \in Keys \X StepIds : /\ p[2] <= Len(st[p[1]])
                                          /\ st[p[1]][p[2]].state = "RUNNING"}
  IN
  /\ x.pc = "orphans" /\ x.todo = {}
  /\ \E stuck \in SUBSET running :
       /\ StaleSubset(running, LAMBDA p : p[1], stuck)
       /\ Becomes(t, IF stuck = {} THEN Idle
                     ELSE [x EXCEPT !.pc = "stuck",
                             !.todo = {[key |-> p[1], i |-> p[2], w |-> wf[p[1]], s |-> st[p[1]]]
                                       : p \in stuck}])
  /\ UNCHANGED <<today, wf, st, used, crashes, did>>

AfterStuck(x) ==
  IF x.todo = {} THEN Idle
  ELSE [Idle EXCEPT !.op = x.op, !.pc = "stuck", !.todo = x.todo]

\* recoverStuckStep: the step fails with one more retry used; without retries
\* left its workflow is failed first.
RecoverStuckStep(t) ==
  LET x == task[t] IN
  /\ x.pc = "stuck"
  /\ \E o \in x.todo :
       LET r == o.s[o.i].retryCount + 1
           rest == [x EXCEPT !.todo = x.todo \ {o}]
       IN Becomes(t, IF o.w # "RUNNING" THEN AfterStuck(rest)
                     ELSE [rest EXCEPT
                             !.key = o.key, !.i = o.i,
                             !.s = [o.s EXCEPT ![o.i] = [state |-> "FAILED", retryCount |-> r]],
                             !.w = IF shouldRetry(r) THEN o.w ELSE "FAILED",
                             !.pc = IF shouldRetry(r) THEN "stuckSaveStep" ELSE "stuckSave"])
  /\ UNCHANGED <<today, wf, st, used, crashes, did>>

StuckSave(t) ==
  LET x == task[t] IN
  /\ x.pc = "stuckSave"
  /\ SaveWorkflow(x)
  /\ Becomes(t, [x EXCEPT !.pc = "stuckSaveStep"])
  /\ UNCHANGED <<today, used, crashes, did>>

StuckSaveStep(t) ==
  LET x == task[t] IN
  /\ x.pc = "stuckSaveStep"
  /\ SaveStep(x)
  /\ Becomes(t, AfterStuck(x))
  /\ UNCHANGED <<today, used, crashes, did>>

-----------------------------------------------------------------------------
(* A database call fails: where the exception goes from each await.        *)

InsideTry == {"findSteps", "saveCurrent", "saveStepRunning", "saveRetry", "saveStepFailed",
              "saveCompleted"}
AfterError(x) ==
  CASE x.pc \in {"saveKey", "saveStepDone"} -> StepFails(x)
    [] x.pc \in InsideTry -> FailWorkflow(x)
    [] x.op = "compensate" /\ x.pc = "saveStepCompensated" ->
         [x EXCEPT !.s[x.i].state = "FAILED", !.pc = "saveStepUncompensated"]
    [] x.op = "compensate"
         /\ x.pc \in {"saveStepCompensating", "saveStepUncompensated", "saveCompensated"} ->
         [x EXCEPT !.w = "FAILED", !.pc = "saveUncompensated"]
    [] x.pc = "recoverySave" ->
         [Idle EXCEPT !.op = x.op, !.pc = "orphans", !.todo = x.todo]
    [] x.pc \in {"stuckSave", "stuckSaveStep"} -> AfterStuck(x)
    [] OTHER -> Idle

DatabaseError(t) ==
  /\ DbErrors
  /\ task[t].pc \notin {"idle", "run", "orphans", "stuck"}
  /\ Becomes(t, AfterError(task[t]))
  /\ UNCHANGED <<today, wf, st, used, crashes, did>>

-----------------------------------------------------------------------------
\* One awaited call of a task returns.
Resume(t) ==
  \/ InsertWorkflow(t) \/ InsertSteps(t) \/ SaveRunning(t) \/ FindSteps(t)
  \/ SaveCurrentStepIndex(t) \/ SaveStepRunning(t) \/ StepSucceeds(t) \/ StepThrows(t)
  \/ SaveStepResult(t) \/ SaveOutcome(t)
  \/ RetrySave(t) \/ RetrySaveStep(t) \/ ResetStep(t) \/ ReadForRetry(t) \/ CancelSave(t)
  \/ SaveCompensating(t) \/ SaveStepCompensating(t) \/ SaveStepCompensated(t)
  \/ SaveStepUncompensated(t) \/ SaveCompensated(t)
  \/ RecoverWorkflow(t) \/ RecoverySave(t) \/ FindStuckSteps(t) \/ RecoverStuckStep(t)
  \/ StuckSave(t) \/ StuckSaveStep(t)

\* The endpoints of WorkflowAdminController.
PostRetry(t, k) == retryWorkflow(t, k)
PostCancel(t, k) == cancelWorkflow(t, k)
PostCompensate(t, k) == compensateWorkflow(t, k)
PostForceCompensate(t, k) == forceCompensateWorkflow(t, k)
triggerRecovery(t) == triggerManualRecovery(t)
AdminCall(t, k) ==
  \/ PostRetry(t, k)
  \/ \E i \in StepIds : retryWorkflowStep(t, k, i)
  \/ PostCancel(t, k) \/ PostCompensate(t, k) \/ PostForceCompensate(t, k)

Next ==
  \/ NextDay
  \/ Crash
  \/ \E t \in Tasks :
       \/ \E r \in Requests : startWorkflow(t, r)
       \/ \E k \in Keys : AdminCall(t, k)
       \/ scheduledRecovery(t)
       \/ triggerRecovery(t)
       \/ Resume(t)
       \/ DatabaseError(t)

Spec == Init /\ [][Next]_vars

\* Fairness: the event loop resumes every task whose awaited call has returned
\* (database calls and step functions return), and the five-minute cron fires.
Fairness ==
  /\ \A t \in Tasks : WF_vars(Resume(t))
  /\ WF_vars(\E t \in Tasks : scheduledRecovery(t))

FairSpec == Spec /\ Fairness

-----------------------------------------------------------------------------
(* Properties.                                                             *)

StepRow == [state : StepStates, retryCount : Nat]

\* Rows and tasks have the states the services know; a workflow has no steps
\* or all of them, and no steps without a workflow.
TypeOK ==
  /\ today \in 1 .. MaxDay
  /\ \A k \in Keys :
       /\ wf[k] \in WorkflowStates \union {"NONE"}
       /\ st[k] = <<>> \/ (wf[k] # "NONE" /\ st[k] \in [StepIds -> StepRow])
       /\ did[k] \in [StepIds -> Nat]
  /\ \A t \in Tasks :
       /\ task[t].w \in WorkflowStates \union {"NONE"}
       /\ task[t].key \in Keys \union {NoKey}
       /\ task[t].i \in 0 .. N
  /\ used \subseteq Ops
  /\ crashes \in 0 .. MaxCrashes

\* Steps take effect in order: whatever crashes, retries, recovery passes,
\* cancellations and compensations run beside the execution, no step's function
\* has succeeded unless those of all earlier steps have.
StepOrder ==
  \A k \in Keys : \A i, j \in StepIds : i < j /\ did[k][j] > 0 => did[k][i] > 0

\* While every save succeeds, no step of one idempotency key takes effect twice,
\* although duplicate requests, retries and recovery passes race with the
\* execution (the unique key and the transition tables are all that prevents it).
AtMostOnce == \A k \in Keys : \A i \in StepIds : did[k][i] <= 1

\* A workflow row says COMPLETED only when every step has taken effect.
CompletedMeansDone ==
  \A k \in Keys : wf[k] = "COMPLETED" => \A i \in StepIds : did[k][i] > 0

\* Even when saving a success fails and the step runs again, it takes effect at
\* most maxRetries times.
BoundedRepetition == \A k \in Keys : \A i \in StepIds : did[k][i] <= MaxRetries

\* The workflow column only moves along the transition table.
LegalTransitions ==
  [][\A k \in Keys :
       wf'[k] # wf[k] =>
         IF wf[k] = "NONE" THEN wf'[k] = "PENDING"
         ELSE canTransitionWorkflow(wf[k], wf'[k])]_vars

\* A workflow that says COMPENSATED has no compensable step that took effect and
\* is not marked compensated.  (Marking is all the service does: it simulates the
\* call of the step's compensate function.)
CompensatedMeansUndone ==
  \A k \in Keys :
    wf[k] = "COMPENSATED" =>
      \A i \in Compensable : did[k][i] > 0 => st[k][i].state = "COMPENSATED"

\* Every workflow that is started, resumed or being compensated leaves that state.
Unfinished(k) == wf[k] \in {"PENDING", "RUNNING", "COMPENSATING"}
EveryRunEnds == \A k \in Keys : Unfinished(k) ~> ~Unfinished(k)

\* What the README says of the engine: the same request takes effect exactly
\* once, over all the keys it was given.
ExactlyOncePerRequest ==
  \A r \in Requests, i \in StepIds, d, e \in 1 .. MaxDay :
    did[<<r, d>>][i] + (IF d = e THEN 0 ELSE did[<<r, e>>][i]) <= 1

-----------------------------------------------------------------------------
\* For TLC: tasks are interchangeable (used by the runs without liveness
\* properties).
TaskSymmetry == Permutations(Tasks)
=============================================================================
