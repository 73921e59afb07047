--------------------------- MODULE WorkflowProofs ---------------------------
(***************************************************************************)
(* Proofs about WorkflowEngine, for any requests, days, steps, tasks,      *)
(* administrator calls and crashes.                                        *)
(*                                                                         *)
(* The argument: of the tasks that could run a step of a key, only the one *)
(* that inserted the key's row ever does.  The row is unique; a retry and  *)
(* a recovery pass call executeWorkflow on a copy that already says        *)
(* RUNNING, which the transition table refuses.  So the position of that   *)
(* one task (TaskOk) tells which steps have taken effect, and nothing that *)
(* another task writes to the rows of the key can change it.               *)
(***************************************************************************)
EXTENDS WorkflowEngine, WellFoundedInduction, TLAPS

Rows == [StepIds -> StepRow]

\* What the recovery passes keep of a workflow, and of a step.
OrphanCopy == [key : Keys, w : {"RUNNING"}, s : Rows]
StuckCopy == [key : Keys, i : StepIds, w : WorkflowStates, s : Rows]

(* The awaits of a task, by what its position says of the steps.           *)
Starting  == {"insertSteps", "saveRunning", "findSteps"}
AboutToRun == {"saveStepRunning", "saveKey", "run", "saveRetry"}
InSteps   == {"saveCurrent", "saveStepDone", "saveStepFailed"} \union AboutToRun
Executing == Starting \union InSteps
Compensating == {"saveStepCompensating", "saveStepCompensated", "saveStepUncompensated"}
Working == InSteps \union Compensating \union
           {"saveRunning", "findSteps", "saveCompleted", "saveCompensating", "saveCompensated"}
SavesStep == (InSteps \ {"saveCurrent"}) \union Compensating \union
             {"retrySaveStep", "resetStep", "stuckSave", "stuckSaveStep"}

OpNames == {"idle", "start", "retry", "retryStep", "cancel", "compensate", "force",
            "recovery", "manual"}
PcNames == Executing \union SavesStep \union
           {"idle", "insertWorkflow", "saveCompleted", "saveFailed", "retrySave",
            "readForRetry", "cancelSave", "saveCompensating", "saveCompensated",
            "saveUncompensated", "orphans", "recoverySave", "stuck"}
TaskType ==
  [ op : OpNames, pc : PcNames, key : Keys \union {NoKey}, w : WorkflowStates,
    s : {<<>>} \union Rows, rel : BOOLEAN, i : 0 .. N, todo : SUBSET (OrphanCopy \union StuckCopy) ]

\* What is true of a task x in a state whose tables and history are w, s and d.
TaskOk(x, w, s, d) ==
  /\ x \in TaskType
  /\ x.pc \notin {"idle", "orphans", "stuck"} => x.key \in Keys
  /\ x.w \notin {"PENDING", "CANCELLED"} => x.key \in Keys /\ s[x.key] \in Rows
  /\ x.rel => x.s \in Rows
  /\ x.pc \in SavesStep \union {"saveCurrent"} =>
       x.s \in Rows /\ x.i \in StepIds /\ s[x.key] \in Rows
  /\ x.pc \in {"retrySave", "retrySaveStep", "saveCompensating"} => x.s \in Rows
  /\ x.pc \in {"retrySave", "retrySaveStep"} => x.w = "RUNNING"
  /\ x.pc \in Working => x.w \notin {"PENDING", "CANCELLED"}
  /\ x.pc \in Executing => w[x.key] # "NONE"
  /\ x.pc \in Starting => \A i \in StepIds : d[x.key][i] = 0
  /\ x.pc \in InSteps =>
       /\ \A i \in StepIds : i < x.i => d[x.key][i] > 0
       /\ \A i \in StepIds : i > x.i => d[x.key][i] = 0
  /\ x.pc = "saveCurrent" => d[x.key][x.i] = 0
  /\ x.pc \in AboutToRun =>
       /\ d[x.key][x.i] < MaxRetries /\ d[x.key][x.i] <= x.s[x.i].retryCount
       /\ ~DbErrors => d[x.key][x.i] = 0
  /\ x.pc = "saveStepDone" =>
       d[x.key][x.i] > 0 /\ d[x.key][x.i] <= x.s[x.i].retryCount + 1
  /\ x.w = "COMPLETED" => \A i \in StepIds : d[x.key][i] > 0
  /\ x.pc \in {"orphans", "recoverySave"} => x.todo \subseteq OrphanCopy
  /\ x.pc \in {"stuck", "stuckSave", "stuckSaveStep"} => x.todo \subseteq StuckCopy
  /\ \A o \in x.todo : s[o.key] \in Rows

\* What is true of the tables w and s and of the history d.
TablesOk(w, s, d) ==
  /\ w \in [Keys -> WorkflowStates \union {"NONE"}]
  /\ s \in [Keys -> {<<>>} \union Rows]
  /\ d \in [Keys -> [StepIds -> Nat]]
  /\ \A k \in Keys :
       /\ s[k] = <<>> \/ w[k] # "NONE"
       /\ w[k] \notin {"NONE", "PENDING", "CANCELLED"} => s[k] \in Rows
       /\ w[k] = "NONE" => \A i \in StepIds : d[k][i] = 0
       /\ w[k] = "COMPLETED" => \A i \in StepIds : d[k][i] > 0
       /\ \A i, j \in StepIds : i < j /\ d[k][j] > 0 => d[k][i] > 0
       /\ \A i \in StepIds : d[k][i] <= MaxRetries /\ (~DbErrors => d[k][i] <= 1)

\* At most one task executes the steps of a key.
OneExecutor(T) ==
  \A t, u \in Tasks :
    T[t].pc \in Executing /\ T[u].pc \in Executing /\ T[t].key = T[u].key => t = u

ExecInv ==
  /\ today \in 1 .. MaxDay /\ used \subseteq Ops /\ crashes \in 0 .. MaxCrashes
  /\ task \in [Tasks -> TaskType]
  /\ TablesOk(wf, st, did)
  /\ \A t \in Tasks : TaskOk(task[t], wf, st, did)
  /\ OneExecutor(task)

-----------------------------------------------------------------------------
\* A set of natural numbers has a smallest member ...
LEMMA MinExists ==
  ASSUME NEW T, T \subseteq Nat, T # {}
  PROVE  \E m \in T : \A n \in T : m <= n
  <1>1. \A x, y \in Nat : x < y => <<x, y>> \in OpToRel(<, Nat)
    BY DEF OpToRel
  <1>2. PICK x \in T : \A y \in T : ~(<<y, x>> \in OpToRel(<, Nat))
    BY WFMin, NatLessThanWellFounded
  <1>3. ASSUME NEW y \in T PROVE x <= y
    <2>1. ~(y < x)
      BY <1>1, <1>2
    <2> QED
      BY <2>1
  <1> QED
    BY <1>3

\* ... and one of step numbers a largest.
LEMMA MaxExists ==
  ASSUME NEW T, T \subseteq StepIds, T # {}
  PROVE  \E m \in T : \A n \in T : n <= m
  <1>1. PICK U : U = {n \in Nat : \A m \in T : m <= n}
    OBVIOUS
  <1>0. N \in Nat
    BY CountsAssumption
  <1>2. U \subseteq Nat /\ N \in U
    BY <1>0, <1>1 DEF StepIds
  <1>3. PICK u \in U : \A v \in U : u <= v
    BY <1>2, MinExists
  <1>4. u \in T
    <2> SUFFICES ASSUME u \notin T PROVE FALSE
      OBVIOUS
    <2>1. u \in Nat /\ \A m \in T : m <= u /\ m # u /\ m \in Nat
      BY <1>0, <1>1 DEF StepIds
    <2>2. \A m \in T : m <= u - 1
      BY <2>1
    <2>3. PICK m \in T : TRUE
      OBVIOUS
    <2>4. m >= 1 /\ u - 1 \in Nat
      BY <1>0, <2>1, <2>3 DEF StepIds
    <2>5. u - 1 \in U
      BY <1>1, <2>2, <2>4
    <2> QED
      BY <1>3, <2>1, <2>5
  <1> QED
    BY <1>1, <1>4

-----------------------------------------------------------------------------
(* The tables of transitions.                                              *)

LEMMA StateNames ==
  /\ WorkflowStates = {"PENDING", "RUNNING", "COMPLETED", "FAILED", "CANCELLED",
                       "COMPENSATING", "COMPENSATED"}
  /\ StepStates = {"PENDING", "RUNNING", "COMPLETED", "FAILED", "SKIPPED",
                   "COMPENSATING", "COMPENSATED"}
  BY DEF WorkflowStates, StepStates, WorkflowTransitions, StepTransitions

\* executeWorkflow refuses a copy that already says RUNNING.
LEMMA RunningIsRefused ==
  ASSUME NEW x, x.w = "RUNNING" PROVE ExecuteWorkflow(x) = Idle
  BY DEF ExecuteWorkflow, canTransitionWorkflow, WorkflowTransitions

\* An idle task is as it should be, whatever the tables hold.
LEMMA IdleOk ==
  ASSUME NEW w, NEW s, NEW d PROVE TaskOk(Idle, w, s, d)
  <1>1. Idle \in TaskType
    BY StateNames, CountsAssumption DEF Idle, TaskType, OpNames, PcNames
  <1>2. Idle.pc = "idle" /\ Idle.w = "PENDING" /\ Idle.rel = FALSE /\ Idle.todo = {}
    BY DEF Idle
  <1> QED
    BY <1>1, <1>2
       DEF TaskOk, SavesStep, InSteps, AboutToRun, Starting, Executing, Compensating, Working

-----------------------------------------------------------------------------
(* How the tables change: rows are never deleted, effects never undone.    *)

Grow(w, s, d, w1, s1, d1) ==
  \A k \in Keys :
    /\ s[k] \in Rows => s1[k] \in Rows
    /\ w[k] # "NONE" => w1[k] # "NONE"
    /\ \A i \in StepIds : d[k][i] > 0 => d1[k][i] > 0

\* A task that is not executing the key whose steps took effect is not disturbed.
LEMMA Undisturbed ==
  ASSUME NEW x, NEW w, NEW s, NEW d, NEW w1, NEW s1, NEW d1,
         TaskOk(x, w, s, d), Grow(w, s, d, w1, s1, d1),
         x.pc \in Executing => d1[x.key] = d[x.key]
  PROVE  TaskOk(x, w1, s1, d1)
  <1>1. x.pc \in Executing => x.key \in Keys
    BY DEF TaskOk, Executing, Starting, InSteps, AboutToRun
  <1>2. InSteps \subseteq Executing /\ Starting \subseteq Executing
        /\ AboutToRun \subseteq Executing /\ "saveCurrent" \in Executing
        /\ "saveStepDone" \in Executing
    BY DEF Executing, Starting, InSteps, AboutToRun
  <1>3. x.pc \in SavesStep => x.key \in Keys
    BY DEF TaskOk, SavesStep, InSteps, AboutToRun, Compensating
  <1>4. \A o \in x.todo : o.key \in Keys
    BY DEF TaskOk, TaskType, OrphanCopy, StuckCopy
  <1> QED
    BY <1>1, <1>2, <1>3, <1>4 DEF TaskOk, Grow

\* repository.save(workflow) keeps the tables in order.
LEMMA SaveWorkflowOk ==
  ASSUME NEW x, TablesOk(wf, st, did), TaskOk(x, wf, st, did), x.key \in Keys,
         SaveWorkflow(x), UNCHANGED did
  PROVE  TablesOk(wf', st', did') /\ Grow(wf, st, did, wf', st', did')
  <1>1. x.w \in WorkflowStates /\ x.w # "NONE"
    BY StateNames DEF TaskOk, TaskType
  <1>2. wf' = [wf EXCEPT ![x.key] = x.w]
    BY DEF SaveWorkflow
  <1>3. /\ st' \in [Keys -> {<<>>} \union Rows]
        /\ \A k \in Keys : k # x.key => st'[k] = st[k]
        /\ \A k \in Keys : st[k] \in Rows => st'[k] \in Rows
    BY DEF SaveWorkflow, TaskOk, TablesOk
  <1> QED
    BY <1>1, <1>2, <1>3 DEF TaskOk, TablesOk, Grow

\* So does repository.save(step).
LEMMA SaveStepOk ==
  ASSUME NEW x, TablesOk(wf, st, did), x.key \in Keys, x.i \in StepIds, x.s \in Rows,
         st[x.key] \in Rows, SaveStep(x), UNCHANGED did
  PROVE  TablesOk(wf', st', did') /\ Grow(wf, st, did, wf', st', did')
  <1>1. x.s[x.i] \in StepRow
    BY DEF Rows
  <1>2. [st[x.key] EXCEPT ![x.i] = x.s[x.i]] \in Rows
    BY <1>1 DEF Rows
  <1>3. /\ st' \in [Keys -> {<<>>} \union Rows]
        /\ \A k \in Keys : k # x.key => st'[k] = st[k]
        /\ st'[x.key] \in Rows
        /\ wf' = wf
    BY <1>2 DEF SaveStep, TablesOk
  <1>4. st[x.key] # <<>>
    BY DEF Rows
  <1>5. \A k \in Keys : st'[k] = <<>> \/ wf[k] # "NONE"
    BY <1>3, <1>4 DEF TablesOk
  <1> QED
    BY <1>3, <1>5 DEF TablesOk, Grow

-----------------------------------------------------------------------------
(* Where a task goes next.                                                 *)

\* The catch of executeWorkflow.
LEMMA FailOk ==
  ASSUME NEW x, NEW w, NEW s, NEW d, TaskOk(x, w, s, d), x.key \in Keys, s[x.key] \in Rows
  PROVE  TaskOk(FailWorkflow(x), w, s, d)
  <1>1. PICK y : y = FailWorkflow(x)
    OBVIOUS
  <1>2. /\ y \in TaskType /\ y.key = x.key /\ y.w = "FAILED" /\ y.pc = "saveFailed"
        /\ y.rel = x.rel /\ y.s = x.s /\ y.todo = x.todo
    BY <1>1, StateNames DEF FailWorkflow, TaskOk, TaskType, PcNames
  <1> QED
    BY <1>1, <1>2
       DEF TaskOk, SavesStep, InSteps, AboutToRun, Starting, Executing, Compensating, Working

\* The loop of executeSteps.
LEMMA NextStepOk ==
  ASSUME NEW x, NEW w, NEW s, NEW d, NEW i \in 1 .. (N + 1), TaskOk(x, w, s, d),
         x.key \in Keys, x.s \in Rows, s[x.key] \in Rows, w[x.key] # "NONE",
         x.w \notin {"PENDING", "CANCELLED"},
         \A j \in StepIds : j < i => d[x.key][j] > 0,
         \A j \in StepIds : j >= i => d[x.key][j] = 0
  PROVE  /\ TaskOk(NextStep(x, i), w, s, d)
         /\ NextStep(x, i).key = x.key
  <1>0. N \in Nat /\ MaxRetries \in Nat \ {0}
    BY CountsAssumption
  <1>1. Len(x.s) = N
    BY <1>0 DEF Rows, StepIds
  <1>2. CASE i > N
    <2>1. PICK y : y = [x EXCEPT !.w = "COMPLETED", !.pc = "saveCompleted"]
      OBVIOUS
    <2>2. NextStep(x, i) = y
      BY <1>1, <1>2, <2>1 DEF NextStep
    <2>3. /\ y \in TaskType /\ y.key = x.key /\ y.w = "COMPLETED" /\ y.pc = "saveCompleted"
          /\ y.rel = x.rel /\ y.s = x.s /\ y.todo = x.todo
      BY <2>1, StateNames DEF TaskOk, TaskType, PcNames
    <2>4. \A j \in StepIds : d[x.key][j] > 0
      BY <1>0, <1>2 DEF StepIds
    <2> QED
      BY <2>2, <2>3, <2>4
         DEF TaskOk, SavesStep, InSteps, AboutToRun, Starting, Executing, Compensating, Working
  <1>3. CASE ~(i > N)
    <2>1. PICK y : y = [x EXCEPT !.i = i, !.pc = "saveCurrent"]
      OBVIOUS
    <2>2. NextStep(x, i) = y
      BY <1>1, <1>3, <2>1 DEF NextStep
    <2>3. i \in StepIds /\ i \in 0 .. N
      BY <1>0, <1>3 DEF StepIds
    <2>4. /\ y \in TaskType /\ y.key = x.key /\ y.w = x.w /\ y.pc = "saveCurrent" /\ y.i = i
          /\ y.rel = x.rel /\ y.s = x.s /\ y.todo = x.todo
      BY <2>1, <2>3 DEF TaskOk, TaskType, PcNames, Executing, InSteps
    <2> QED
      BY <1>0, <2>2, <2>3, <2>4
         DEF TaskOk, SavesStep, InSteps, AboutToRun, Starting, Executing, Compensating, Working, StepIds
  <1> QED
    BY <1>2, <1>3

\* The entry of executeStep.
LEMMA EnterStepOk ==
  ASSUME NEW x, NEW w, NEW s, NEW d, TaskOk(x, w, s, d), x.pc \in {"saveCurrent", "saveRetry"}
  PROVE  TaskOk(EnterStep(x), w, s, d) /\ EnterStep(x).key = x.key
  <1>0. /\ x \in TaskType /\ x.key \in Keys /\ x.i \in StepIds /\ x.s \in Rows
        /\ s[x.key] \in Rows /\ MaxRetries \in Nat \ {0}
    BY CountsAssumption DEF TaskOk, SavesStep, InSteps, AboutToRun
  <1>1. PICK r : r = [x.s[x.i] EXCEPT !.state = "RUNNING"]
    OBVIOUS
  <1>2. x.s[x.i] \in StepRow /\ r \in StepRow /\ r.retryCount = x.s[x.i].retryCount
    BY <1>0, <1>1, StateNames DEF Rows, StepRow
  <1>3. PICK y : y = [x EXCEPT !.s = [x.s EXCEPT ![x.i] = r], !.pc = "saveStepRunning"]
    OBVIOUS
  <1>4. EnterStep(x) = IF canTransitionStep(x.s[x.i].state, "RUNNING") THEN y ELSE FailWorkflow(x)
    BY <1>1, <1>3 DEF EnterStep
  <1>5. [x.s EXCEPT ![x.i] = r] \in Rows
    BY <1>0, <1>2 DEF Rows
  <1>6. /\ y \in TaskType /\ y.key = x.key /\ y.w = x.w /\ y.pc = "saveStepRunning"
        /\ y.i = x.i /\ y.rel = x.rel /\ y.todo = x.todo /\ y.s \in Rows
        /\ y.s[y.i].retryCount = x.s[x.i].retryCount
    BY <1>0, <1>2, <1>3, <1>5 DEF TaskType, PcNames, Executing, InSteps, AboutToRun, Rows
  <1>7. d[x.key][x.i] < MaxRetries /\ d[x.key][x.i] <= x.s[x.i].retryCount
        /\ (~DbErrors => d[x.key][x.i] = 0)
    BY <1>0, <1>2 DEF TaskOk, AboutToRun, StepRow
  <1>8. TaskOk(y, w, s, d)
    BY <1>0, <1>6, <1>7
       DEF TaskOk, SavesStep, InSteps, AboutToRun, Starting, Executing, Compensating, Working
  <1>9. TaskOk(FailWorkflow(x), w, s, d) /\ FailWorkflow(x).key = x.key
    BY <1>0, FailOk DEF FailWorkflow, TaskType
  <1> QED
    BY <1>4, <1>6, <1>8, <1>9

\* The catch of executeStep.  A step runs again only while it has retries left,
\* and each failure uses one up, the failure to save a success too.
LEMMA StepFailsOk ==
  ASSUME NEW x, NEW w, NEW s, NEW d, TaskOk(x, w, s, d),
         d[x.key] \in [StepIds -> Nat],
         x.pc = "run" \/ (DbErrors /\ x.pc \in {"saveKey", "saveStepDone"})
  PROVE  TaskOk(StepFails(x), w, s, d) /\ StepFails(x).key = x.key
  <1>0. /\ x \in TaskType /\ x.key \in Keys /\ x.i \in StepIds /\ x.s \in Rows
        /\ s[x.key] \in Rows /\ MaxRetries \in Nat \ {0}
    BY CountsAssumption DEF TaskOk, SavesStep, InSteps, AboutToRun
  <1>1. PICK n : n = x.s[x.i].retryCount + 1
    OBVIOUS
  <1>2. PICK r : r = [state |-> "FAILED", retryCount |-> n]
    OBVIOUS
  <1>3. n \in Nat /\ r \in StepRow /\ r.retryCount = n
    BY <1>0, <1>1, <1>2, StateNames DEF Rows, StepRow
  <1>4. PICK y : y = [x EXCEPT !.s = [x.s EXCEPT ![x.i] = r],
                               !.pc = IF shouldRetry(n) THEN "saveRetry" ELSE "saveStepFailed"]
    OBVIOUS
  <1>5. StepFails(x) = y
    BY <1>1, <1>2, <1>4 DEF StepFails
  <1>6. [x.s EXCEPT ![x.i] = r] \in Rows
    BY <1>0, <1>3 DEF Rows
  <1>7. /\ y \in TaskType /\ y.key = x.key /\ y.w = x.w
        /\ y.pc = (IF shouldRetry(n) THEN "saveRetry" ELSE "saveStepFailed")
        /\ y.i = x.i /\ y.rel = x.rel /\ y.todo = x.todo /\ y.s \in Rows
        /\ y.s[y.i].retryCount = n
    BY <1>0, <1>3, <1>4, <1>6 DEF TaskType, PcNames, Executing, InSteps, AboutToRun, Rows
  <1>8. /\ d[x.key][x.i] \in Nat /\ d[x.key][x.i] <= n
        /\ x.pc = "run" /\ ~DbErrors => d[x.key][x.i] = 0
    BY <1>0, <1>1, <1>3 DEF TaskOk, AboutToRun, Rows, StepRow
  <1>9. shouldRetry(n) => d[x.key][x.i] < MaxRetries
    BY <1>0, <1>3, <1>8 DEF shouldRetry
  <1> QED
    BY <1>0, <1>5, <1>7, <1>8, <1>9
       DEF TaskOk, SavesStep, InSteps, AboutToRun, Starting, Executing, Compensating, Working

\* executeWorkflow up to its first await, after the steps were inserted.
LEMMA ExecuteOk ==
  ASSUME NEW x, NEW w, NEW s, NEW d, TaskOk(x, w, s, d), x.pc = "insertSteps",
         s[x.key] \in Rows
  PROVE  /\ TaskOk(ExecuteWorkflow(x), w, s, d)
         /\ ExecuteWorkflow(x).pc \in Executing => ExecuteWorkflow(x).key = x.key
  <1>0. x \in TaskType /\ x.key \in Keys
    BY DEF TaskOk
  <1>1. PICK y : y = [x EXCEPT !.w = "RUNNING", !.pc = "saveRunning"]
    OBVIOUS
  <1>2. /\ y \in TaskType /\ y.key = x.key /\ y.w = "RUNNING" /\ y.pc = "saveRunning"
        /\ y.rel = x.rel /\ y.s = x.s /\ y.todo = x.todo
    BY <1>0, <1>1, StateNames DEF TaskType, PcNames, Executing, Starting
  <1>3. TaskOk(y, w, s, d)
    BY <1>0, <1>2
       DEF TaskOk, SavesStep, InSteps, AboutToRun, Starting, Executing, Compensating, Working
  <1>4. Idle.pc \notin Executing
    BY DEF Idle, Executing, Starting, InSteps, AboutToRun
  <1> QED
    BY <1>1, <1>2, <1>3, <1>4, IdleOk DEF ExecuteWorkflow

\* The loop of the compensation service runs no step.
LEMMA CompensationOk ==
  ASSUME NEW x, NEW w, NEW s, NEW d, NEW below, TaskOk(x, w, s, d),
         x.key \in Keys, x.s \in Rows, s[x.key] \in Rows, x.w \notin {"PENDING", "CANCELLED"}
  PROVE  /\ TaskOk(NextCompensation(x, below), w, s, d)
         /\ NextCompensation(x, below).pc \notin Executing
  <1>0. x \in TaskType /\ N \in Nat
    BY CountsAssumption DEF TaskOk
  <1>1. CASE ToCompensate(x, below) = {}
    <2>1. PICK y : y = [x EXCEPT !.w = "COMPENSATED", !.pc = "saveCompensated"]
      OBVIOUS
    <2>2. NextCompensation(x, below) = y
      BY <1>1, <2>1 DEF NextCompensation
    <2>3. /\ y \in TaskType /\ y.key = x.key /\ y.w = "COMPENSATED" /\ y.pc = "saveCompensated"
          /\ y.rel = x.rel /\ y.s = x.s /\ y.todo = x.todo
      BY <1>0, <2>1, StateNames DEF TaskType, PcNames
    <2> QED
      BY <2>2, <2>3
         DEF TaskOk, SavesStep, InSteps, AboutToRun, Starting, Executing, Compensating, Working
  <1>2. CASE ToCompensate(x, below) # {}
    <2>1. PICK j : j = CHOOSE m \in ToCompensate(x, below) :
                          \A n \in ToCompensate(x, below) : n <= m
      OBVIOUS
    <2>2. PICK y : y = [x EXCEPT !.i = j, !.s = [x.s EXCEPT ![j] = [x.s[j] EXCEPT !.state = "COMPENSATING"]],
                                 !.pc = "saveStepCompensating"]
      OBVIOUS
    <2>3. NextCompensation(x, below) = y
      BY <1>2, <2>1, <2>2 DEF NextCompensation
    <2>4. ToCompensate(x, below) \subseteq StepIds
      BY <1>0 DEF ToCompensate, Rows, StepIds
    <2>5. j \in StepIds /\ j \in 0 .. N
      <3>1. \E m \in ToCompensate(x, below) : \A n \in ToCompensate(x, below) : n <= m
        BY <1>2, <2>4, MaxExists
      <3> QED
        BY <1>0, <2>1, <2>4, <3>1 DEF StepIds
    <2>6. [x.s[j] EXCEPT !.state = "COMPENSATING"] \in StepRow
      BY <2>5, StateNames DEF Rows, StepRow
    <2>7. [x.s EXCEPT ![j] = [x.s[j] EXCEPT !.state = "COMPENSATING"]] \in Rows
      BY <2>5, <2>6 DEF Rows
    <2>8. /\ y \in TaskType /\ y.key = x.key /\ y.w = x.w /\ y.pc = "saveStepCompensating"
          /\ y.i = j /\ y.rel = x.rel /\ y.s \in Rows /\ y.todo = x.todo
      BY <1>0, <2>2, <2>5, <2>7 DEF TaskType, PcNames, SavesStep, Compensating
    <2> QED
      BY <2>3, <2>5, <2>8
         DEF TaskOk, SavesStep, InSteps, AboutToRun, Starting, Executing, Compensating, Working
  <1> QED
    BY <1>1, <1>2

\* A call that has read the row of a key (state q) with its steps (e), and set
\* the state of its copy to v.
Copy(op, pc, k, q, e, v) ==
  [[Idle EXCEPT !.op = op, !.pc = pc, !.key = k, !.w = q, !.s = e, !.rel = TRUE] EXCEPT !.w = v]

LEMMA CopyType ==
  ASSUME NEW k \in Keys, NEW op \in OpNames, NEW pc \in PcNames, NEW q, NEW e \in Rows,
         NEW v \in WorkflowStates
  PROVE  \E y \in TaskType :
           /\ y = Copy(op, pc, k, q, e, v) /\ y.pc = pc /\ y.key = k /\ y.w = v /\ y.rel
           /\ y.s = e /\ y.todo = {}
  <1>1. PICK y : y = Copy(op, pc, k, q, e, v)
    OBVIOUS
  <1>2. Idle \in TaskType
    BY IdleOk DEF TaskOk
  <1>3. PICK z : z = [Idle EXCEPT !.op = op, !.pc = pc, !.key = k, !.w = q, !.s = e, !.rel = TRUE]
    OBVIOUS
  <1>4. y = [z EXCEPT !.w = v]
    BY <1>1, <1>3 DEF Copy
  <1>5. PICK W : W = WorkflowStates \union {q}
    OBVIOUS
  <1>6. /\ z \in [ op : OpNames, pc : PcNames, key : Keys \union {NoKey}, w : W,
                  s : {<<>>} \union Rows, rel : BOOLEAN, i : 0 .. N,
                  todo : SUBSET (OrphanCopy \union StuckCopy) ]
        /\ z.pc = pc /\ z.key = k /\ z.rel /\ z.s = e /\ z.todo = {}
    BY <1>2, <1>3, <1>5 DEF TaskType, Idle
  <1>7. /\ y \in TaskType /\ y.pc = pc /\ y.key = k /\ y.w = v /\ y.rel
        /\ y.s = e /\ y.todo = {}
    BY <1>4, <1>5, <1>6 DEF TaskType
  <1> QED
    BY <1>1, <1>7

\* A recovery pass between two workflows.
NextOrphan(x) == [Idle EXCEPT !.op = x.op, !.pc = "orphans", !.todo = x.todo]

LEMMA NextOrphanOk ==
  ASSUME NEW x, NEW w, NEW s, NEW d, TaskOk(x, w, s, d), x.todo \subseteq OrphanCopy
  PROVE  TaskOk(NextOrphan(x), w, s, d) /\ NextOrphan(x).pc = "orphans"
  <1>0. x \in TaskType /\ TaskOk(Idle, w, s, d) /\ Idle \in TaskType
    BY IdleOk DEF TaskOk
  <1>1. PICK y : y = NextOrphan(x)
    OBVIOUS
  <1>2. /\ y \in TaskType /\ y.pc = "orphans" /\ y.w = "PENDING" /\ y.rel = FALSE
        /\ y.todo = x.todo
    BY <1>0, <1>1 DEF TaskType, PcNames, NextOrphan, Idle
  <1> QED
    BY <1>1, <1>2
       DEF TaskOk, SavesStep, InSteps, AboutToRun, Starting, Executing, Compensating, Working

\* The same between two steps.
LEMMA AfterStuckOk ==
  ASSUME NEW x, NEW w, NEW s, NEW d, TaskOk(x, w, s, d), x.todo \subseteq StuckCopy
  PROVE  TaskOk(AfterStuck(x), w, s, d) /\ AfterStuck(x).pc \in {"idle", "stuck"}
  <1>0. x \in TaskType /\ TaskOk(Idle, w, s, d) /\ Idle \in TaskType /\ Idle.pc = "idle"
    BY IdleOk DEF TaskOk, Idle
  <1>1. PICK y : y = [Idle EXCEPT !.op = x.op, !.pc = "stuck", !.todo = x.todo]
    OBVIOUS
  <1>2. /\ y \in TaskType /\ y.pc = "stuck" /\ y.w = "PENDING" /\ y.rel = FALSE
        /\ y.todo = x.todo
    BY <1>0, <1>1 DEF TaskType, PcNames, Idle
  <1>3. TaskOk(y, w, s, d)
    BY <1>2
       DEF TaskOk, SavesStep, InSteps, AboutToRun, Starting, Executing, Compensating, Working
  <1> QED
    BY <1>0, <1>1, <1>2, <1>3 DEF AfterStuck

\* A database call fails.
LEMMA AfterErrorOk ==
  ASSUME NEW x, NEW w, NEW s, NEW d, TaskOk(x, w, s, d), DbErrors,
         x.key \in Keys => d[x.key] \in [StepIds -> Nat]
  PROVE  /\ TaskOk(AfterError(x), w, s, d)
         /\ AfterError(x).pc \in Executing => x.pc \in Executing /\ AfterError(x).key = x.key
  <1>0. x \in TaskType
    BY DEF TaskOk
  <1>1. CASE x.pc \in {"saveKey", "saveStepDone"}
    <2>1. AfterError(x) = StepFails(x)
      BY <1>1 DEF AfterError, InsideTry
    <2>2. x.key \in Keys /\ x.pc \in Executing
      BY <1>1 DEF TaskOk, Executing, InSteps, AboutToRun
    <2> QED
      BY <1>1, <2>1, <2>2, StepFailsOk
  <1>2. CASE x.pc \in InsideTry
    <2>1. AfterError(x) = FailWorkflow(x)
      BY <1>2 DEF AfterError, InsideTry
    <2>2. x.key \in Keys /\ s[x.key] \in Rows
      BY <1>2 DEF TaskOk, InsideTry, InSteps, AboutToRun, Working
    <2>3. FailWorkflow(x).pc = "saveFailed"
      BY <1>0 DEF FailWorkflow, TaskType
    <2> QED
      BY <2>1, <2>2, <2>3, FailOk DEF Executing, Starting, InSteps, AboutToRun
  <1>3. CASE x.op = "compensate" /\ x.pc = "saveStepCompensated"
    <2>1. PICK y : y = [x EXCEPT !.s = [x.s EXCEPT ![x.i] = [x.s[x.i] EXCEPT !.state = "FAILED"]],
                                 !.pc = "saveStepUncompensated"]
      OBVIOUS
    <2>2. AfterError(x) = y
      BY <1>3, <2>1 DEF AfterError, InsideTry
    <2>3. x.s \in Rows /\ x.i \in StepIds
      BY <1>3 DEF TaskOk, SavesStep, Compensating
    <2>4. [x.s[x.i] EXCEPT !.state = "FAILED"] \in StepRow
      BY <2>3, StateNames DEF Rows, StepRow
    <2>5. [x.s EXCEPT ![x.i] = [x.s[x.i] EXCEPT !.state = "FAILED"]] \in Rows
      BY <2>3, <2>4 DEF Rows
    <2>6. /\ y \in TaskType /\ y.key = x.key /\ y.w = x.w /\ y.pc = "saveStepUncompensated"
          /\ y.i = x.i /\ y.rel = x.rel /\ y.s \in Rows /\ y.todo = x.todo
      BY <1>0, <2>1, <2>5 DEF TaskType, PcNames, SavesStep, Compensating
    <2> QED
      BY <1>3, <2>2, <2>6
         DEF TaskOk, SavesStep, InSteps, AboutToRun, Starting, Executing, Compensating, Working
  <1>4. CASE /\ x.op = "compensate"
             /\ x.pc \in {"saveStepCompensating", "saveStepUncompensated", "saveCompensated"}
    <2>1. PICK y : y = [x EXCEPT !.w = "FAILED", !.pc = "saveUncompensated"]
      OBVIOUS
    <2>2. AfterError(x) = y
      BY <1>4, <2>1 DEF AfterError, InsideTry
    <2>3. /\ y \in TaskType /\ y.key = x.key /\ y.w = "FAILED" /\ y.pc = "saveUncompensated"
          /\ y.rel = x.rel /\ y.s = x.s /\ y.todo = x.todo
      BY <1>0, <2>1, StateNames DEF TaskType, PcNames
    <2>4. x.key \in Keys /\ s[x.key] \in Rows
      BY <1>4 DEF TaskOk, SavesStep, Compensating, Working
    <2> QED
      BY <1>4, <2>2, <2>3, <2>4
         DEF TaskOk, SavesStep, InSteps, AboutToRun, Starting, Executing, Compensating, Working
  <1>5. CASE x.pc = "recoverySave"
    <2>1. AfterError(x) = NextOrphan(x)
      BY <1>5 DEF AfterError, InsideTry, NextOrphan
    <2>2. x.todo \subseteq OrphanCopy
      BY <1>5 DEF TaskOk
    <2> QED
      BY <2>1, <2>2, NextOrphanOk DEF Executing, Starting, InSteps, AboutToRun
  <1>6. CASE x.pc \in {"stuckSave", "stuckSaveStep"}
    <2>1. AfterError(x) = AfterStuck(x)
      BY <1>6 DEF AfterError, InsideTry
    <2>2. x.todo \subseteq StuckCopy
      BY <1>6 DEF TaskOk
    <2> QED
      BY <2>1, <2>2, AfterStuckOk DEF Executing, Starting, InSteps, AboutToRun
  <1>7. CASE /\ x.pc \notin {"saveKey", "saveStepDone", "recoverySave", "stuckSave", "stuckSaveStep"}
             /\ x.pc \notin InsideTry
             /\ ~(x.op = "compensate" /\ x.pc = "saveStepCompensated")
             /\ ~(/\ x.op = "compensate"
                  /\ x.pc \in {"saveStepCompensating", "saveStepUncompensated", "saveCompensated"})
    <2>1. AfterError(x) = Idle
      BY <1>7 DEF AfterError
    <2>2. Idle.pc \notin Executing
      BY DEF Idle, Executing, Starting, InSteps, AboutToRun
    <2> QED
      BY <2>1, <2>2, IdleOk
  <1> QED
    BY <1>1, <1>2, <1>3, <1>4, <1>5, <1>6, <1>7

-----------------------------------------------------------------------------
(* One task moves to y, and the tables change with it.                     *)

LEMMA Moved ==
  ASSUME ExecInv, NEW t \in Tasks, NEW y, Becomes(t, y),
         UNCHANGED <<today, crashes>>, used' \subseteq Ops,
         TaskOk(y, wf', st', did'), TablesOk(wf', st', did'),
         Grow(wf, st, did, wf', st', did'),
         \/ did' = did
         \/ task[t].pc \in Executing /\ \A k \in Keys : k # task[t].key => did'[k] = did[k],
         y.pc \in Executing =>
           (task[t].pc \in Executing /\ y.key = task[t].key) \/ wf[y.key] = "NONE"
  PROVE  ExecInv'
  <1>1. /\ task \in [Tasks -> TaskType] /\ task' = [task EXCEPT ![t] = y]
        /\ y \in TaskType
    BY DEF ExecInv, Becomes, TaskOk
  <1>2. /\ task' \in [Tasks -> TaskType] /\ task'[t] = y
        /\ \A u \in Tasks : u # t => task'[u] = task[u]
    BY <1>1
  <1>3. ASSUME NEW u \in Tasks, u # t PROVE TaskOk(task'[u], wf', st', did')
    <2>1. PICK x : x = task[u]
      OBVIOUS
    <2>2. TaskOk(x, wf, st, did) /\ x = task'[u]
      BY <1>2, <1>3, <2>1 DEF ExecInv
    <2>3. x.pc \in Executing => x.key \in Keys
      BY <2>2 DEF TaskOk, Executing, Starting, InSteps, AboutToRun
    <2>4. x.pc \in Executing => did'[x.key] = did[x.key]
      BY <1>3, <2>1, <2>3 DEF ExecInv, OneExecutor
    <2> QED
      BY <2>2, <2>4, Undisturbed
  <1>4. OneExecutor(task')
    <2> SUFFICES ASSUME NEW u \in Tasks, u # t, y.pc \in Executing, task[u].pc \in Executing,
                        y.key = task[u].key
                 PROVE  FALSE
      BY <1>2 DEF OneExecutor, ExecInv
    <2>1. wf[y.key] # "NONE"
      BY DEF ExecInv, TaskOk
    <2> QED
      BY <2>1 DEF ExecInv, OneExecutor
  <1>5. \A u \in Tasks : TaskOk(task'[u], wf', st', did')
    BY <1>2, <1>3
  <1>6. (today \in 1 .. MaxDay /\ used \subseteq Ops /\ crashes \in 0 .. MaxCrashes)'
    BY DEF ExecInv
  <1> QED
    BY <1>2, <1>4, <1>5, <1>6 DEF ExecInv

\* A task moves and the tables stay.
LEMMA MovedAlone ==
  ASSUME ExecInv, NEW t \in Tasks, NEW y, Becomes(t, y),
         UNCHANGED <<today, crashes, wf, st, did>>, used' \subseteq Ops,
         TaskOk(y, wf, st, did),
         y.pc \in Executing =>
           (task[t].pc \in Executing /\ y.key = task[t].key) \/ wf[y.key] = "NONE"
  PROVE  ExecInv'
  <1>1. TaskOk(y, wf', st', did') /\ TablesOk(wf', st', did')
    BY DEF ExecInv
  <1>2. Grow(wf, st, did, wf', st', did')
    BY DEF Grow
  <1> QED
    BY <1>1, <1>2, Moved

\* A task saves its copy of the workflow, and goes on.
LEMMA SavedWorkflow ==
  ASSUME ExecInv, NEW t \in Tasks, NEW y, Becomes(t, y), task[t].key \in Keys,
         SaveWorkflow(task[t]), UNCHANGED <<today, crashes, used, did>>,
         TaskOk(task[t], wf', st', did') => TaskOk(y, wf', st', did'),
         y.pc \in Executing => task[t].pc \in Executing /\ y.key = task[t].key
  PROVE  ExecInv'
  <1>1. PICK x : x = task[t]
    OBVIOUS
  <1>2. TablesOk(wf, st, did) /\ TaskOk(x, wf, st, did) /\ SaveWorkflow(x) /\ x.key \in Keys
    BY <1>1 DEF ExecInv
  <1>3. TablesOk(wf', st', did') /\ Grow(wf, st, did, wf', st', did')
    BY <1>2, SaveWorkflowOk
  <1>4. TaskOk(x, wf', st', did')
    BY <1>2, <1>3, Undisturbed
  <1> QED
    BY <1>1, <1>3, <1>4, Moved DEF ExecInv

\* A task saves its copy of a step, and goes on.
LEMMA SavedStep ==
  ASSUME ExecInv, NEW t \in Tasks, NEW y, Becomes(t, y), task[t].pc \in SavesStep,
         SaveStep(task[t]), UNCHANGED <<today, crashes, used, did>>,
         TaskOk(task[t], wf', st', did') => TaskOk(y, wf', st', did'),
         y.pc \in Executing => task[t].pc \in Executing /\ y.key = task[t].key
  PROVE  ExecInv'
  <1>1. PICK x : x = task[t]
    OBVIOUS
  <1>2. TablesOk(wf, st, did) /\ TaskOk(x, wf, st, did) /\ SaveStep(x)
    BY <1>1 DEF ExecInv
  <1>3. x.key \in Keys /\ x.i \in StepIds /\ x.s \in Rows /\ st[x.key] \in Rows
    BY <1>1, <1>2 DEF TaskOk, SavesStep, InSteps, AboutToRun, Compensating
  <1>4. TablesOk(wf', st', did') /\ Grow(wf, st, did, wf', st', did')
    BY <1>2, <1>3, SaveStepOk
  <1>5. TaskOk(x, wf', st', did')
    BY <1>2, <1>4, Undisturbed
  <1> QED
    BY <1>1, <1>4, <1>5, Moved DEF ExecInv

-----------------------------------------------------------------------------
(* One lemma for each part of the services: its steps keep ExecInv.        *)

\* startWorkflow and executeWorkflow.
LEMMA StartKeeps ==
  ASSUME ExecInv, NEW t \in Tasks,
         \/ \E r \in Requests : startWorkflow(t, r)
         \/ InsertWorkflow(t) \/ InsertSteps(t) \/ SaveRunning(t) \/ FindSteps(t)
  PROVE  ExecInv'
  <1>0. /\ TablesOk(wf, st, did) /\ TaskOk(task[t], wf, st, did) /\ used \subseteq Ops
        /\ today \in 1 .. MaxDay /\ N \in Nat
    BY CountsAssumption DEF ExecInv
  <1>1. PICK x : x = task[t]
    OBVIOUS
  <1>2. TaskOk(x, wf, st, did) /\ x \in TaskType
    BY <1>0, <1>1 DEF TaskOk
  <1>3. ASSUME NEW r \in Requests, startWorkflow(t, r) PROVE ExecInv'
    <2>1. PICK y : y = [Idle EXCEPT !.op = "start", !.pc = "insertWorkflow", !.key = <<r, today>>]
      OBVIOUS
    <2>2. Idle \in TaskType /\ <<r, today>> \in Keys
      BY <1>0, IdleOk DEF TaskOk, Keys
    <2>3. /\ y \in TaskType /\ y.pc = "insertWorkflow" /\ y.key \in Keys /\ y.w = "PENDING"
          /\ y.rel = FALSE /\ y.todo = {}
      BY <2>1, <2>2 DEF TaskType, OpNames, PcNames, Idle
    <2>4. TaskOk(y, wf, st, did) /\ y.pc \notin Executing
      BY <2>3
         DEF TaskOk, SavesStep, InSteps, AboutToRun, Starting, Executing, Compensating, Working
    <2> QED
      BY <1>0, <1>3, <2>1, <2>4, MovedAlone DEF startWorkflow
  <1>4. CASE InsertWorkflow(t)
    <2>1. x.pc = "insertWorkflow" /\ x.key \in Keys
      BY <1>1, <1>2, <1>4 DEF InsertWorkflow, TaskOk
    <2>2. CASE UniqueKey(x)
      <3>1. PICK y : y = [x EXCEPT !.pc = "insertSteps"]
        OBVIOUS
      <3>2. /\ Becomes(t, y) /\ wf' = [wf EXCEPT ![x.key] = "PENDING"] /\ wf[x.key] = "NONE"
            /\ UNCHANGED <<today, st, used, crashes, did>>
        BY <1>1, <1>4, <2>2, <3>1 DEF InsertWorkflow, UniqueKey
      <3>3. TablesOk(wf', st', did') /\ Grow(wf, st, did, wf', st', did')
        BY <1>0, <2>1, <3>2, StateNames DEF TablesOk, Grow
      <3>4. TaskOk(x, wf', st', did') /\ wf'[x.key] # "NONE"
        BY <1>0, <1>2, <2>1, <3>2, <3>3, Undisturbed DEF TablesOk
      <3>5. \A i \in StepIds : did'[x.key][i] = 0
        BY <1>0, <2>1, <3>2 DEF TablesOk
      <3>6. /\ y \in TaskType /\ y.pc = "insertSteps" /\ y.key = x.key /\ y.w = x.w
            /\ y.rel = x.rel /\ y.s = x.s /\ y.todo = x.todo
        BY <1>2, <3>1 DEF TaskType, PcNames, Executing, Starting
      <3>7. TaskOk(y, wf', st', did')
        BY <2>1, <3>4, <3>5, <3>6
           DEF TaskOk, SavesStep, InSteps, AboutToRun, Starting, Executing, Compensating, Working
      <3> QED
        BY <1>0, <3>2, <3>3, <3>6, <3>7, Moved
    <2>3. CASE ~UniqueKey(x)
      <3>1. Becomes(t, Idle) /\ UNCHANGED <<today, wf, st, used, crashes, did>>
        BY <1>1, <1>4, <2>3 DEF InsertWorkflow
      <3>2. Idle.pc \notin Executing
        BY DEF Idle, Executing, Starting, InSteps, AboutToRun
      <3> QED
        BY <1>0, <3>1, <3>2, IdleOk, MovedAlone
    <2> QED
      BY <2>2, <2>3
  <1>5. CASE InsertSteps(t)
    <2>1. /\ x.pc = "insertSteps" /\ st' = [st EXCEPT ![x.key] = FreshSteps]
          /\ Becomes(t, ExecuteWorkflow(x)) /\ UNCHANGED <<today, wf, used, crashes, did>>
      BY <1>1, <1>5 DEF InsertSteps
    <2>2. x.key \in Keys /\ wf[x.key] # "NONE" /\ x.pc \in Executing
      BY <1>2, <2>1 DEF TaskOk, Executing, Starting
    <2>3. FreshSteps \in Rows
      BY StateNames DEF FreshSteps, Rows, StepRow
    <2>4. st' \in [Keys -> {<<>>} \union Rows] /\ st'[x.key] \in Rows
          /\ \A k \in Keys : k # x.key => st'[k] = st[k]
      BY <1>0, <2>1, <2>2, <2>3 DEF TablesOk
    <2>5. TablesOk(wf', st', did') /\ Grow(wf, st, did, wf', st', did')
      BY <1>0, <2>1, <2>2, <2>4 DEF TablesOk, Grow
    <2>6. TaskOk(x, wf', st', did')
      BY <1>2, <2>1, <2>5, Undisturbed
    <2>7. PICK y : y = ExecuteWorkflow(x)
      OBVIOUS
    <2>8. TaskOk(y, wf', st', did') /\ (y.pc \in Executing => y.key = x.key)
      BY <2>1, <2>4, <2>6, <2>7, ExecuteOk
    <2> QED
      BY <1>0, <1>1, <2>1, <2>2, <2>5, <2>7, <2>8, Moved
  <1>6. CASE SaveRunning(t)
    <2>1. PICK y : y = [x EXCEPT !.pc = "findSteps"]
      OBVIOUS
    <2>2. x.pc = "saveRunning" /\ x.key \in Keys /\ x.pc \in Executing
      BY <1>1, <1>2, <1>6 DEF SaveRunning, TaskOk, Executing, Starting
    <2>3. /\ y \in TaskType /\ y.pc = "findSteps" /\ y.key = x.key /\ y.w = x.w
          /\ y.rel = x.rel /\ y.s = x.s /\ y.todo = x.todo
      BY <1>2, <2>1 DEF TaskType, PcNames, Executing, Starting
    <2>4. TaskOk(x, wf', st', did') => TaskOk(y, wf', st', did')
      BY <2>2, <2>3
         DEF TaskOk, SavesStep, InSteps, AboutToRun, Starting, Executing, Compensating, Working
    <2>5. Becomes(t, y) /\ SaveWorkflow(task[t]) /\ UNCHANGED <<today, used, crashes, did>>
      BY <1>1, <1>6, <2>1 DEF SaveRunning
    <2> QED
      BY <1>1, <2>2, <2>3, <2>4, <2>5, SavedWorkflow
  <1>7. CASE FindSteps(t)
    <2>1. /\ x.pc = "findSteps" /\ Becomes(t, NextStep([x EXCEPT !.s = st[x.key]], 1))
          /\ UNCHANGED <<today, wf, st, used, crashes, did>>
      BY <1>1, <1>7 DEF FindSteps
    <2>2. /\ x.key \in Keys /\ st[x.key] \in Rows /\ wf[x.key] # "NONE"
          /\ x.w \notin {"PENDING", "CANCELLED"}
          /\ x.pc \in Executing /\ \A i \in StepIds : did[x.key][i] = 0
      BY <1>2, <2>1 DEF TaskOk, Executing, Starting, Working
    <2>3. PICK z : z = [x EXCEPT !.s = st[x.key]]
      OBVIOUS
    <2>4. /\ z \in TaskType /\ z.pc = x.pc /\ z.key = x.key /\ z.w = x.w /\ z.i = x.i
          /\ z.rel = x.rel /\ z.s = st[x.key] /\ z.todo = x.todo
      BY <1>2, <2>2, <2>3 DEF TaskType
    <2>5. TaskOk(z, wf, st, did)
      BY <1>2, <2>1, <2>2, <2>4
         DEF TaskOk, SavesStep, InSteps, AboutToRun, Starting, Executing, Compensating, Working
    <2>6. PICK y : y = NextStep(z, 1)
      OBVIOUS
    <2>7. 1 \in 1 .. (N + 1) /\ \A j \in StepIds : ~(j < 1)
      BY <1>0 DEF StepIds
    <2>8. /\ z.key \in Keys /\ z.s \in Rows /\ st[z.key] \in Rows /\ wf[z.key] # "NONE"
          /\ z.w \notin {"PENDING", "CANCELLED"}
          /\ \A j \in StepIds : j < 1 => did[z.key][j] > 0
          /\ \A j \in StepIds : j >= 1 => did[z.key][j] = 0
      BY <2>2, <2>4, <2>7
    <2>9. TaskOk(y, wf, st, did) /\ y.key = z.key
      BY <2>5, <2>6, <2>7, <2>8, NextStepOk
    <2> QED
      BY <1>0, <1>1, <2>1, <2>2, <2>3, <2>4, <2>6, <2>9, MovedAlone
  <1> QED
    BY <1>3, <1>4, <1>5, <1>6, <1>7

\* executeSteps and executeStep.
LEMMA ExecuteKeeps ==
  ASSUME ExecInv, NEW t \in Tasks,
         \/ SaveCurrentStepIndex(t) \/ SaveStepRunning(t) \/ StepSucceeds(t) \/ StepThrows(t)
         \/ SaveStepResult(t) \/ SaveOutcome(t)
  PROVE  ExecInv'
  <1>0. /\ TablesOk(wf, st, did) /\ TaskOk(task[t], wf, st, did) /\ used \subseteq Ops
        /\ N \in Nat /\ MaxRetries \in Nat \ {0}
    BY CountsAssumption DEF ExecInv
  <1>1. PICK x : x = task[t]
    OBVIOUS
  <1>2. TaskOk(x, wf, st, did) /\ x \in TaskType
    BY <1>0, <1>1 DEF TaskOk
  <1>3. CASE SaveCurrentStepIndex(t)
    <2>1. PICK y : y = EnterStep(x)
      OBVIOUS
    <2>2. /\ x.pc = "saveCurrent" /\ x.key \in Keys /\ x.pc \in Executing
          /\ Becomes(t, y) /\ SaveWorkflow(task[t]) /\ UNCHANGED <<today, used, crashes, did>>
      BY <1>1, <1>2, <1>3, <2>1 DEF SaveCurrentStepIndex, TaskOk, Executing, InSteps
    <2>3. y.key = x.key /\ (TaskOk(x, wf', st', did') => TaskOk(y, wf', st', did'))
      BY <1>2, <2>1, <2>2, EnterStepOk
    <2> QED
      BY <1>1, <2>2, <2>3, SavedWorkflow
  <1>4. CASE SaveStepRunning(t)
    <2>1. PICK q : q = IF x.pc = "saveStepRunning" /\ x.i \in Idempotent THEN "saveKey" ELSE "run"
      OBVIOUS
    <2>2. PICK y : y = [x EXCEPT !.pc = q]
      OBVIOUS
    <2>3. /\ x.pc \in {"saveStepRunning", "saveKey"} /\ x.pc \in SavesStep /\ x.pc \in Executing
          /\ Becomes(t, y) /\ SaveStep(task[t]) /\ UNCHANGED <<today, used, crashes, did>>
      BY <1>1, <1>4, <2>1, <2>2 DEF SaveStepRunning, SavesStep, Executing, InSteps, AboutToRun
    <2>4. /\ y \in TaskType /\ y.pc \in {"saveKey", "run"} /\ y.key = x.key /\ y.w = x.w
          /\ y.i = x.i /\ y.rel = x.rel /\ y.s = x.s /\ y.todo = x.todo
      BY <1>2, <2>1, <2>2 DEF TaskType, PcNames, Executing, InSteps, AboutToRun
    <2>5. TaskOk(x, wf', st', did') => TaskOk(y, wf', st', did')
      BY <2>3, <2>4
         DEF TaskOk, SavesStep, InSteps, AboutToRun, Starting, Executing, Compensating, Working
    <2> QED
      BY <1>1, <2>3, <2>4, <2>5, SavedStep
  <1>5. CASE StepSucceeds(t)
    <2>1. PICK n : n = did[x.key][x.i] + 1
      OBVIOUS
    <2>2. PICK y : y = [x EXCEPT !.s = [x.s EXCEPT ![x.i] = [x.s[x.i] EXCEPT !.state = "COMPLETED"]],
                                 !.pc = "saveStepDone"]
      OBVIOUS
    <2>3. /\ x.pc = "run" /\ did' = [did EXCEPT ![x.key] = [did[x.key] EXCEPT ![x.i] = n]]
          /\ Becomes(t, y) /\ UNCHANGED <<today, wf, st, used, crashes>>
      BY <1>1, <1>5, <2>1, <2>2 DEF StepSucceeds
    <2>4. /\ x.key \in Keys /\ x.i \in StepIds /\ x.s \in Rows /\ x.pc \in Executing
          /\ wf[x.key] # "NONE"
      BY <1>2, <2>3 DEF TaskOk, SavesStep, Executing, InSteps, AboutToRun
    <2>5. /\ did[x.key] \in [StepIds -> Nat] /\ n \in Nat /\ n > 0
          /\ x.s[x.i] \in StepRow /\ x.s[x.i].retryCount \in Nat
      BY <1>0, <2>1, <2>4 DEF TablesOk, Rows, StepRow
    <2>6. /\ did' \in [Keys -> [StepIds -> Nat]] /\ did'[x.key][x.i] = n
          /\ \A k \in Keys : k # x.key => did'[k] = did[k]
          /\ \A i \in StepIds : i # x.i => did'[x.key][i] = did[x.key][i]
      BY <1>0, <2>3, <2>4, <2>5 DEF TablesOk
    <2>7. /\ \A i \in StepIds : i < x.i => did[x.key][i] > 0
          /\ \A i \in StepIds : i > x.i => did[x.key][i] = 0
          /\ n <= MaxRetries /\ n <= x.s[x.i].retryCount + 1 /\ (~DbErrors => n <= 1)
      BY <1>0, <1>2, <2>1, <2>3, <2>4, <2>5 DEF TaskOk, InSteps, AboutToRun
    <2>8. \A k \in Keys : \A i \in StepIds : did[k][i] > 0 => did'[k][i] > 0
      BY <2>5, <2>6
    <2>9. Grow(wf, st, did, wf', st', did')
      BY <2>3, <2>8 DEF Grow
    <2>10. \A i, j \in StepIds : i < j /\ did'[x.key][j] > 0 => did'[x.key][i] > 0
      BY <1>0, <2>4, <2>5, <2>6, <2>7 DEF TablesOk, StepIds
    <2>11. \A i \in StepIds : did'[x.key][i] <= MaxRetries /\ (~DbErrors => did'[x.key][i] <= 1)
      BY <1>0, <2>4, <2>6, <2>7 DEF TablesOk
    <2>12. wf' = wf /\ st' = st
      BY <2>3
    <2>13. TablesOk(wf', st', did')
      BY <1>0, <2>4, <2>6, <2>8, <2>10, <2>11, <2>12 DEF TablesOk
    <2>14. [x.s[x.i] EXCEPT !.state = "COMPLETED"] \in StepRow
           /\ [x.s[x.i] EXCEPT !.state = "COMPLETED"].retryCount = x.s[x.i].retryCount
      BY <2>5, StateNames DEF StepRow
    <2>15. /\ y \in TaskType /\ y.pc = "saveStepDone" /\ y.key = x.key /\ y.w = x.w /\ y.i = x.i
           /\ y.rel = x.rel /\ y.todo = x.todo /\ y.s \in Rows
           /\ y.s[x.i].retryCount = x.s[x.i].retryCount
      BY <1>2, <2>2, <2>4, <2>14 DEF TaskType, PcNames, Executing, InSteps, Rows
    <2>16. /\ \A i \in StepIds : i < x.i => did'[x.key][i] > 0
           /\ \A i \in StepIds : i > x.i => did'[x.key][i] = 0
      <3>1. \A i \in StepIds : (i < x.i => i # x.i) /\ (i > x.i => i # x.i)
        BY <1>0, <2>4 DEF StepIds
      <3> QED
        BY <2>6, <2>7, <3>1
    <2>17. TaskOk(y, wf', st', did')
      BY <1>2, <2>3, <2>4, <2>5, <2>6, <2>7, <2>8, <2>12, <2>15, <2>16
         DEF TaskOk, SavesStep, InSteps, AboutToRun, Starting, Executing, Compensating, Working
    <2> QED
      BY <1>0, <1>1, <2>3, <2>4, <2>6, <2>9, <2>13, <2>15, <2>17, Moved
  <1>6. CASE StepThrows(t)
    <2>1. PICK y : y = StepFails(x)
      OBVIOUS
    <2>2. x.pc = "run" /\ Becomes(t, y) /\ UNCHANGED <<today, wf, st, used, crashes, did>>
      BY <1>1, <1>6, <2>1 DEF StepThrows
    <2>3. x.key \in Keys /\ x.pc \in Executing /\ did[x.key] \in [StepIds -> Nat]
      BY <1>0, <1>2, <2>2 DEF TaskOk, TablesOk, Executing, InSteps, AboutToRun
    <2>4. TaskOk(y, wf, st, did) /\ y.key = x.key
      BY <1>2, <2>1, <2>2, <2>3, StepFailsOk
    <2> QED
      BY <1>0, <1>1, <2>2, <2>3, <2>4, MovedAlone
  <1>7. CASE SaveStepResult(t)
    <2>1. /\ x.pc \in {"saveStepDone", "saveRetry", "saveStepFailed"} /\ SaveStep(task[t])
          /\ UNCHANGED <<today, used, crashes, did>>
      BY <1>1, <1>7 DEF SaveStepResult
    <2>2. /\ x.pc \in SavesStep /\ x.pc \in Executing /\ x.key \in Keys /\ x.i \in StepIds
          /\ x.s \in Rows
      BY <1>2, <2>1 DEF TaskOk, SavesStep, Executing, InSteps, AboutToRun
    <2>3. CASE x.pc = "saveStepDone"
      <3>0. PICK n : n = x.i + 1
        OBVIOUS
      <3>1. PICK y : y = NextStep(x, n)
        OBVIOUS
      <3>2. Becomes(t, y)
        BY <1>1, <1>7, <2>3, <3>0, <3>1 DEF SaveStepResult
      <3>3. n \in 1 .. (N + 1)
        BY <1>0, <2>2, <3>0 DEF StepIds
      <3>4. ASSUME NEW w, NEW s, NEW d, TaskOk(x, w, s, d)
            PROVE  TaskOk(y, w, s, d) /\ y.key = x.key
        <4>1. /\ s[x.key] \in Rows /\ w[x.key] # "NONE" /\ x.w \notin {"PENDING", "CANCELLED"}
              /\ \A j \in StepIds : j < x.i => d[x.key][j] > 0
              /\ \A j \in StepIds : j > x.i => d[x.key][j] = 0
              /\ d[x.key][x.i] > 0
          BY <2>3, <3>4 DEF TaskOk, SavesStep, InSteps, Executing, Working
        <4>2. /\ \A j \in StepIds : j < n => d[x.key][j] > 0
              /\ \A j \in StepIds : j >= n => d[x.key][j] = 0
          BY <1>0, <2>2, <3>0, <4>1 DEF StepIds
        <4> QED
          BY <2>2, <3>1, <3>3, <3>4, <4>1, <4>2, NextStepOk
      <3>5. y.key = x.key /\ (TaskOk(x, wf', st', did') => TaskOk(y, wf', st', did'))
        BY <1>2, <3>4
      <3> QED
        BY <1>1, <2>1, <2>2, <3>2, <3>5, SavedStep
    <2>4. CASE x.pc = "saveRetry"
      <3>1. PICK y : y = EnterStep(x)
        OBVIOUS
      <3>2. Becomes(t, y)
        BY <1>1, <1>7, <2>4, <3>1 DEF SaveStepResult
      <3>3. y.key = x.key /\ (TaskOk(x, wf', st', did') => TaskOk(y, wf', st', did'))
        BY <1>2, <2>4, <3>1, EnterStepOk
      <3> QED
        BY <1>1, <2>1, <2>2, <3>2, <3>3, SavedStep
    <2>5. CASE x.pc = "saveStepFailed"
      <3>1. PICK y : y = FailWorkflow(x)
        OBVIOUS
      <3>2. Becomes(t, y)
        BY <1>1, <1>7, <2>5, <3>1 DEF SaveStepResult
      <3>3. y.key = x.key
        BY <1>2, <3>1 DEF FailWorkflow, TaskType
      <3>4. ASSUME TaskOk(x, wf', st', did') PROVE TaskOk(y, wf', st', did')
        <4>1. st'[x.key] \in Rows
          BY <2>2, <3>4 DEF TaskOk
        <4> QED
          BY <2>2, <3>1, <3>4, <4>1, FailOk
      <3> QED
        BY <1>1, <2>1, <2>2, <3>2, <3>3, <3>4, SavedStep
    <2> QED
      BY <2>1, <2>3, <2>4, <2>5
  <1>8. CASE SaveOutcome(t)
    <2>1. /\ x.key \in Keys /\ Becomes(t, Idle) /\ SaveWorkflow(task[t])
          /\ UNCHANGED <<today, used, crashes, did>>
      BY <1>1, <1>2, <1>8 DEF SaveOutcome, TaskOk
    <2>2. Idle.pc \notin Executing
      BY DEF Idle, Executing, Starting, InSteps, AboutToRun
    <2> QED
      BY <1>1, <2>1, <2>2, IdleOk, SavedWorkflow
  <1> QED
    BY <1>3, <1>4, <1>5, <1>6, <1>7, <1>8

\* Retry and cancel.  A retry resets a step and never runs one.
LEMMA RetryKeeps ==
  ASSUME ExecInv, NEW t \in Tasks,
         \/ \E k \in Keys : retryWorkflow(t, k) \/ cancelWorkflow(t, k)
         \/ \E k \in Keys, i \in StepIds : retryWorkflowStep(t, k, i)
         \/ RetrySave(t) \/ RetrySaveStep(t) \/ ResetStep(t) \/ ReadForRetry(t) \/ CancelSave(t)
  PROVE  ExecInv'
  <1>0. /\ TablesOk(wf, st, did) /\ TaskOk(task[t], wf, st, did) /\ used \subseteq Ops
        /\ N \in Nat
    BY CountsAssumption DEF ExecInv
  <1>1. PICK x : x = task[t]
    OBVIOUS
  <1>2. TaskOk(x, wf, st, did) /\ x \in TaskType
    BY <1>0, <1>1 DEF TaskOk
  <1>3. ASSUME NEW k \in Keys, wf[k] = "FAILED"
        PROVE  \E y : /\ y = Copy("retry", "retrySave", k, wf[k], st[k], "RUNNING")
                      /\ TaskOk(y, wf, st, did) /\ y.pc \notin Executing
    <2>2. st[k] \in Rows
      BY <1>0, <1>3 DEF TablesOk
    <2>1. "retry" \in OpNames /\ "retrySave" \in PcNames /\ "RUNNING" \in WorkflowStates
      BY StateNames DEF OpNames, PcNames
    <2>3. PICK y \in TaskType :
            /\ y = Copy("retry", "retrySave", k, wf[k], st[k], "RUNNING") /\ y.pc = "retrySave"
            /\ y.key = k /\ y.w = "RUNNING" /\ y.rel /\ y.s = st[k] /\ y.todo = {}
      BY <2>1, <2>2, CopyType
    <2>4. TaskOk(y, wf, st, did) /\ y.pc \notin Executing
      BY <2>2, <2>3
         DEF TaskOk, SavesStep, InSteps, AboutToRun, Starting, Executing, Compensating, Working
    <2> QED
      BY <2>3, <2>4
  <1>4. ASSUME NEW k \in Keys, retryWorkflow(t, k) PROVE ExecInv'
    <2>1. wf[k] = "FAILED"
      BY <1>4 DEF retryWorkflow, isWorkflowRecoverable
    <2>2. PICK y : /\ y = Copy("retry", "retrySave", k, wf[k], st[k], "RUNNING")
                   /\ TaskOk(y, wf, st, did) /\ y.pc \notin Executing
      BY <1>3, <2>1
    <2> QED
      BY <1>0, <1>4, <2>2, MovedAlone DEF retryWorkflow, Call, Copy, Reader
  <1>5. ASSUME NEW k \in Keys, cancelWorkflow(t, k) PROVE ExecInv'
    <2>1. PICK y : y = [Reader("cancel", "cancelSave", k, FALSE) EXCEPT !.w = "CANCELLED"]
      OBVIOUS
    <2>2. /\ y \in TaskType /\ y.pc = "cancelSave" /\ y.key = k /\ y.w = "CANCELLED"
          /\ y.rel = FALSE /\ y.todo = {}
      <3>1. Idle \in TaskType
        BY IdleOk DEF TaskOk
      <3>2. PICK z : z = [Idle EXCEPT !.op = "cancel", !.pc = "cancelSave", !.key = k,
                                      !.w = wf[k], !.s = <<>>, !.rel = FALSE]
        OBVIOUS
      <3>3. y = [z EXCEPT !.w = "CANCELLED"]
        BY <2>1, <3>2 DEF Reader
      <3>4. wf[k] \in WorkflowStates
        BY <1>0, <1>5 DEF TablesOk, cancelWorkflow
      <3>5. z \in TaskType /\ z.pc = "cancelSave" /\ z.key = k /\ z.rel = FALSE /\ z.todo = {}
        BY <3>1, <3>2, <3>4 DEF TaskType, Idle, OpNames, PcNames
      <3> QED
        BY <3>3, <3>5, StateNames DEF TaskType
    <2>3. TaskOk(y, wf, st, did) /\ y.pc \notin Executing
      BY <2>2
         DEF TaskOk, SavesStep, InSteps, AboutToRun, Starting, Executing, Compensating, Working
    <2> QED
      BY <1>0, <1>5, <2>1, <2>3, MovedAlone DEF cancelWorkflow, Call
  <1>6. ASSUME NEW k \in Keys, NEW i \in StepIds, retryWorkflowStep(t, k, i) PROVE ExecInv'
    <2>1. PICK r : r = [state |-> "PENDING", retryCount |-> st[k][i].retryCount + 1]
      OBVIOUS
    <2>2. PICK y : y = [Idle EXCEPT !.op = "retryStep", !.pc = "resetStep", !.key = k, !.i = i,
                                    !.s = [st[k] EXCEPT ![i] = r]]
      OBVIOUS
    <2>3. Call(t, "retryStep", y) /\ i \in 1 .. Len(st[k])
      BY <1>6, <2>1, <2>2 DEF retryWorkflowStep
    <2>4. st[k] \in Rows
      BY <1>0, <2>3 DEF TablesOk
    <2>5. r \in StepRow
      BY <2>1, <2>4, StateNames DEF Rows, StepRow
    <2>6. [st[k] EXCEPT ![i] = r] \in Rows /\ i \in 0 .. N
      BY <1>0, <2>4, <2>5 DEF Rows, StepIds
    <2>7. /\ y \in TaskType /\ y.pc = "resetStep" /\ y.key = k /\ y.w = "PENDING" /\ y.i = i
          /\ y.rel = FALSE /\ y.s \in Rows /\ y.todo = {}
      BY <2>2, <2>6, StateNames DEF Idle, TaskType, OpNames, PcNames, SavesStep
    <2>8. TaskOk(y, wf, st, did) /\ y.pc \notin Executing
      BY <2>4, <2>7
         DEF TaskOk, SavesStep, InSteps, AboutToRun, Starting, Executing, Compensating, Working
    <2> QED
      BY <1>0, <2>3, <2>8, MovedAlone DEF Call
  <1>7. Idle.pc \notin Executing
    BY DEF Idle, Executing, Starting, InSteps, AboutToRun
  <1>8. CASE RetrySave(t)
    <2>1. PICK failed : failed = {i \in 1 .. Len(x.s) : x.s[i].state = "FAILED"}
      OBVIOUS
    <2>2. PICK i : i = CHOOSE m \in failed : \A n \in failed : m <= n
      OBVIOUS
    <2>3. PICK z : z = [x EXCEPT !.i = i, !.s = [x.s EXCEPT ![i] = [x.s[i] EXCEPT !.state = "PENDING"]],
                                 !.pc = "retrySaveStep"]
      OBVIOUS
    <2>4. PICK y : y = IF failed = {} THEN ExecuteWorkflow(x) ELSE z
      OBVIOUS
    <2>5. /\ x.pc = "retrySave" /\ SaveWorkflow(task[t]) /\ Becomes(t, y)
          /\ UNCHANGED <<today, used, crashes, did>>
      <3>1. z = [x EXCEPT !.i = i, !.s[i].state = "PENDING", !.pc = "retrySaveStep"]
        BY <2>3
      <3> QED
        BY <1>1, <1>8, <2>1, <2>2, <2>4, <3>1 DEF RetrySave
    <2>6. x.key \in Keys /\ x.s \in Rows /\ x.w = "RUNNING"
      BY <1>2, <2>5 DEF TaskOk
    <2>7. CASE failed = {}
      <3>1. y = Idle
        BY <2>4, <2>6, <2>7, RunningIsRefused
      <3> QED
        BY <1>1, <1>7, <2>5, <2>6, <3>1, IdleOk, SavedWorkflow
    <2>8. CASE failed # {}
      <3>1. failed \subseteq StepIds /\ StepIds \subseteq Nat
        BY <1>0, <2>1, <2>6 DEF Rows, StepIds
      <3>2. \E m \in failed : \A n \in failed : m <= n
        BY <2>8, <3>1, MinExists
      <3>3. i \in StepIds /\ i \in 0 .. N
        <4>1. i \in failed
          BY <2>2, <3>2, Zenon
        <4> QED
          BY <1>0, <3>1, <4>1 DEF StepIds
      <3>4. [x.s[i] EXCEPT !.state = "PENDING"] \in StepRow
        BY <2>6, <3>3, StateNames DEF Rows, StepRow
      <3>5. [x.s EXCEPT ![i] = [x.s[i] EXCEPT !.state = "PENDING"]] \in Rows
        BY <2>6, <3>3, <3>4 DEF Rows
      <3>6. /\ y \in TaskType /\ y.pc = "retrySaveStep" /\ y.key = x.key /\ y.w = x.w /\ y.i = i
            /\ y.rel = x.rel /\ y.s \in Rows /\ y.todo = x.todo
        BY <1>2, <2>3, <2>4, <2>8, <3>3, <3>5 DEF TaskType, PcNames, SavesStep
      <3>7. TaskOk(x, wf', st', did') => TaskOk(y, wf', st', did')
        BY <2>5, <2>6, <3>3, <3>6
           DEF TaskOk, SavesStep, InSteps, AboutToRun, Starting, Executing, Compensating, Working
      <3>8. y.pc \notin Executing
        BY <3>6 DEF Executing, Starting, InSteps, AboutToRun
      <3> QED
        BY <1>1, <2>5, <2>6, <3>7, <3>8, SavedWorkflow
    <2> QED
      BY <2>7, <2>8
  <1>9. CASE RetrySaveStep(t)
    <2>1. x.pc = "retrySaveStep" /\ x.w = "RUNNING"
      BY <1>1, <1>2, <1>9 DEF RetrySaveStep, TaskOk
    <2>2. /\ x.pc \in SavesStep /\ SaveStep(task[t]) /\ Becomes(t, Idle)
          /\ UNCHANGED <<today, used, crashes, did>>
      BY <1>1, <1>9, <2>1, RunningIsRefused DEF RetrySaveStep, SavesStep
    <2> QED
      BY <1>1, <1>7, <2>2, IdleOk, SavedStep
  <1>10. CASE ResetStep(t)
    <2>1. PICK y : y = [x EXCEPT !.pc = "readForRetry"]
      OBVIOUS
    <2>2. /\ x.pc = "resetStep" /\ x.pc \in SavesStep /\ SaveStep(task[t]) /\ Becomes(t, y)
          /\ UNCHANGED <<today, used, crashes, did>>
      BY <1>1, <1>10, <2>1 DEF ResetStep, SavesStep
    <2>3. /\ y \in TaskType /\ y.pc = "readForRetry" /\ y.key = x.key /\ y.w = x.w
          /\ y.rel = x.rel /\ y.s = x.s /\ y.todo = x.todo
      BY <1>2, <2>1 DEF TaskType, PcNames
    <2>4. y.pc \notin Executing /\ (TaskOk(x, wf', st', did') => TaskOk(y, wf', st', did'))
      BY <2>2, <2>3
         DEF TaskOk, SavesStep, InSteps, AboutToRun, Starting, Executing, Compensating, Working
    <2> QED
      BY <1>1, <2>2, <2>4, SavedStep
  <1>11. CASE ReadForRetry(t)
    <2>1. x.key \in Keys /\ UNCHANGED <<today, wf, st, used, crashes, did>>
      BY <1>1, <1>2, <1>11 DEF ReadForRetry, TaskOk
    <2>2. CASE wf[x.key] = "FAILED"
      <3>1. PICK y : /\ y = Copy("retry", "retrySave", x.key, wf[x.key], st[x.key], "RUNNING")
                     /\ TaskOk(y, wf, st, did) /\ y.pc \notin Executing
        BY <1>3, <2>1, <2>2
      <3>2. Becomes(t, y)
        BY <1>1, <1>11, <2>2, <3>1 DEF ReadForRetry, isWorkflowRecoverable, Copy, Reader
      <3> QED
        BY <1>0, <2>1, <3>1, <3>2, MovedAlone
    <2>3. CASE wf[x.key] # "FAILED"
      <3>1. Becomes(t, Idle)
        BY <1>1, <1>11, <2>3 DEF ReadForRetry, isWorkflowRecoverable
      <3> QED
        BY <1>0, <1>7, <2>1, <3>1, IdleOk, MovedAlone
    <2> QED
      BY <2>2, <2>3
  <1>12. CASE CancelSave(t)
    <2>1. /\ x.key \in Keys /\ Becomes(t, Idle) /\ SaveWorkflow(task[t])
          /\ UNCHANGED <<today, used, crashes, did>>
      BY <1>1, <1>2, <1>12 DEF CancelSave, TaskOk
    <2> QED
      BY <1>1, <1>7, <2>1, IdleOk, SavedWorkflow
  <1> QED
    BY <1>4, <1>5, <1>6, <1>8, <1>9, <1>10, <1>11, <1>12

\* Compensation.
LEMMA CompensateKeeps ==
  ASSUME ExecInv, NEW t \in Tasks,
         \/ \E k \in Keys : compensateWorkflow(t, k) \/ forceCompensateWorkflow(t, k)
         \/ SaveCompensating(t) \/ SaveStepCompensating(t) \/ SaveStepCompensated(t)
         \/ SaveStepUncompensated(t) \/ SaveCompensated(t)
  PROVE  ExecInv'
  <1>0. TablesOk(wf, st, did) /\ TaskOk(task[t], wf, st, did) /\ used \subseteq Ops
    BY DEF ExecInv
  <1>1. PICK x : x = task[t]
    OBVIOUS
  <1>2. TaskOk(x, wf, st, did) /\ x \in TaskType
    BY <1>0, <1>1 DEF TaskOk
  <1>3. ASSUME NEW k \in Keys, compensateWorkflow(t, k) \/ forceCompensateWorkflow(t, k)
        PROVE  ExecInv'
    <2>1. PICK op \in OpNames :
            /\ Call(t, op, Copy(op, "saveCompensating", k, wf[k], st[k], "COMPENSATING"))
            /\ st[k] # <<>>
      BY <1>3 DEF compensateWorkflow, forceCompensateWorkflow, Copy, Reader, OpNames
    <2>3. st[k] \in Rows
      BY <1>0, <2>1 DEF TablesOk
    <2>4. "saveCompensating" \in PcNames /\ "COMPENSATING" \in WorkflowStates
      BY StateNames DEF PcNames
    <2>5. PICK y \in TaskType :
            /\ y = Copy(op, "saveCompensating", k, wf[k], st[k], "COMPENSATING")
            /\ y.pc = "saveCompensating" /\ y.key = k /\ y.w = "COMPENSATING" /\ y.rel /\ y.s = st[k] /\ y.todo = {}
      BY <2>3, <2>4, CopyType
    <2>6. TaskOk(y, wf, st, did) /\ y.pc \notin Executing
      BY <2>3, <2>5
         DEF TaskOk, SavesStep, InSteps, AboutToRun, Starting, Executing, Compensating, Working
    <2> QED
      BY <1>0, <2>1, <2>5, <2>6, MovedAlone DEF Call
  <1>4. ASSUME NEW below, NEW y, y = NextCompensation(x, below),
               x.pc \in {"saveCompensating", "saveStepCompensated"}
        PROVE  y.pc \notin Executing /\ (TaskOk(x, wf', st', did') => TaskOk(y, wf', st', did'))
    <2>1. ASSUME NEW w, NEW s, NEW d, TaskOk(x, w, s, d)
          PROVE  y.pc \notin Executing /\ TaskOk(y, w, s, d)
      <3>1. /\ x.key \in Keys /\ x.s \in Rows /\ x.w \notin {"PENDING", "CANCELLED"}
            /\ s[x.key] \in Rows
        BY <1>4, <2>1 DEF TaskOk, SavesStep, Compensating, Working
      <3> QED
        BY <1>4, <2>1, <3>1, CompensationOk
    <2> QED
      BY <1>2, <2>1
  <1>5. CASE SaveCompensating(t)
    <2>1. PICK y : y = NextCompensation(x, Len(x.s) + 1)
      OBVIOUS
    <2>2. /\ x.pc = "saveCompensating" /\ x.key \in Keys /\ SaveWorkflow(task[t]) /\ Becomes(t, y)
          /\ UNCHANGED <<today, used, crashes, did>>
      BY <1>1, <1>2, <1>5, <2>1 DEF SaveCompensating, TaskOk
    <2>3. y.pc \notin Executing /\ (TaskOk(x, wf', st', did') => TaskOk(y, wf', st', did'))
      BY <1>4, <2>1, <2>2
    <2> QED
      BY <1>1, <2>2, <2>3, SavedWorkflow
  <1>6. CASE SaveStepCompensating(t)
    <2>1. PICK y : y = [x EXCEPT !.s = [x.s EXCEPT ![x.i] = [x.s[x.i] EXCEPT !.state = "COMPENSATED"]],
                                 !.pc = "saveStepCompensated"]
      OBVIOUS
    <2>2. /\ x.pc = "saveStepCompensating" /\ x.pc \in SavesStep /\ SaveStep(task[t])
          /\ Becomes(t, y) /\ UNCHANGED <<today, used, crashes, did>>
      BY <1>1, <1>6, <2>1 DEF SaveStepCompensating, SavesStep, Compensating
    <2>3. x.i \in StepIds /\ x.s \in Rows
      BY <1>2, <2>2 DEF TaskOk
    <2>4. [x.s[x.i] EXCEPT !.state = "COMPENSATED"] \in StepRow
      BY <2>3, StateNames DEF Rows, StepRow
    <2>5. [x.s EXCEPT ![x.i] = [x.s[x.i] EXCEPT !.state = "COMPENSATED"]] \in Rows
      BY <2>3, <2>4 DEF Rows
    <2>6. /\ y \in TaskType /\ y.pc = "saveStepCompensated" /\ y.key = x.key /\ y.w = x.w
          /\ y.i = x.i /\ y.rel = x.rel /\ y.s \in Rows /\ y.todo = x.todo
      BY <1>2, <2>1, <2>5 DEF TaskType, PcNames, SavesStep, Compensating
    <2>7. y.pc \notin Executing /\ (TaskOk(x, wf', st', did') => TaskOk(y, wf', st', did'))
      BY <2>2, <2>6
         DEF TaskOk, SavesStep, InSteps, AboutToRun, Starting, Executing, Compensating, Working
    <2> QED
      BY <1>1, <2>2, <2>7, SavedStep
  <1>7. CASE SaveStepCompensated(t)
    <2>1. PICK y : y = NextCompensation(x, x.i)
      OBVIOUS
    <2>2. /\ x.pc = "saveStepCompensated" /\ x.pc \in SavesStep /\ SaveStep(task[t])
          /\ Becomes(t, y) /\ UNCHANGED <<today, used, crashes, did>>
      BY <1>1, <1>7, <2>1 DEF SaveStepCompensated, SavesStep, Compensating
    <2>3. y.pc \notin Executing /\ (TaskOk(x, wf', st', did') => TaskOk(y, wf', st', did'))
      BY <1>4, <2>1, <2>2
    <2> QED
      BY <1>1, <2>2, <2>3, SavedStep
  <1>8. CASE SaveStepUncompensated(t)
    <2>1. PICK y : y = [x EXCEPT !.w = "FAILED", !.pc = "saveUncompensated"]
      OBVIOUS
    <2>2. /\ x.pc = "saveStepUncompensated" /\ x.pc \in SavesStep /\ SaveStep(task[t])
          /\ Becomes(t, y) /\ UNCHANGED <<today, used, crashes, did>>
      BY <1>1, <1>8, <2>1 DEF SaveStepUncompensated, SavesStep, Compensating
    <2>3. /\ y \in TaskType /\ y.pc = "saveUncompensated" /\ y.key = x.key /\ y.w = "FAILED"
          /\ y.rel = x.rel /\ y.s = x.s /\ y.todo = x.todo
      BY <1>2, <2>1, StateNames DEF TaskType, PcNames
    <2>4. y.pc \notin Executing /\ (TaskOk(x, wf', st', did') => TaskOk(y, wf', st', did'))
      BY <2>2, <2>3
         DEF TaskOk, SavesStep, InSteps, AboutToRun, Starting, Executing, Compensating, Working
    <2> QED
      BY <1>1, <2>2, <2>4, SavedStep
  <1>9. CASE SaveCompensated(t)
    <2>1. /\ x.key \in Keys /\ Becomes(t, Idle) /\ SaveWorkflow(task[t])
          /\ UNCHANGED <<today, used, crashes, did>>
      BY <1>1, <1>2, <1>9 DEF SaveCompensated, TaskOk
    <2>2. Idle.pc \notin Executing
      BY DEF Idle, Executing, Starting, InSteps, AboutToRun
    <2> QED
      BY <1>1, <2>1, <2>2, IdleOk, SavedWorkflow
  <1> QED
    BY <1>3, <1>5, <1>6, <1>7, <1>8, <1>9

\* Recovery.  A pass fails workflows and steps; it never resumes one, because
\* the copies it read say RUNNING.
LEMMA RecoverKeeps ==
  ASSUME ExecInv, NEW t \in Tasks,
         \/ scheduledRecovery(t) \/ triggerManualRecovery(t)
         \/ RecoverWorkflow(t) \/ RecoverySave(t) \/ FindStuckSteps(t) \/ RecoverStuckStep(t)
         \/ StuckSave(t) \/ StuckSaveStep(t)
  PROVE  ExecInv'
  <1>0. /\ TablesOk(wf, st, did) /\ TaskOk(task[t], wf, st, did) /\ used \subseteq Ops
        /\ N \in Nat
    BY CountsAssumption DEF ExecInv
  <1>1. PICK x : x = task[t]
    OBVIOUS
  <1>2. TaskOk(x, wf, st, did) /\ x \in TaskType
    BY <1>0, <1>1 DEF TaskOk
  <1>3. Idle.pc \notin Executing /\ Idle \in TaskType /\ "orphans" \notin Executing
        /\ "stuck" \notin Executing /\ "idle" \notin Executing
    BY IdleOk DEF Idle, Executing, Starting, InSteps, AboutToRun, TaskOk
  <1>4. ASSUME NEW stale, stale \subseteq Keys, Orphans(stale), NEW op \in OpNames, NEW y,
               y = [Idle EXCEPT !.op = op, !.pc = "orphans", !.todo = OrphanCopies(stale)]
        PROVE  TaskOk(y, wf, st, did) /\ y.pc \notin Executing
    <2>1. \A k \in stale : k \in Keys /\ wf[k] = "RUNNING" /\ st[k] \in Rows
      BY <1>0, <1>4 DEF Orphans, StaleSubset, TablesOk
    <2>2. PICK T : T = OrphanCopies(stale)
      OBVIOUS
    <2>3. T \subseteq OrphanCopy /\ \A o \in T : st[o.key] \in Rows
      BY <2>1, <2>2 DEF OrphanCopies, OrphanCopy
    <2>4. /\ y \in TaskType /\ y.pc = "orphans" /\ y.w = "PENDING" /\ ~y.rel /\ y.todo = T
      BY <1>3, <1>4, <2>2, <2>3 DEF Idle, TaskType, PcNames
    <2> QED
      BY <2>3, <2>4
         DEF TaskOk, SavesStep, InSteps, AboutToRun, Starting, Executing, Compensating, Working
  <1>5. CASE scheduledRecovery(t)
    <2>1. PICK stale \in SUBSET Keys :
            /\ Orphans(stale)
            /\ Becomes(t, [Idle EXCEPT !.op = "recovery", !.pc = "orphans",
                                       !.todo = OrphanCopies(stale)])
      BY <1>5 DEF scheduledRecovery
    <2>2. PICK y : y = [Idle EXCEPT !.op = "recovery", !.pc = "orphans",
                                    !.todo = OrphanCopies(stale)]
      OBVIOUS
    <2>3. "recovery" \in OpNames /\ UNCHANGED <<today, wf, st, used, crashes, did>>
      BY <1>5 DEF OpNames, scheduledRecovery
    <2>4. TaskOk(y, wf, st, did) /\ y.pc \notin Executing
      BY <1>4, <2>1, <2>2, <2>3
    <2> QED
      BY <1>0, <2>1, <2>2, <2>3, <2>4, MovedAlone
  <1>6. CASE triggerManualRecovery(t)
    <2>1. PICK stale \in SUBSET Keys :
            /\ Orphans(stale)
            /\ Call(t, "manualRecovery", [Idle EXCEPT !.op = "manual", !.pc = "orphans",
                                                      !.todo = OrphanCopies(stale)])
      BY <1>6 DEF triggerManualRecovery
    <2>2. PICK y : y = [Idle EXCEPT !.op = "manual", !.pc = "orphans",
                                    !.todo = OrphanCopies(stale)]
      OBVIOUS
    <2>3. "manual" \in OpNames
      BY DEF OpNames
    <2>4. TaskOk(y, wf, st, did) /\ y.pc \notin Executing
      BY <1>4, <2>1, <2>2, <2>3
    <2> QED
      BY <1>0, <2>1, <2>2, <2>4, MovedAlone DEF Call
  <1>7. CASE RecoverWorkflow(t)
    <2>1. /\ x.pc = "orphans" /\ x.todo \subseteq OrphanCopy /\ \A o \in x.todo : st[o.key] \in Rows
          /\ UNCHANGED <<today, wf, st, used, crashes, did>>
      BY <1>1, <1>2, <1>7 DEF RecoverWorkflow, TaskOk
    <2>2. PICK o \in x.todo :
            LET rest == [x EXCEPT !.todo = x.todo \ {o}]
                copy == [rest EXCEPT !.key = o.key, !.w = o.w, !.s = o.s, !.rel = TRUE]
                resumed == ExecuteWorkflow(copy)
            IN Becomes(t, IF \E i \in 1 .. Len(o.s) : o.s[i].state = "FAILED"
                          THEN [copy EXCEPT !.w = "FAILED", !.pc = "recoverySave"]
                          ELSE IF resumed = Idle THEN rest ELSE resumed)
      BY <1>1, <1>7 DEF RecoverWorkflow
    <2>3. o.key \in Keys /\ o.w = "RUNNING" /\ o.s \in Rows /\ st[o.key] \in Rows
      BY <2>1 DEF OrphanCopy
    <2>4. PICK rest : rest = [x EXCEPT !.todo = x.todo \ {o}]
      OBVIOUS
    <2>5. PICK copy : copy = [rest EXCEPT !.key = o.key, !.w = o.w, !.s = o.s, !.rel = TRUE]
      OBVIOUS
    <2>6. PICK y : y = [copy EXCEPT !.w = "FAILED", !.pc = "recoverySave"]
      OBVIOUS
    <2>7. /\ rest \in TaskType /\ rest.pc = "orphans" /\ rest.todo = x.todo \ {o}
          /\ rest.key = x.key /\ rest.w = x.w /\ rest.s = x.s /\ rest.rel = x.rel
      BY <1>2, <2>1, <2>4 DEF TaskType
    <2>8. /\ copy \in TaskType /\ copy.w = "RUNNING" /\ copy.key = o.key /\ copy.s = o.s
          /\ copy.rel /\ copy.todo = x.todo \ {o}
      BY <2>3, <2>5, <2>7, StateNames DEF TaskType
    <2>9. ExecuteWorkflow(copy) = Idle
      BY <2>8, RunningIsRefused
    <2>10. Becomes(t, y) \/ Becomes(t, rest)
      BY <2>2, <2>4, <2>5, <2>6, <2>9
    <2>11. /\ y \in TaskType /\ y.w = "FAILED" /\ y.pc = "recoverySave" /\ y.key = o.key
           /\ y.s = o.s /\ y.rel /\ y.todo = x.todo \ {o}
      BY <2>6, <2>8, StateNames DEF TaskType, PcNames
    <2>12. TaskOk(y, wf, st, did) /\ y.pc \notin Executing
      BY <2>1, <2>3, <2>11
         DEF TaskOk, SavesStep, InSteps, AboutToRun, Starting, Executing, Compensating, Working
    <2>13. TaskOk(rest, wf, st, did) /\ rest.pc \notin Executing
      BY <1>2, <2>1, <2>7
         DEF TaskOk, SavesStep, InSteps, AboutToRun, Starting, Executing, Compensating, Working
    <2>14. CASE Becomes(t, y)
      BY <1>0, <2>1, <2>12, <2>14, MovedAlone
    <2>15. CASE Becomes(t, rest)
      BY <1>0, <2>1, <2>13, <2>15, MovedAlone
    <2> QED
      BY <2>10, <2>14, <2>15
  <1>8. CASE RecoverySave(t)
    <2>1. PICK y : y = NextOrphan(x)
      OBVIOUS
    <2>2. /\ x.key \in Keys /\ x.todo \subseteq OrphanCopy /\ SaveWorkflow(task[t])
          /\ UNCHANGED <<today, used, crashes, did>> /\ Becomes(t, y)
      BY <1>1, <1>2, <1>8, <2>1 DEF RecoverySave, TaskOk, NextOrphan
    <2>3. y.pc \notin Executing /\ (TaskOk(x, wf', st', did') => TaskOk(y, wf', st', did'))
      BY <1>2, <1>3, <2>1, <2>2, NextOrphanOk
    <2> QED
      BY <1>1, <2>2, <2>3, SavedWorkflow
  <1>9. CASE FindStuckSteps(t)
    <2>1. PICK running : running = {p \in Keys \X StepIds : /\ p[2] <= Len(st[p[1]])
                                                            /\ st[p[1]][p[2]].state = "RUNNING"}
      OBVIOUS
    <2>2. x.pc = "orphans" /\ UNCHANGED <<today, wf, st, used, crashes, did>>
      BY <1>1, <1>9 DEF FindStuckSteps
    <2>3. PICK stuck \in SUBSET running :
            Becomes(t, IF stuck = {} THEN Idle
                       ELSE [x EXCEPT !.pc = "stuck",
                               !.todo = {[key |-> p[1], i |-> p[2], w |-> wf[p[1]], s |-> st[p[1]]]
                                         : p \in stuck}])
      BY <1>1, <1>9, <2>1 DEF FindStuckSteps
    <2>4. PICK T : T = {[key |-> p[1], i |-> p[2], w |-> wf[p[1]], s |-> st[p[1]]] : p \in stuck}
      OBVIOUS
    <2>5. PICK y : y = [x EXCEPT !.pc = "stuck", !.todo = T]
      OBVIOUS
    <2>6. \A p \in stuck : /\ p[1] \in Keys /\ p[2] \in StepIds /\ st[p[1]] \in Rows
                           /\ wf[p[1]] \in WorkflowStates
      <3> SUFFICES ASSUME NEW p \in stuck
                   PROVE  /\ p[1] \in Keys /\ p[2] \in StepIds /\ st[p[1]] \in Rows
                          /\ wf[p[1]] \in WorkflowStates
        OBVIOUS
      <3>1. p[1] \in Keys /\ p[2] \in StepIds /\ p[2] <= Len(st[p[1]])
        BY <2>1, <2>3
      <3>2. st[p[1]] # <<>>
        BY <1>0, <3>1 DEF StepIds
      <3> QED
        BY <1>0, <3>1, <3>2 DEF TablesOk
    <2>7. T \subseteq StuckCopy /\ \A o \in T : st[o.key] \in Rows
      BY <2>4, <2>6 DEF StuckCopy
    <2>8. /\ y \in TaskType /\ y.pc = "stuck" /\ y.w = x.w /\ y.key = x.key /\ y.s = x.s
          /\ y.rel = x.rel /\ y.todo = T
      BY <1>2, <2>5, <2>7 DEF TaskType, PcNames
    <2>9. TaskOk(y, wf, st, did) /\ y.pc \notin Executing
      BY <1>2, <2>2, <2>7, <2>8
         DEF TaskOk, SavesStep, InSteps, AboutToRun, Starting, Executing, Compensating, Working
    <2>10. Becomes(t, Idle) \/ Becomes(t, y)
      BY <2>3, <2>4, <2>5
    <2>11. CASE Becomes(t, Idle)
      BY <1>0, <1>3, <2>2, <2>11, IdleOk, MovedAlone
    <2>12. CASE Becomes(t, y)
      BY <1>0, <2>2, <2>9, <2>12, MovedAlone
    <2> QED
      BY <2>10, <2>11, <2>12
  <1>10. CASE RecoverStuckStep(t)
    <2>1. /\ x.pc = "stuck" /\ x.todo \subseteq StuckCopy /\ \A o \in x.todo : st[o.key] \in Rows
          /\ UNCHANGED <<today, wf, st, used, crashes, did>>
      BY <1>1, <1>2, <1>10 DEF RecoverStuckStep, TaskOk
    <2>2. PICK o \in x.todo :
            LET r == o.s[o.i].retryCount + 1
                rest == [x EXCEPT !.todo = x.todo \ {o}]
            IN Becomes(t, IF o.w # "RUNNING" THEN AfterStuck(rest)
                          ELSE [rest EXCEPT
                                  !.key = o.key, !.i = o.i,
                                  !.s = [o.s EXCEPT ![o.i] = [state |-> "FAILED", retryCount |-> r]],
                                  !.w = IF shouldRetry(r) THEN o.w ELSE "FAILED",
                                  !.pc = IF shouldRetry(r) THEN "stuckSaveStep" ELSE "stuckSave"])
      BY <1>1, <1>10 DEF RecoverStuckStep
    <2>3. o.key \in Keys /\ o.i \in StepIds /\ o.i \in 0 .. N /\ o.s \in Rows /\ st[o.key] \in Rows
      BY <1>0, <2>1 DEF StuckCopy, StepIds
    <2>4. PICK rest : rest = [x EXCEPT !.todo = x.todo \ {o}]
      OBVIOUS
    <2>5. PICK n : n = o.s[o.i].retryCount + 1
      OBVIOUS
    <2>6. PICK e : e = [o.s EXCEPT ![o.i] = [state |-> "FAILED", retryCount |-> n]]
      OBVIOUS
    <2>7. PICK q : q = IF shouldRetry(n) THEN o.w ELSE "FAILED"
      OBVIOUS
    <2>8. PICK pc : pc = IF shouldRetry(n) THEN "stuckSaveStep" ELSE "stuckSave"
      OBVIOUS
    <2>9. PICK y : y = [rest EXCEPT !.key = o.key, !.i = o.i, !.s = e, !.w = q, !.pc = pc]
      OBVIOUS
    <2>10. Becomes(t, IF o.w # "RUNNING" THEN AfterStuck(rest) ELSE y)
      BY <2>2, <2>4, <2>5, <2>6, <2>7, <2>8, <2>9
    <2>11. /\ rest \in TaskType /\ rest.pc = "stuck" /\ rest.todo = x.todo \ {o}
           /\ rest.key = x.key /\ rest.w = x.w /\ rest.s = x.s /\ rest.rel = x.rel
      BY <1>2, <2>1, <2>4 DEF TaskType
    <2>12. TaskOk(rest, wf, st, did) /\ rest.todo \subseteq StuckCopy
      BY <1>2, <2>1, <2>11
         DEF TaskOk, SavesStep, InSteps, AboutToRun, Starting, Executing, Compensating, Working
    <2>13. CASE o.w # "RUNNING"
      <3>1. PICK z : z = AfterStuck(rest)
        OBVIOUS
      <3>2. TaskOk(z, wf, st, did) /\ z.pc \notin Executing
        BY <1>3, <2>12, <3>1, AfterStuckOk
      <3> QED
        BY <1>0, <2>1, <2>10, <2>13, <3>1, <3>2, MovedAlone
    <2>14. CASE o.w = "RUNNING"
      <3>1. n \in Nat /\ [state |-> "FAILED", retryCount |-> n] \in StepRow
        BY <2>3, <2>5, StateNames DEF Rows, StepRow
      <3>2. e \in Rows
        BY <2>3, <2>6, <3>1 DEF Rows
      <3>3. q \in {"RUNNING", "FAILED"} /\ pc \in {"stuckSaveStep", "stuckSave"}
        BY <2>7, <2>8, <2>14
      <3>4. q \in WorkflowStates /\ pc \in PcNames /\ pc \in SavesStep
        BY <3>3, StateNames DEF PcNames, SavesStep
      <3>5. /\ y \in TaskType /\ y.pc = pc /\ y.key = o.key /\ y.w = q /\ y.s = e /\ y.i = o.i
            /\ y.rel = x.rel /\ y.todo = x.todo \ {o}
        BY <2>3, <2>9, <2>11, <3>2, <3>4 DEF TaskType
      <3>6. TaskOk(y, wf, st, did) /\ y.pc \notin Executing
        BY <1>2, <2>1, <2>3, <3>2, <3>3, <3>5
           DEF TaskOk, SavesStep, InSteps, AboutToRun, Starting, Executing, Compensating, Working
      <3> QED
        BY <1>0, <2>1, <2>10, <2>14, <3>6, MovedAlone
    <2> QED
      BY <2>13, <2>14
  <1>11. CASE StuckSave(t)
    <2>1. PICK y : y = [x EXCEPT !.pc = "stuckSaveStep"]
      OBVIOUS
    <2>2. /\ x.pc = "stuckSave" /\ x.key \in Keys /\ SaveWorkflow(task[t]) /\ Becomes(t, y)
          /\ UNCHANGED <<today, used, crashes, did>>
      BY <1>1, <1>2, <1>11, <2>1 DEF StuckSave, TaskOk
    <2>3. /\ y \in TaskType /\ y.pc = "stuckSaveStep" /\ y.key = x.key /\ y.w = x.w /\ y.s = x.s
          /\ y.i = x.i /\ y.rel = x.rel /\ y.todo = x.todo
      BY <1>2, <2>1 DEF TaskType, PcNames, SavesStep
    <2>4. y.pc \notin Executing /\ (TaskOk(x, wf', st', did') => TaskOk(y, wf', st', did'))
      BY <2>2, <2>3
         DEF TaskOk, SavesStep, InSteps, AboutToRun, Starting, Executing, Compensating, Working
    <2> QED
      BY <1>1, <2>2, <2>4, SavedWorkflow
  <1>12. CASE StuckSaveStep(t)
    <2>1. PICK y : y = AfterStuck(x)
      OBVIOUS
    <2>2. /\ x.pc = "stuckSaveStep" /\ x.pc \in SavesStep /\ SaveStep(task[t]) /\ Becomes(t, y)
          /\ UNCHANGED <<today, used, crashes, did>>
      BY <1>1, <1>12, <2>1 DEF StuckSaveStep, SavesStep
    <2>3. x.todo \subseteq StuckCopy
      BY <1>2, <2>2 DEF TaskOk
    <2>4. y.pc \notin Executing /\ (TaskOk(x, wf', st', did') => TaskOk(y, wf', st', did'))
      BY <1>2, <1>3, <2>1, <2>3, AfterStuckOk
    <2> QED
      BY <1>1, <2>2, <2>4, SavedStep
  <1> QED
    BY <1>5, <1>6, <1>7, <1>8, <1>9, <1>10, <1>11, <1>12

-----------------------------------------------------------------------------
(* The invariant holds initially, and every step of the engine keeps it.   *)

LEMMA InitExecInv == Init => ExecInv
  <1> SUFFICES ASSUME Init PROVE ExecInv
    OBVIOUS
  <1>1. 1 \in 1 .. MaxDay /\ 0 \in 0 .. MaxCrashes /\ MaxRetries \in Nat \ {0} /\ N \in Nat
    BY CountsAssumption
  <1>2. today \in 1 .. MaxDay /\ used \subseteq Ops /\ crashes \in 0 .. MaxCrashes
    BY <1>1 DEF Init
  <1>3. TablesOk(wf, st, did)
    BY <1>1 DEF Init, TablesOk
  <1>4. \A t \in Tasks : task[t] = Idle
    BY DEF Init
  <1>5. Idle \in TaskType /\ Idle.pc \notin Executing
    BY IdleOk DEF TaskOk, Idle, Executing, Starting, InSteps, AboutToRun
  <1>6. task \in [Tasks -> TaskType]
    BY <1>5 DEF Init
  <1>7. (\A t \in Tasks : TaskOk(task[t], wf, st, did)) /\ OneExecutor(task)
    BY <1>4, <1>5, IdleOk DEF OneExecutor
  <1> QED
    BY <1>2, <1>3, <1>6, <1>7 DEF ExecInv

LEMMA NextExecInv == ExecInv /\ [Next]_vars => ExecInv'
  <1> SUFFICES ASSUME ExecInv, [Next]_vars PROVE ExecInv'
    OBVIOUS
  <1>1. CASE NextDay
    <2>1. today' \in 1 .. MaxDay /\ UNCHANGED <<wf, st, task, used, crashes, did>>
      BY <1>1, CountsAssumption DEF NextDay, ExecInv
    <2> QED
      BY <2>1 DEF ExecInv
  <1>2. CASE Crash
    <2>1. /\ crashes' \in 0 .. MaxCrashes /\ UNCHANGED <<today, wf, st, used, did>>
          /\ task' = [t \in Tasks |-> Idle]
      BY <1>2, CountsAssumption DEF Crash, ExecInv
    <2>2. Idle \in TaskType /\ Idle.pc \notin Executing
      BY IdleOk DEF TaskOk, Idle, Executing, Starting, InSteps, AboutToRun
    <2>3. task' \in [Tasks -> TaskType] /\ \A t \in Tasks : task'[t] = Idle
      BY <2>1, <2>2
    <2>4. (\A t \in Tasks : TaskOk(task'[t], wf', st', did')) /\ OneExecutor(task')
      BY <2>2, <2>3, IdleOk DEF OneExecutor
    <2> QED
      BY <2>1, <2>3, <2>4 DEF ExecInv
  <1>3. ASSUME NEW t \in Tasks, NEW r \in Requests, startWorkflow(t, r) PROVE ExecInv'
    BY <1>3, StartKeeps
  <1>4. ASSUME NEW t \in Tasks, NEW k \in Keys, AdminCall(t, k) PROVE ExecInv'
    BY <1>4, RetryKeeps, CompensateKeeps
       DEF AdminCall, PostRetry, PostCancel, PostCompensate, PostForceCompensate
  <1>5. ASSUME NEW t \in Tasks, scheduledRecovery(t) \/ triggerRecovery(t) PROVE ExecInv'
    BY <1>5, RecoverKeeps DEF triggerRecovery
  <1>6. ASSUME NEW t \in Tasks, Resume(t) PROVE ExecInv'
    BY <1>6, StartKeeps, ExecuteKeeps, RetryKeeps, CompensateKeeps, RecoverKeeps DEF Resume
  <1>7. ASSUME NEW t \in Tasks, DatabaseError(t) PROVE ExecInv'
    <2>1. PICK x : x = task[t]
      OBVIOUS
    <2>2. PICK y : y = AfterError(x)
      OBVIOUS
    <2>3. /\ DbErrors /\ Becomes(t, y) /\ UNCHANGED <<today, wf, st, used, crashes, did>>
      BY <1>7, <2>1, <2>2 DEF DatabaseError
    <2>4. /\ TaskOk(x, wf, st, did) /\ used \subseteq Ops
          /\ x.key \in Keys => did[x.key] \in [StepIds -> Nat]
      BY <2>1 DEF ExecInv, TablesOk
    <2>5. TaskOk(y, wf, st, did) /\ (y.pc \in Executing => x.pc \in Executing /\ y.key = x.key)
      BY <2>2, <2>3, <2>4, AfterErrorOk
    <2> QED
      BY <2>1, <2>3, <2>4, <2>5, MovedAlone
  <1>8. CASE UNCHANGED vars
    BY <1>8 DEF vars, ExecInv
  <1> QED
    BY <1>1, <1>2, <1>3, <1>4, <1>5, <1>6, <1>7, <1>8 DEF Next

\* Whatever runs beside it, at most one task executes the steps of a workflow,
\* and its position agrees with what has taken effect.
THEOREM OneExecution == Spec => []ExecInv
  <1>1. Init => ExecInv
    BY InitExecInv
  <1>2. ExecInv /\ [Next]_vars => ExecInv'
    BY NextExecInv
  <1> QED
    BY <1>1, <1>2, PTL DEF Spec

\* Rows and tasks have the types the services give them, in every state.
THEOREM RowsTyped == Spec => []TypeOK
  <1>1. ExecInv => TypeOK
    <2> SUFFICES ASSUME ExecInv PROVE TypeOK
      OBVIOUS
    <2>1. \A k \in Keys :
            /\ wf[k] \in WorkflowStates \union {"NONE"}
            /\ st[k] = <<>> \/ (wf[k] # "NONE" /\ st[k] \in [StepIds -> StepRow])
            /\ did[k] \in [StepIds -> Nat]
      BY DEF ExecInv, TablesOk, Rows
    <2>2. \A t \in Tasks :
            /\ task[t].w \in WorkflowStates \union {"NONE"}
            /\ task[t].key \in Keys \union {NoKey}
            /\ task[t].i \in 0 .. N
      BY DEF ExecInv, TaskType
    <2> QED
      BY <2>1, <2>2 DEF TypeOK, ExecInv
  <1> QED
    BY <1>1, OneExecution, PTL

\* executeSteps takes the steps in order whatever crashes, retries, recovery
\* passes, cancellations, compensations and failing saves run beside it: no step
\* has taken effect unless all the earlier ones have.
THEOREM StepsInOrder == Spec => []StepOrder
  <1>1. ExecInv => StepOrder
    BY DEF ExecInv, TablesOk, StepOrder
  <1> QED
    BY <1>1, OneExecution, PTL

\* The row of a workflow says COMPLETED only when every step has taken effect,
\* although stale copies of it are saved by every service.
THEOREM CompletedIsDone == Spec => []CompletedMeansDone
  <1>1. ExecInv => CompletedMeansDone
    BY DEF ExecInv, TablesOk, CompletedMeansDone
  <1> QED
    BY <1>1, OneExecution, PTL

\* A step takes effect at most maxRetries times, even when the save of its
\* success fails and executeStep runs it again.
THEOREM RepetitionBounded == Spec => []BoundedRepetition
  <1>1. ExecInv => BoundedRepetition
    BY DEF ExecInv, TablesOk, BoundedRepetition
  <1> QED
    BY <1>1, OneExecution, PTL

\* While every save succeeds, no step of one idempotency key takes effect twice,
\* for any number of racing requests, retries, recovery passes and crashes.
THEOREM EffectsAtMostOnce == ASSUME ~DbErrors PROVE Spec => []AtMostOnce
  <1>1. ExecInv => AtMostOnce
    BY DEF ExecInv, TablesOk, AtMostOnce
  <1> QED
    BY <1>1, OneExecution, PTL
=============================================================================
