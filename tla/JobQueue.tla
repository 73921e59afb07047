------------------------------ MODULE JobQueue ------------------------------
(***************************************************************************)
(* The job queues of the backend (Backend/src/queue): three Bull queues    *)
(* and their processors, the retries, the dead-letter queues in Redis and  *)
(* the admin requests that read and requeue jobs.                          *)
(*                                                                         *)
(* Bull itself is external: it runs one job of a queue at a time, counts   *)
(* the attempts, delays a failed job that has attempts left, and emits     *)
(* 'failed' after every failed attempt.  A job's data is whether the       *)
(* processor's validation accepts it; an attempt can also fail at every    *)
(* await (a Redis error, the timeout of the job's options).                *)
(* The queues share nothing, so a behaviour is that of one of them.        *)
(***************************************************************************)
EXTENDS Integers, Sequences, FiniteSets

CONSTANTS
  QueueNames,       \* queues explored, among those of getQueueByName
  DeployAttempts, TtsAttempts, NewsAttempts,   \* attempts options: 3, 2 and 3 in the code
  Limits,           \* values of the limit of requeueFromDLQ
  MaxJobs, MaxRequests   \* bounds of the exploration

VARIABLES
  queueName,        \* the queue of this behaviour
  jobs,             \* job id -> job
  dlq,              \* dlq:<queue>: ids of dead jobs, oldest first
  pushing,          \* failed jobs whose rPush is awaited
  requests,         \* calls of requeueFromDLQ
  poll,             \* a call of getJobInfo: none yet, its first read, or its answer
  letters,          \* history: dead letters pushed
  requeued,         \* history: dead letter -> times it was added again
  addFailed,        \* history: queue.add failed in requeueFromDLQ
  overlapped        \* history: two requeueFromDLQ of one queue overlapped

requestVars == <<requests, requeued, addFailed, overlapped>>
queueVars == <<queueName, jobs, dlq, pushing, requestVars, poll, letters>>

JobIds == 1 .. MaxJobs
RequestIds == 1 .. MaxRequests
NoPoll == <<>>

\* mapJobState: Bull's waiting is reported as pending.
mapJobState(state) == IF state \in {"active", "completed", "failed", "delayed"} THEN state ELSE "pending"

JobType == [valid : BOOLEAN, attempts : Nat, made : Nat,
            state : {"waiting", "active", "delayed", "completed", "failed", "removed"}]
RequestType == [pc : {"idle", "adding", "done"}, rest : Seq(JobIds), added : Nat]

JobQueueTypeOK ==
  /\ DOMAIN jobs \subseteq JobIds /\ \A j \in DOMAIN jobs : jobs[j] \in JobType
  /\ queueName \in QueueNames /\ dlq \in Seq(JobIds)
  /\ pushing \subseteq DOMAIN jobs
  /\ requests \in [RequestIds -> RequestType]
  /\ letters \subseteq JobIds /\ requeued \in [JobIds -> Nat]

JobQueueInit ==
  /\ queueName \in QueueNames
  /\ jobs = <<>> /\ dlq = <<>> /\ pushing = {} /\ poll = NoPoll
  /\ requests = [r \in RequestIds |-> [pc |-> "idle", rest |-> <<>>, added |-> 0]]
  /\ letters = {} /\ requeued = [j \in JobIds |-> 0] /\ addFailed = FALSE /\ overlapped = FALSE

-----------------------------------------------------------------------------
\* queue.add (external): a job waits under the next id.
NextId == 1 + Cardinality(DOMAIN jobs)
QueueAdd(valid, attempts) ==
  /\ NextId \in JobIds
  /\ jobs' = [j \in DOMAIN jobs \cup {NextId} |->
                IF j = NextId THEN [valid |-> valid, attempts |-> attempts, made |-> 0,
                                    state |-> "waiting"]
                ELSE jobs[j]]

\* addJob, called with the options of the service's clients; jobs are kept when
\* they complete or fail.
addJob(q, valid, attempts) ==
  /\ q = queueName
  /\ QueueAdd(valid, attempts)
  /\ UNCHANGED <<queueName, dlq, pushing, requestVars, poll, letters>>
queueContractDeployment(valid) == addJob("deploy-contract", valid, DeployAttempts)
queueTtsProcessing(valid) == addJob("process-tts", valid, TtsAttempts)
queueMarketNewsIndexing(valid) == addJob("index-market-news", valid, NewsAttempts)

\* Bull takes a job (external): one at a time.
TakeJob(j) ==
  /\ j \in DOMAIN jobs /\ jobs[j].state = "waiting"
  /\ \A k \in DOMAIN jobs : jobs[k].state # "active"
  /\ jobs' = [jobs EXCEPT ![j].state = "active"]
  /\ UNCHANGED <<queueName, dlq, pushing, requestVars, poll, letters>>
Backoff(j) ==
  /\ j \in DOMAIN jobs /\ jobs[j].state = "delayed"
  /\ jobs' = [jobs EXCEPT ![j].state = "waiting"]
  /\ UNCHANGED <<queueName, dlq, pushing, requestVars, poll, letters>>

\* handleJobFailure: the job goes to the dead-letter queue after its last attempt.
handleJobFailure(made, attempts) == made >= attempts

\* An attempt fails; the 'failed' handler starts.
AttemptFails(j) ==
  LET made == jobs[j].made + 1
  IN  /\ jobs' = [jobs EXCEPT ![j].made = made,
                              ![j].state = IF made < jobs[j].attempts THEN "delayed" ELSE "failed"]
      /\ pushing' = IF handleJobFailure(made, jobs[j].attempts) THEN pushing \cup {j} ELSE pushing

\* A processor: progress reports that nothing depends on, the validation, the
\* work.  Data the validation refuses never completes.
Process(j) ==
  /\ jobs[j].state = "active"
  /\ \/ /\ jobs[j].valid
        /\ jobs' = [jobs EXCEPT ![j].state = "completed"]
        /\ UNCHANGED pushing
     \/ AttemptFails(j)
  /\ UNCHANGED <<queueName, dlq, requestVars, poll, letters>>

handleDeployContract(j) == j \in DOMAIN jobs /\ queueName = "deploy-contract" /\ Process(j)
handleProcessTts(j) == j \in DOMAIN jobs /\ queueName = "process-tts" /\ Process(j)
handleIndexMarketNews(j) == j \in DOMAIN jobs /\ queueName = "index-market-news" /\ Process(j)

\* The rPush of handleJobFailure; its error is caught and the letter is lost.
PushDeadLetter(j, ok) ==
  /\ j \in pushing
  /\ pushing' = pushing \ {j}
  /\ IF ok THEN dlq' = Append(dlq, j) /\ letters' = letters \cup {j}
     ELSE UNCHANGED <<dlq, letters>>
  /\ UNCHANGED <<queueName, jobs, requestVars, poll>>

-----------------------------------------------------------------------------
\* Admin requests.

\* Every endpoint refuses an unknown queue.
ValidQueue(q) == q \in {"deploy-contract", "process-tts", "index-market-news"}
Exists(j) == j \in DOMAIN jobs /\ jobs[j].state # "removed"

\* requeueJob: a copy of a job in any state, with the attempts of the original.
requeueJob(j) ==
  /\ Exists(j)
  /\ QueueAdd(jobs[j].valid, jobs[j].attempts)
  /\ UNCHANGED <<queueName, dlq, pushing, requestVars, poll, letters>>
retryFailedJob(j) == requeueJob(j)
PostRequeueJob(j) == ValidQueue(queueName) /\ requeueJob(j)

\* The failed jobs are removed from the queue, their dead letters are not.
purgeQueue ==
  /\ \E j \in DOMAIN jobs : jobs[j].state = "failed"
  /\ jobs' = [j \in DOMAIN jobs |->
                IF jobs[j].state = "failed" THEN [jobs[j] EXCEPT !.state = "removed"] ELSE jobs[j]]
  /\ UNCHANGED <<queueName, dlq, pushing, requestVars, poll, letters>>
PostPurge == ValidQueue(queueName) /\ purgeQueue

\* Redis LRANGE key 0 limit - 1: the end -1, of a limit 0, is the last letter.
getDeadLetterQueue(limit) ==
  SubSeq(dlq, 1, IF limit = 0 \/ Len(dlq) < limit THEN Len(dlq) ELSE limit)

\* requeueFromDLQ reads the oldest letters ...
requeueFromDLQ(r, limit) ==
  /\ requests[r].pc = "idle"
  /\ requests' = [requests EXCEPT ![r] = [pc |-> "adding", rest |-> getDeadLetterQueue(limit), added |-> 0]]
  /\ overlapped' = (overlapped \/ \E p \in RequestIds : requests[p].pc = "adding")
  /\ UNCHANGED <<queueName, jobs, dlq, pushing, poll, letters, requeued, addFailed>>
PostRequeueFromDLQ(r, limit) == ValidQueue(queueName) /\ requeueFromDLQ(r, limit)
processDeadLetterQueue(r, limit) ==
  getDeadLetterQueue(limit) # <<>> /\ requeueFromDLQ(r, limit)

\* ... adds them one by one, an add that fails is only logged ...
RequeueLetter(r, ok) ==
  /\ requests[r].pc = "adding" /\ requests[r].rest # <<>>
  /\ LET j == Head(requests[r].rest)
     IN  IF ok
         THEN /\ QueueAdd(jobs[j].valid, jobs[j].attempts)
              /\ requeued' = [requeued EXCEPT ![j] = @ + 1]
              /\ requests' = [requests EXCEPT ![r].rest = Tail(@), ![r].added = @ + 1]
              /\ UNCHANGED addFailed
         ELSE /\ requests' = [requests EXCEPT ![r].rest = Tail(@)]
              /\ addFailed' = TRUE
              /\ UNCHANGED <<jobs, requeued>>
  /\ UNCHANGED <<queueName, dlq, pushing, overlapped, poll, letters>>

\* A bug this module must not have: one letter too many is removed.
lTrim_one_more(s, n) == SubSeq(s, n + 2, Len(s))

\* Redis LTRIM key n -1 (external).
lTrim(s, n) == SubSeq(s, n + 1, Len(s))

\* ... and removes as many letters as were added from the front.
TrimLetters(r) ==
  /\ requests[r].pc = "adding" /\ requests[r].rest = <<>>
  /\ requests' = [requests EXCEPT ![r].pc = "done"]
  /\ dlq' = IF requests[r].added > 0 THEN lTrim(dlq, requests[r].added) ELSE dlq
  /\ UNCHANGED <<queueName, jobs, pushing, requeued, addFailed, overlapped, poll, letters>>

\* getJobInfo reads the job and then, in a second call, its state: the result is
\* that of the first read.  (Asked for the first job: jobs are alike.)
Snapshot(j) == [job |-> j, result |-> jobs[j].state = "completed", state |-> jobs[j].state]
getJobInfo(j) ==
  /\ Exists(j) /\ poll = NoPoll
  /\ poll' = <<Snapshot(j)>>
  /\ UNCHANGED <<queueName, jobs, dlq, pushing, requestVars, letters>>
GetJob(j) == ValidQueue(queueName) /\ getJobInfo(j)
monitorJobStatus(j) == getJobInfo(j)

\* A bug this module must not have: the state is read before the job.
JobState_before_job(p) ==
  [job |-> p.job, status |-> mapJobState(p.state), result |-> jobs[p.job].state = "completed"]

JobState(p) ==
  [job |-> p.job, status |-> mapJobState(jobs[p.job].state), result |-> p.result]
AnswerJobInfo ==
  /\ Len(poll) = 1
  /\ poll' = <<"answer", JobState(poll[1])>>
  /\ UNCHANGED <<queueName, jobs, dlq, pushing, requestVars, letters>>
\* What a client makes of the answer: done, or (without a result) failed.
handleJobCompletion(answer) == IF answer.result THEN "completed" ELSE "failed"

-----------------------------------------------------------------------------
JobQueueNext ==
  \/ \E v \in BOOLEAN :
       \/ queueContractDeployment(v)
       \/ queueTtsProcessing(v)
       \/ queueMarketNewsIndexing(v)
  \/ \E j \in JobIds :
       \/ TakeJob(j) \/ Backoff(j)
       \/ handleDeployContract(j) \/ handleProcessTts(j) \/ handleIndexMarketNews(j)
       \/ \E ok \in BOOLEAN : PushDeadLetter(j, ok)
       \/ retryFailedJob(j) \/ PostRequeueJob(j)
  \/ GetJob(1) \/ monitorJobStatus(1) \/ AnswerJobInfo \/ PostPurge
  \/ \E r \in RequestIds :
       \/ \E n \in Limits : processDeadLetterQueue(r, n) \/ PostRequeueFromDLQ(r, n)
       \/ \E ok \in BOOLEAN : RequeueLetter(r, ok)
       \/ TrimLetters(r)

JobQueueSpec == JobQueueInit /\ [][JobQueueNext]_queueVars

-----------------------------------------------------------------------------
InQueue(j) == \E i \in DOMAIN dlq : dlq[i] = j

\* Requeueing is exact while no add fails and no two requests overlap, however
\* many jobs die meanwhile: a dead letter is kept until it is requeued, and is
\* requeued once.
LettersRequeuedOnce ==
  ~addFailed /\ ~overlapped => \A j \in letters : (InQueue(j) \/ requeued[j] = 1) /\ requeued[j] <= 1

\* A client that takes a poll for a completion sees a completed job, although
\* the result and the status come from two reads.
ResultMeansCompleted ==
  Len(poll) = 2 /\ handleJobCompletion(poll[2]) = "completed" => poll[2].status = "completed"

\* "Remove requeued items from DLQ": what leaves the dead-letter queue has been
\* requeued.
OnlyRequeuedRemoved == \A j \in letters : InQueue(j) \/ requeued[j] > 0
=============================================================================
