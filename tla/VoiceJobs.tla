------------------------------ MODULE VoiceJobs ------------------------------
(***************************************************************************)
(* Speech jobs (Backend/src/voice): VoiceService stores a row and queues a *)
(* Bull job for it; VoiceProcessor works on it and keeps the row's status  *)
(* and retry count, while Bull keeps its own count of attempts.            *)
(*                                                                         *)
(* A worker can die between any two of its updates: Bull finds the job     *)
(* stalled and runs it once more.  Files, texts and hashes are a content.  *)
(***************************************************************************)
EXTENDS Integers, FiniteSets

CONSTANTS
  Contents,             \* audio files and texts
  MaxRetries,           \* default of the column maxRetries: 3
  BullAttempts,         \* attempts of a queued job: 3 (external: defaultJobOptions)
  MaxStalled,           \* times Bull takes a stalled job up again: 1 (external)
  MaxSpeechJobs         \* bound of the exploration

VARIABLES
  rows,      \* voice_jobs: id -> [type, content, status, retryCount]
  bullJobs,  \* queue voice-processing: id -> [state, attempts, stalled]
  step,      \* step the worker of each row is at
  submits,   \* requests between the lookup and the insertion
  orphaned   \* rows saved whose job was never added, or whose bookkeeping failed

speechVars == <<rows, bullJobs, step, submits, orphaned>>

JobTypes == {"stt", "tts"}
JobStatuses == {"pending", "processing", "completed", "failed"}
SpeechIds == 1 .. MaxSpeechJobs
NextRow == Cardinality(DOMAIN rows) + 1

VoiceJobsTypeOK ==
  /\ DOMAIN rows \subseteq SpeechIds
  /\ \A i \in DOMAIN rows :
       rows[i] \in [type : JobTypes, content : Contents, status : JobStatuses, retryCount : 0 .. MaxRetries + MaxStalled + 1]
  /\ DOMAIN bullJobs \subseteq DOMAIN rows
  /\ step \in [SpeechIds -> {"idle", "find", "work", "save", "retry", "settle"}]

VoiceJobsInit == rows = <<>> /\ bullJobs = <<>> /\ step = [i \in SpeechIds |-> "idle"] /\ submits = {} /\ orphaned = {}

VoiceJob(type, c) == [type |-> type, content |-> c, status |-> "pending", retryCount |-> 0]
Extend(f, k, v) == [x \in DOMAIN f \cup {k} |-> IF x = k THEN v ELSE f[x]]

-----------------------------------------------------------------------------
\* processSTT and processTTS: a completed job of the same content is the
\* answer; otherwise a row is saved and then a job is added.
Completed(type, c) == \E i \in DOMAIN rows : rows[i].type = type /\ rows[i].content = c /\ rows[i].status = "completed"
Submit(type, c) ==
  /\ ~Completed(type, c) /\ NextRow + Cardinality(submits) <= MaxSpeechJobs
  /\ submits' = submits \cup {[row |-> 0, type |-> type, content |-> c]}
  /\ UNCHANGED <<rows, bullJobs, step, orphaned>>
processSTT(c) == Submit("stt", c)
processTTS(c) == Submit("tts", c)
uploadAudio(c) == processSTT(c)
generateTTS(c) == processTTS(c)
SaveRow(s) ==
  /\ s.row = 0
  /\ rows' = Extend(rows, NextRow, VoiceJob(s.type, s.content))
  /\ submits' = (submits \ {s}) \cup {[s EXCEPT !.row = NextRow]}
  /\ UNCHANGED <<bullJobs, step, orphaned>>
AddJob(s, ok) ==
  /\ s.row # 0 /\ submits' = submits \ {s}
  /\ bullJobs' = IF ok THEN Extend(bullJobs, s.row, [state |-> "waiting", attempts |-> 0, stalled |-> 0]) ELSE bullJobs
  /\ orphaned' = IF ok THEN orphaned ELSE orphaned \cup {s.row}
  /\ UNCHANGED <<rows, step>>

-----------------------------------------------------------------------------
\* Bull (external).
Take(i) ==
  /\ bullJobs[i].state = "waiting"
  /\ bullJobs' = [bullJobs EXCEPT ![i].state = "active"] /\ step' = [step EXCEPT ![i] = "find"]
  /\ UNCHANGED <<rows, submits, orphaned>>
JobReturns(i) == bullJobs' = [bullJobs EXCEPT ![i].state = "completed"]
JobThrows(i) ==
  bullJobs' = [bullJobs EXCEPT ![i].attempts = @ + 1,
                               ![i].state = IF bullJobs[i].attempts + 1 < BullAttempts THEN "waiting" ELSE "failed"]
WorkerDies(i) ==
  /\ bullJobs[i].state = "active"
  /\ bullJobs' = [bullJobs EXCEPT ![i].stalled = @ + 1, ![i].state = IF @ = "active" /\ bullJobs[i].stalled < MaxStalled THEN "waiting" ELSE "failed"]
  /\ step' = [step EXCEPT ![i] = "idle"]
  /\ orphaned' = IF bullJobs[i].stalled < MaxStalled THEN orphaned ELSE orphaned \cup {i}
  /\ UNCHANGED <<rows, submits>>

\* VoiceProcessor.handleSTT and handleTTS.
updateJobStatus(i, status) == rows' = [rows EXCEPT ![i].status = status]
At(i, pc, next) == i \in DOMAIN rows /\ step[i] = pc /\ step' = [step EXCEPT ![i] = next] /\ UNCHANGED submits
\* Any of the three awaits of the try block may fail.
StepFails(i) == \E pc \in {"find", "work", "save"} : At(i, pc, "retry") /\ UNCHANGED <<rows, bullJobs, orphaned>>
StartProcessing(i) == At(i, "find", "work") /\ updateJobStatus(i, "processing") /\ UNCHANGED <<bullJobs, orphaned>>
ProduceResult(i) == At(i, "work", "save") /\ UNCHANGED <<rows, bullJobs, orphaned>>
SaveResult(i) == At(i, "save", "idle") /\ updateJobStatus(i, "completed") /\ JobReturns(i) /\ UNCHANGED orphaned

\* A bug this module must not have: one retry more than Bull makes.
canRetry_once_more(i) == rows[i].retryCount <= MaxRetries

\* The catch block: incrementRetry, then the row goes back to pending and Bull
\* retries, or the row fails and Bull counts the job as done.
canRetry(i) == rows[i].retryCount < MaxRetries
incrementRetry(i) ==
  At(i, "retry", "settle") /\ rows' = [rows EXCEPT ![i].retryCount = @ + 1] /\ UNCHANGED <<bullJobs, orphaned>>
Settle(i) ==
  /\ At(i, "settle", "idle")
  /\ IF canRetry(i) THEN updateJobStatus(i, "pending") /\ JobThrows(i) ELSE updateJobStatus(i, "failed") /\ JobReturns(i)
  /\ UNCHANGED orphaned
\* An error in the catch block itself is one more error for Bull.
SettleFails(i) ==
  /\ At(i, "retry", "idle") \/ At(i, "settle", "idle")
  /\ JobThrows(i) /\ orphaned' = orphaned \cup {i} /\ UNCHANGED rows

VoiceJobsNext ==
  \/ \E c \in Contents : uploadAudio(c) \/ generateTTS(c)
  \/ \E s \in submits : SaveRow(s) \/ \E ok \in BOOLEAN : AddJob(s, ok)
  \/ \E i \in DOMAIN bullJobs :
       \/ Take(i) \/ WorkerDies(i)
       \/ StartProcessing(i) \/ ProduceResult(i) \/ SaveResult(i) \/ StepFails(i)
       \/ incrementRetry(i) \/ Settle(i) \/ SettleFails(i)

VoiceJobsSpec == VoiceJobsInit /\ [][VoiceJobsNext]_speechVars

-----------------------------------------------------------------------------
\* The two retry counts agree: when Bull is done with a job its row says so,
\* completed or failed, and never pending.  A row whose job was not added, whose
\* bookkeeping failed or whose worker died too often is excused.
NotStranded ==
  \A i \in DOMAIN bullJobs \ orphaned :
    bullJobs[i].state \in {"completed", "failed"} => rows[i].status \in {"completed", "failed"}
=============================================================================
