---------------------------- MODULE ServiceProofs ----------------------------
(***************************************************************************)
(* Proofs about services of the backend that keep a promise while requests *)
(* overlap and steps fail: the AI gateway, the speech jobs, the voice      *)
(* sessions, the job queue, the Stellar monitor (the streams record every  *)
(* operation once) and its webhooks (an event is handed once to a consumer *)
(* that answers).  They share nothing; each part below is about one of     *)
(* them, for any bound and any setting.                                    *)
(***************************************************************************)
EXTENDS AiGateway, JobQueue, VoiceJobs, VoiceSessions, EventMonitor, WebhookDelivery, FiniteSetTheorems, TLAPS

-----------------------------------------------------------------------------
(* The AI gateway.  A breaker that has counted FailureThreshold failures is *)
(* open since the last of them, or has been let half-open long enough after *)
(* it; and a request is known by its id, so one that is sent is the one that *)
(* was looked up in the cache.                                              *)

Breakers == [failures : Nat, openedAt : Int, state : {"closed", "open", "half-open"}]
Requests ==
  [id : Nat, prompt : AiPrompts, known : BOOLEAN, pc : {"cache", "sent", "set", "record"},
   answer : {"", "answer", "degraded"}]

Tripped(c, now, last) ==
  c.failures >= FailureThreshold =>
    \/ c.state = "open" /\ c.openedAt = last
    \/ c.state = "half-open" /\ now - last >= HalfOpenAfter

Distinct(S, n) == \A r \in S : r.id <= n /\ \A s \in S : r.id = s.id => r = s

GatewayInv ==
  /\ aiTime \in Int /\ lastFailure \in Int /\ aiCalls \in Nat
  /\ cb \in Breakers /\ prompts \subseteq Requests
  /\ failedInRow = cb.failures
  /\ Tripped(cb, aiTime, lastFailure)
  /\ Distinct(prompts, aiCalls)

\* No step but generate makes a request a sent one.
NoneSent == \A s \in prompts' : s.pc = "sent" => s \in prompts

\* A request moves on: it keeps its id.
Moved(r, x) == x \in Requests /\ x.id = r.id /\ prompts' = (prompts \ {r}) \cup {x}

LEMMA MovedOn ==
  ASSUME NEW r \in prompts, NEW x, Moved(r, x), prompts \subseteq Requests,
         Distinct(prompts, aiCalls), aiCalls' = aiCalls
  PROVE  prompts' \subseteq Requests /\ Distinct(prompts', aiCalls')
  BY DEF Moved, Distinct

LEMMA Ended ==
  ASSUME NEW r \in prompts, End(r), prompts \subseteq Requests,
         Distinct(prompts, aiCalls), aiCalls' = aiCalls
  PROVE  prompts' \subseteq Requests /\ Distinct(prompts', aiCalls') /\ NoneSent
  BY DEF End, Distinct, NoneSent

LEMMA FallbackMoves ==
  ASSUME NEW r \in prompts, Fallback(r), prompts \subseteq Requests,
         Distinct(prompts, aiCalls), aiCalls' = aiCalls
  PROVE  prompts' \subseteq Requests /\ Distinct(prompts', aiCalls') /\ NoneSent
  <1>1. r \in Requests
    OBVIOUS
  <1>2. PICK x : x = [r EXCEPT !.pc = "set", !.answer = "degraded"]
    OBVIOUS
  <1>3. x \in Requests /\ x.id = r.id /\ x.pc = "set"
    BY <1>1, <1>2 DEF Requests
  <1>4. Moved(r, x)
    BY <1>2, <1>3 DEF Moved, Fallback
  <1>5. NoneSent
    BY <1>3, <1>4 DEF Moved, NoneSent
  <1> QED
    BY <1>4, <1>5, MovedOn

\* What a failure leaves of the breaker.
LEMMA FailureTrips ==
  ASSUME NEW r \in prompts, NEW before \in Breakers, NEW row, FailureThreshold \in Nat \ {0},
         aiTime \in Int, row = before.failures, recordFailure(r, before, row)
  PROVE  /\ cb' \in Breakers /\ failedInRow' = cb'.failures
         /\ Tripped(cb', aiTime', lastFailure') /\ lastFailure' \in Int
  <1>0. before.failures \in Nat /\ aiTime' = aiTime /\ lastFailure' = aiTime /\ failedInRow' = before.failures + 1
    BY DEF recordFailure, Breakers
  <1>1. CASE before.failures + 1 >= FailureThreshold
    <2>1. cb' = [failures |-> before.failures + 1, openedAt |-> aiTime, state |-> "open"]
      BY <1>1 DEF recordFailure
    <2> QED
      BY <1>0, <2>1 DEF Breakers, Tripped
  <1>2. CASE ~(before.failures + 1 >= FailureThreshold)
    <2>1. cb' = [before EXCEPT !.failures = before.failures + 1]
      BY <1>2 DEF recordFailure
    <2>2. cb' \in Breakers /\ cb'.failures = before.failures + 1
      BY <1>0, <2>1 DEF Breakers
    <2> QED
      BY <1>0, <1>2, <2>2 DEF Tripped
  <1> QED
    BY <1>1, <1>2

LEMMA GatewayStep ==
  ASSUME FailureThreshold \in Nat \ {0}, HalfOpenAfter \in Int, GatewayInv, [AiNext]_aiVars
  PROVE  GatewayInv' /\ (SparesProvider \/ UNCHANGED aiVars)
  <1>0. /\ aiTime \in Int /\ lastFailure \in Int /\ aiCalls \in Nat
        /\ cb \in Breakers /\ prompts \subseteq Requests /\ failedInRow = cb.failures
        /\ Tripped(cb, aiTime, lastFailure) /\ Distinct(prompts, aiCalls)
    BY DEF GatewayInv
  <1>1. NoneSent => SparesProvider
    BY <1>0 DEF NoneSent, SparesProvider, Distinct
  <1>2. CASE UNCHANGED aiVars
    BY <1>2 DEF aiVars, historyVars, GatewayInv
  <1>3. ASSUME NEW p \in AiPrompts, NEW known \in BOOLEAN, handlePrompt(p, known)
        PROVE  GatewayInv' /\ SparesProvider
    <2>1. PICK x : x = [id |-> aiCalls + 1, prompt |-> p, known |-> known, pc |-> "cache", answer |-> ""]
      OBVIOUS
    <2>2. x \in Requests /\ x.id = aiCalls + 1 /\ x.pc = "cache"
      <3>1. aiCalls + 1 \in Nat
        BY <1>0
      <3>2. x \in Requests
        BY <2>1, <3>1, Zenon DEF Requests
      <3> QED
        BY <2>1, <3>2
    <2>3. prompts' = prompts \cup {x} /\ aiCalls' = aiCalls + 1 /\ UNCHANGED <<aiTime, cb, failedInRow, lastFailure>>
      BY <1>3, <2>1 DEF handlePrompt, historyVars
    <2>4. \A r \in prompts : r.id \in Nat
      BY <1>0 DEF Requests
    <2>5. Distinct(prompts', aiCalls') /\ prompts' \subseteq Requests
      BY <1>0, <2>2, <2>3, <2>4 DEF Distinct
    <2>6. NoneSent
      BY <2>2, <2>3 DEF NoneSent
    <2> QED
      BY <1>0, <1>1, <2>3, <2>5, <2>6 DEF GatewayInv
  <1>4. ASSUME NEW r \in prompts, CacheHit(r)
        PROVE  GatewayInv' /\ SparesProvider
    <2>1. End(r) /\ UNCHANGED <<aiTime, cb, aiCalls, failedInRow, lastFailure>>
      BY <1>4 DEF CacheHit, historyVars
    <2> QED
      BY <1>0, <1>1, <2>1, Ended DEF GatewayInv
  <1>5. ASSUME NEW r \in prompts, generate(r)
        PROVE  GatewayInv' /\ SparesProvider
    <2>1. /\ cb.state = "open" => aiTime - cb.openedAt >= HalfOpenAfter
          /\ cb' = [cb EXCEPT !.state = IF cb.state = "open" THEN "half-open" ELSE cb.state]
          /\ Proceed(r, "sent") /\ UNCHANGED <<aiTime, aiCalls, failedInRow, lastFailure>>
      BY <1>5 DEF generate, checkCircuit, historyVars
    <2>2. failedInRow < FailureThreshold \/ aiTime - lastFailure >= HalfOpenAfter
      BY <1>0, <2>1 DEF Tripped, Breakers
    <2>3. SparesProvider
      BY <2>2 DEF SparesProvider
    <2>4. /\ cb' \in Breakers /\ cb'.failures = cb.failures /\ cb'.openedAt = cb.openedAt
          /\ cb.state # "open" => cb'.state = cb.state
          /\ cb.state = "open" => cb'.state = "half-open"
      BY <1>0, <2>1 DEF Breakers
    <2>5. Tripped(cb', aiTime', lastFailure')
      BY <1>0, <2>1, <2>4 DEF Tripped
    <2>6. PICK x : x = [r EXCEPT !.pc = "sent"]
      OBVIOUS
    <2>7. x \in Requests /\ x.id = r.id
      BY <1>0, <2>6 DEF Requests
    <2>8. Moved(r, x)
      BY <2>1, <2>6, <2>7 DEF Moved, Proceed
    <2>9. prompts' \subseteq Requests /\ Distinct(prompts', aiCalls')
      BY <1>0, <2>1, <2>8, MovedOn
    <2> QED
      BY <1>0, <2>1, <2>3, <2>4, <2>5, <2>9 DEF GatewayInv
  <1>6. ASSUME NEW r \in prompts, Refused(r)
        PROVE  GatewayInv' /\ SparesProvider
    <2>1. Fallback(r) /\ UNCHANGED <<aiTime, cb, aiCalls, failedInRow, lastFailure>>
      BY <1>6 DEF Refused, historyVars
    <2> QED
      BY <1>0, <1>1, <2>1, FallbackMoves DEF GatewayInv
  <1>7. ASSUME NEW r \in prompts, recordSuccess(r)
        PROVE  GatewayInv' /\ SparesProvider
    <2>1. /\ cb' = [failures |-> 0, openedAt |-> 0, state |-> "closed"] /\ failedInRow' = 0
          /\ UNCHANGED <<aiTime, aiCalls, lastFailure>>
      BY <1>7 DEF recordSuccess
    <2>2. PICK x : x = [r EXCEPT !.pc = "set", !.answer = "answer"]
      OBVIOUS
    <2>3. x \in Requests /\ x.id = r.id /\ x.pc = "set"
      BY <1>0, <2>2 DEF Requests
    <2>4. Moved(r, x)
      BY <1>7, <2>2, <2>3 DEF Moved, recordSuccess
    <2>5. prompts' \subseteq Requests /\ Distinct(prompts', aiCalls')
      BY <1>0, <2>1, <2>4, MovedOn
    <2>6. NoneSent
      BY <2>3, <2>4 DEF Moved, NoneSent
    <2>7. cb' \in Breakers /\ cb'.failures = 0 /\ Tripped(cb', aiTime', lastFailure')
      BY <2>1 DEF Breakers, Tripped
    <2> QED
      BY <1>0, <1>1, <2>1, <2>5, <2>6, <2>7 DEF GatewayInv
  <1>8. ASSUME NEW r \in prompts, NEW before \in Breakers, NEW row, row = before.failures,
               recordFailure(r, before, row)
        PROVE  GatewayInv' /\ SparesProvider
    <2>1. Fallback(r) /\ UNCHANGED <<aiTime, aiCalls>>
      BY <1>8 DEF recordFailure
    <2>2. prompts' \subseteq Requests /\ Distinct(prompts', aiCalls') /\ NoneSent
      BY <1>0, <2>1, FallbackMoves
    <2>3. /\ cb' \in Breakers /\ failedInRow' = cb'.failures
          /\ Tripped(cb', aiTime', lastFailure') /\ lastFailure' \in Int
      BY <1>0, <1>8, FailureTrips
    <2> QED
      BY <1>0, <1>1, <2>1, <2>2, <2>3 DEF GatewayInv
  <1>9. ASSUME NEW r \in prompts, BadAnswer(r)
        PROVE  GatewayInv' /\ SparesProvider
    <2>1. PICK b : b = [failures |-> 0, openedAt |-> 0, state |-> "closed"]
      OBVIOUS
    <2>2. b \in Breakers /\ b.failures = 0
      BY <2>1 DEF Breakers
    <2>3. recordFailure(r, b, 0)
      BY <1>9, <2>1 DEF BadAnswer
    <2> QED
      BY <1>8, <2>2, <2>3
  <1>10. ASSUME NEW r \in prompts, CacheAnswer(r)
         PROVE  GatewayInv' /\ SparesProvider
    <2>1. UNCHANGED <<aiTime, cb, aiCalls, failedInRow, lastFailure>>
      BY <1>10 DEF CacheAnswer, historyVars
    <2>2. CASE End(r)
      BY <1>0, <1>1, <2>1, <2>2, Ended DEF GatewayInv
    <2>3. CASE Proceed(r, "record")
      <3>1. PICK x : x = [r EXCEPT !.pc = "record"]
        OBVIOUS
      <3>2. x \in Requests /\ x.id = r.id /\ x.pc = "record"
        BY <1>0, <3>1 DEF Requests
      <3>3. Moved(r, x)
        BY <2>3, <3>1, <3>2 DEF Moved, Proceed
      <3>4. prompts' \subseteq Requests /\ Distinct(prompts', aiCalls')
        BY <1>0, <2>1, <3>3, MovedOn
      <3>5. NoneSent
        BY <3>2, <3>3 DEF Moved, NoneSent
      <3> QED
        BY <1>0, <1>1, <2>1, <3>4, <3>5 DEF GatewayInv
    <2> QED
      BY <1>10, <2>2, <2>3 DEF CacheAnswer
  <1>11. ASSUME NEW r \in prompts, recordUsage(r)
         PROVE  GatewayInv' /\ SparesProvider
    <2>1. End(r) /\ UNCHANGED <<aiTime, cb, aiCalls, failedInRow, lastFailure>>
      BY <1>11 DEF recordUsage, historyVars
    <2> QED
      BY <1>0, <1>1, <2>1, Ended DEF GatewayInv
  <1>12. ASSUME NEW p, AiEntryExpires(p)
         PROVE  GatewayInv' /\ SparesProvider
    <2>1. UNCHANGED <<aiTime, cb, prompts, aiCalls, failedInRow, lastFailure>>
      BY <1>12 DEF AiEntryExpires, historyVars
    <2> QED
      BY <1>0, <1>1, <2>1 DEF GatewayInv, NoneSent
  <1>13. CASE AiTick
    <2>1. aiTime' = aiTime + 1 /\ UNCHANGED <<cb, prompts, aiCalls, failedInRow, lastFailure>>
      BY <1>13 DEF AiTick, historyVars
    <2>2. Tripped(cb', aiTime', lastFailure')
      BY <1>0, <2>1 DEF Tripped
    <2> QED
      BY <1>0, <1>1, <2>1, <2>2 DEF GatewayInv, NoneSent
  <1> QED
    BY <1>0, <1>2, <1>3, <1>4, <1>5, <1>6, <1>7, <1>8, <1>9, <1>10, <1>11, <1>12, <1>13 DEF AiNext

\* A provider that has failed FailureThreshold times in a row is sent nothing
\* until HalfOpenAfter has passed since the last failure, however many requests
\* overlap and whatever late answers arrive meanwhile.
THEOREM BreakerSparesProvider ==
  ASSUME FailureThreshold \in Nat \ {0}, HalfOpenAfter \in Int
  PROVE  AiSpec => ProviderSpared
  <1>1. AiInit => GatewayInv
    BY DEF AiInit, GatewayInv, Breakers, Tripped, Distinct
  <1>2. GatewayInv /\ [AiNext]_aiVars => GatewayInv' /\ [SparesProvider]_aiVars
    BY GatewayStep
  <1> QED
    BY <1>1, <1>2, PTL DEF AiSpec, ProviderSpared
-----------------------------------------------------------------------------
(* Speech jobs.  The row counts a retry before Bull counts the attempt that  *)
(* failed, so Bull never has more attempts than the row has retries, unless  *)
(* the bookkeeping failed; rows and jobs are told apart by the row's number. *)

VoiceRows == [type : JobTypes, content : Contents, status : JobStatuses, retryCount : Nat]
BullRows == [state : {"waiting", "active", "completed", "failed"}, attempts : Nat, stalled : Nat]
WorkerSteps == {"idle", "find", "work", "save", "retry", "settle"}

\* A worker is at a job exactly while it is active.
Busy(job, pc) == pc # "idle" <=> job.state = "active"
Agree(row, job, pc) ==
  /\ job.attempts <= row.retryCount
  /\ pc = "settle" => job.attempts + 1 <= row.retryCount
  /\ job.state \in {"completed", "failed"} => row.status \in {"completed", "failed"}

JobsTyped(n) ==
  /\ rows \in [1 .. n -> VoiceRows]
  /\ bullJobs \in [DOMAIN bullJobs -> BullRows] /\ DOMAIN bullJobs \subseteq 1 .. n
  /\ step \in [SpeechIds -> WorkerSteps]
JobsInStep ==
  /\ \A i \in DOMAIN bullJobs :
       Busy(bullJobs[i], step[i]) /\ (i \in orphaned \/ Agree(rows[i], bullJobs[i], step[i]))
  /\ \A i \in SpeechIds \ DOMAIN bullJobs : step[i] = "idle"

Unsaved == {s \in submits : s.row = 0}
SubmitsTyped ==
  submits \subseteq [row : Nat, type : JobTypes, content : Contents] /\ IsFiniteSet(submits)
SubmitsApart(n) ==
  \A s \in submits : s.row # 0 =>
    /\ s.row \in 1 .. n /\ s.row \notin DOMAIN bullJobs
    /\ \A t \in submits : t.row = s.row => t = s
Room(n) == n + Cardinality(Unsaved) <= MaxSpeechJobs

SpeechInv(n) == JobsTyped(n) /\ JobsInStep /\ SubmitsTyped /\ SubmitsApart(n) /\ Room(n)

SpeechConstants ==
  MaxSpeechJobs \in Nat /\ MaxRetries \in Nat /\ BullAttempts \in Nat /\ MaxStalled \in Nat /\ MaxRetries <= BullAttempts

LEMMA RowsCounted ==
  ASSUME NEW n \in Nat, JobsTyped(n)
  PROVE  NextRow = n + 1
  <1>1. DOMAIN rows = 1 .. n
    BY DEF JobsTyped
  <1>2. Cardinality(1 .. n) = n
    BY FS_Interval
  <1> QED
    BY <1>1, <1>2 DEF NextRow

LEMMA RoomForRows ==
  ASSUME NEW n \in Nat, SubmitsTyped, Room(n), MaxSpeechJobs \in Nat
  PROVE  /\ IsFiniteSet(Unsaved) /\ Cardinality(Unsaved) \in Nat
         /\ Cardinality(Unsaved) <= Cardinality(submits) /\ Cardinality(submits) \in Nat
         /\ n <= MaxSpeechJobs
  <1>1. Unsaved \subseteq submits /\ IsFiniteSet(submits)
    BY DEF Unsaved, SubmitsTyped
  <1>2. IsFiniteSet(Unsaved) /\ Cardinality(Unsaved) <= Cardinality(submits)
    BY <1>1, FS_Subset
  <1>3. Cardinality(Unsaved) \in Nat /\ Cardinality(submits) \in Nat
    BY <1>1, <1>2, FS_CardinalityType
  <1> QED
    BY <1>2, <1>3 DEF Room

\* A step of the worker, or of Bull, at one job.
JobMoves(i, row, job, pc) ==
  /\ rows' = [rows EXCEPT ![i] = row] /\ bullJobs' = [bullJobs EXCEPT ![i] = job]
  /\ step' = [step EXCEPT ![i] = pc] /\ submits' = submits
  /\ orphaned \subseteq orphaned'

LEMMA JobMoved ==
  ASSUME NEW n \in Nat, SpeechInv(n), SpeechConstants, NEW i \in DOMAIN bullJobs,
         NEW row \in VoiceRows, NEW job \in BullRows, NEW pc \in WorkerSteps,
         JobMoves(i, row, job, pc), Busy(job, pc), i \in orphaned' \/ Agree(row, job, pc)
  PROVE  SpeechInv(n)'
  <1>0. JobsTyped(n) /\ JobsInStep /\ SubmitsTyped /\ SubmitsApart(n) /\ Room(n)
    BY DEF SpeechInv
  <1>1. n <= MaxSpeechJobs
    BY <1>0, RoomForRows DEF SpeechConstants
  <1>2. i \in 1 .. n /\ i \in SpeechIds
    BY <1>0, <1>1 DEF JobsTyped, SpeechIds, SpeechConstants
  <1>3. /\ JobsTyped(n)' /\ DOMAIN bullJobs' = DOMAIN bullJobs
        /\ rows'[i] = row /\ bullJobs'[i] = job /\ step'[i] = pc
    BY <1>0, <1>2 DEF JobsTyped, JobMoves, SpeechIds
  <1>4. ASSUME NEW j \in DOMAIN bullJobs, j # i
        PROVE  rows'[j] = rows[j] /\ bullJobs'[j] = bullJobs[j] /\ step'[j] = step[j]
    <2>1. j \in 1 .. n /\ j \in SpeechIds
      BY <1>0, <1>1 DEF JobsTyped, SpeechIds, SpeechConstants
    <2> QED
      BY <1>0, <1>4, <2>1 DEF JobsTyped, JobMoves
  <1>5. ASSUME NEW j \in SpeechIds \ DOMAIN bullJobs PROVE step'[j] = "idle"
    BY <1>0, <1>5 DEF JobsTyped, JobsInStep, JobMoves
  <1>6. ASSUME NEW j \in DOMAIN bullJobs
        PROVE  Busy(bullJobs'[j], step'[j]) /\ (j \in orphaned' \/ Agree(rows'[j], bullJobs'[j], step'[j]))
    <2>1. CASE j = i
      BY <1>3, <2>1
    <2>2. CASE j # i
      <3>1. Busy(bullJobs[j], step[j]) /\ (j \in orphaned \/ Agree(rows[j], bullJobs[j], step[j]))
        BY <1>0 DEF JobsInStep
      <3>2. j \in orphaned => j \in orphaned'
        BY DEF JobMoves
      <3> QED
        BY <1>4, <2>2, <3>1, <3>2
    <2> QED
      BY <2>1, <2>2
  <1>7. JobsInStep'
    BY <1>3, <1>5, <1>6 DEF JobsInStep, SpeechIds
  <1>8. SubmitsTyped' /\ SubmitsApart(n)' /\ Room(n)'
    BY <1>0, <1>3 DEF JobMoves, SubmitsTyped, SubmitsApart, Room, Unsaved
  <1> QED
    BY <1>3, <1>7, <1>8 DEF SpeechInv

LEMMA SubmitStep ==
  ASSUME NEW n \in Nat, SpeechInv(n), SpeechConstants,
         NEW type \in JobTypes, NEW c \in Contents, Submit(type, c)
  PROVE  SpeechInv(n)'
  <1>0. JobsTyped(n) /\ JobsInStep /\ SubmitsTyped /\ SubmitsApart(n) /\ Room(n)
    BY DEF SpeechInv
  <1>1. PICK x : x = [row |-> 0, type |-> type, content |-> c]
    OBVIOUS
  <1>2. x \in [row : Nat, type : JobTypes, content : Contents] /\ x.row = 0
    BY <1>1
  <1>3. /\ NextRow + Cardinality(submits) <= MaxSpeechJobs /\ submits' = submits \cup {x}
        /\ UNCHANGED <<rows, bullJobs, step, orphaned>>
    BY <1>1 DEF Submit
  <1>4. /\ IsFiniteSet(Unsaved) /\ Cardinality(Unsaved) \in Nat
        /\ Cardinality(Unsaved) <= Cardinality(submits) /\ Cardinality(submits) \in Nat
    BY <1>0, RoomForRows DEF SpeechConstants
  <1>5. Unsaved' = Unsaved \cup {x}
    BY <1>2, <1>3 DEF Unsaved
  <1>6. Cardinality(Unsaved') \in Nat /\ Cardinality(Unsaved') <= Cardinality(Unsaved) + 1
    <2>1. /\ IsFiniteSet(Unsaved \cup {x})
          /\ Cardinality(Unsaved \cup {x}) = IF x \in Unsaved THEN Cardinality(Unsaved) ELSE Cardinality(Unsaved) + 1
      BY <1>4, FS_AddElement
    <2> QED
      BY <1>4, <1>5, <2>1
  <1>7. Room(n)'
    <2>1. n + 1 + Cardinality(submits) <= MaxSpeechJobs
      BY <1>0, <1>3, RowsCounted
    <2> QED
      BY <1>4, <1>6, <2>1 DEF Room, SpeechConstants
  <1>8. SubmitsTyped'
    BY <1>0, <1>2, <1>3, FS_AddElement DEF SubmitsTyped
  <1>9. SubmitsApart(n)'
    BY <1>0, <1>2, <1>3 DEF SubmitsApart
  <1>10. JobsTyped(n)' /\ JobsInStep'
    BY <1>0, <1>3 DEF JobsTyped, JobsInStep, SpeechIds
  <1> QED
    BY <1>7, <1>8, <1>9, <1>10 DEF SpeechInv

LEMMA SaveRowStep ==
  ASSUME NEW n \in Nat, SpeechInv(n), SpeechConstants, NEW s \in submits, SaveRow(s)
  PROVE  SpeechInv(n + 1)'
  <1>0. JobsTyped(n) /\ JobsInStep /\ SubmitsTyped /\ SubmitsApart(n) /\ Room(n)
    BY DEF SpeechInv
  <1>1. NextRow = n + 1 /\ n + 1 \in Nat
    BY <1>0, RowsCounted
  <1>2. PICK x : x = [s EXCEPT !.row = n + 1]
    OBVIOUS
  <1>3. s \in [row : Nat, type : JobTypes, content : Contents]
    BY <1>0 DEF SubmitsTyped
  <1>4. x \in [row : Nat, type : JobTypes, content : Contents] /\ x.row = n + 1 /\ x.row # 0
    BY <1>1, <1>2, <1>3
  <1>5. PICK v : v = VoiceJob(s.type, s.content)
    OBVIOUS
  <1>6. v \in VoiceRows
    BY <1>3, <1>5 DEF VoiceJob, VoiceRows, JobStatuses
  <1>7. /\ s.row = 0 /\ submits' = (submits \ {s}) \cup {x} /\ UNCHANGED <<bullJobs, step, orphaned>>
        /\ rows' = Extend(rows, n + 1, v)
    BY <1>1, <1>2, <1>5 DEF SaveRow
  <1>8. /\ IsFiniteSet(Unsaved) /\ Cardinality(Unsaved) \in Nat
    BY <1>0, RoomForRows DEF SpeechConstants
  <1>9. Unsaved' = Unsaved \ {s} /\ s \in Unsaved
    BY <1>4, <1>7 DEF Unsaved
  <1>10. Cardinality(Unsaved') = Cardinality(Unsaved) - 1
    BY <1>8, <1>9, FS_RemoveElement
  <1>11. Room(n + 1)'
    BY <1>0, <1>8, <1>10 DEF Room, SpeechConstants
  <1>12. SubmitsTyped'
    <2>1. IsFiniteSet(submits \ {s})
      BY <1>0, FS_RemoveElement DEF SubmitsTyped
    <2>2. IsFiniteSet(submits')
      BY <1>7, <2>1, FS_AddElement
    <2> QED
      BY <1>0, <1>4, <1>7, <2>2 DEF SubmitsTyped
  <1>13. SubmitsApart(n + 1)'
    <2>1. \A t \in submits : t.row # n + 1
      BY <1>0 DEF SubmitsApart
    <2>2. n + 1 \notin DOMAIN bullJobs
      BY <1>0 DEF JobsTyped
    <2>3. \A t \in submits : t.row # 0 => t.row \in 1 .. (n + 1) /\ t.row \notin DOMAIN bullJobs
      BY <1>0 DEF SubmitsApart
    <2>4. \A t \in submits : t.row # 0 => \A u \in submits : u.row = t.row => u = t
      BY <1>0 DEF SubmitsApart
    <2> QED
      BY <1>4, <1>7, <2>1, <2>2, <2>3, <2>4 DEF SubmitsApart
  <1>14. /\ rows' \in [1 .. (n + 1) -> VoiceRows] /\ \A i \in 1 .. n : rows'[i] = rows[i]
    <2>1. rows \in [1 .. n -> VoiceRows]
      BY <1>0 DEF JobsTyped
    <2>2. (1 .. n) \cup {n + 1} = 1 .. (n + 1)
      OBVIOUS
    <2>3. rows' = [k \in 1 .. (n + 1) |-> IF k = n + 1 THEN v ELSE rows[k]]
      BY <1>7, <2>1, <2>2 DEF Extend
    <2> QED
      BY <1>6, <2>1, <2>3
  <1>15. JobsTyped(n + 1)'
    BY <1>0, <1>7, <1>14 DEF JobsTyped, SpeechIds
  <1>16. \A i \in DOMAIN bullJobs : rows'[i] = rows[i]
    BY <1>0, <1>14 DEF JobsTyped
  <1>17. JobsInStep'
    BY <1>0, <1>7, <1>16 DEF JobsInStep, SpeechIds
  <1> QED
    BY <1>11, <1>12, <1>13, <1>15, <1>17 DEF SpeechInv

LEMMA AddJobStep ==
  ASSUME NEW n \in Nat, SpeechInv(n), SpeechConstants, NEW s \in submits, NEW ok \in BOOLEAN, AddJob(s, ok)
  PROVE  SpeechInv(n)'
  <1>0. JobsTyped(n) /\ JobsInStep /\ SubmitsTyped /\ SubmitsApart(n) /\ Room(n)
    BY DEF SpeechInv
  <1>1. /\ s.row # 0 /\ submits' = submits \ {s} /\ UNCHANGED <<rows, step>>
        /\ orphaned \subseteq orphaned'
    BY DEF AddJob
  <1>2. s.row \in 1 .. n /\ s.row \notin DOMAIN bullJobs /\ \A t \in submits : t.row = s.row => t = s
    BY <1>0, <1>1 DEF SubmitsApart
  <1>3. n <= MaxSpeechJobs
    BY <1>0, RoomForRows DEF SpeechConstants
  <1>4. s.row \in SpeechIds
    BY <1>2, <1>3 DEF SpeechIds, SpeechConstants
  <1>5. SubmitsTyped'
    BY <1>0, <1>1, FS_RemoveElement DEF SubmitsTyped
  <1>6. Room(n)'
    <2>1. Unsaved' = Unsaved
      BY <1>1 DEF Unsaved
    <2> QED
      BY <1>0, <2>1 DEF Room
  <1>7. CASE ~ok
    <2>1. bullJobs' = bullJobs
      BY <1>7 DEF AddJob
    <2>2. JobsTyped(n)' /\ JobsInStep'
      BY <1>0, <1>1, <2>1 DEF JobsTyped, JobsInStep, SpeechIds
    <2>3. SubmitsApart(n)'
      BY <1>0, <1>1, <2>1 DEF SubmitsApart
    <2> QED
      BY <1>5, <1>6, <2>2, <2>3 DEF SpeechInv
  <1>8. CASE ok
    <2>1. PICK k : k = s.row
      OBVIOUS
    <2>2. PICK y : y = [state |-> "waiting", attempts |-> 0, stalled |-> 0]
      OBVIOUS
    <2>3. y \in BullRows /\ y.state = "waiting" /\ y.attempts = 0
      BY <2>2 DEF BullRows
    <2>4. bullJobs' = [j \in DOMAIN bullJobs \cup {k} |-> IF j = k THEN y ELSE bullJobs[j]]
      BY <1>8, <2>1, <2>2 DEF AddJob, Extend
    <2>5. /\ DOMAIN bullJobs' = DOMAIN bullJobs \cup {k} /\ bullJobs'[k] = y
          /\ \A j \in DOMAIN bullJobs : bullJobs'[j] = bullJobs[j]
          /\ bullJobs' \in [DOMAIN bullJobs' -> BullRows]
      BY <1>0, <1>2, <2>1, <2>3, <2>4 DEF JobsTyped
    <2>6. JobsTyped(n)'
      BY <1>0, <1>1, <1>2, <2>1, <2>5 DEF JobsTyped, SpeechIds
    <2>7. step[k] = "idle"
      BY <1>0, <1>2, <1>4, <2>1 DEF JobsInStep
    <2>8. rows[k].retryCount \in Nat
      BY <1>0, <1>2, <2>1 DEF JobsTyped, VoiceRows
    <2>9. Busy(y, step[k]) /\ Agree(rows[k], y, step[k])
      BY <2>3, <2>7, <2>8 DEF Busy, Agree
    <2>10. JobsInStep'
      <3>1. \A j \in DOMAIN bullJobs :
              Busy(bullJobs[j], step[j]) /\ (j \in orphaned \/ Agree(rows[j], bullJobs[j], step[j]))
        BY <1>0 DEF JobsInStep
      <3>2. \A j \in DOMAIN bullJobs' :
              Busy(bullJobs'[j], step[j]) /\ (j \in orphaned' \/ Agree(rows[j], bullJobs'[j], step[j]))
        BY <1>1, <2>5, <2>9, <3>1
      <3>3. \A j \in SpeechIds \ DOMAIN bullJobs' : step[j] = "idle"
        BY <1>0, <2>5 DEF JobsInStep
      <3> QED
        BY <1>1, <3>2, <3>3 DEF JobsInStep, SpeechIds
    <2>11. SubmitsApart(n)'
      <3>1. \A t \in submits' : t \in submits /\ t.row # k
        BY <1>1, <1>2, <2>1
      <3> QED
        BY <1>0, <1>1, <2>5, <3>1 DEF SubmitsApart
    <2> QED
      BY <1>5, <1>6, <2>6, <2>10, <2>11 DEF SpeechInv
  <1> QED
    BY <1>7, <1>8
LEMMA WorkerStep ==
  ASSUME NEW n \in Nat, SpeechInv(n), SpeechConstants, NEW i \in DOMAIN bullJobs,
         \/ Take(i) \/ WorkerDies(i) \/ StartProcessing(i) \/ ProduceResult(i) \/ SaveResult(i)
         \/ StepFails(i) \/ incrementRetry(i) \/ Settle(i) \/ SettleFails(i)
  PROVE  SpeechInv(n)'
  <1>0. JobsTyped(n) /\ JobsInStep /\ SubmitsTyped /\ Room(n)
    BY DEF SpeechInv
  <1>1. n <= MaxSpeechJobs
    BY <1>0, RoomForRows DEF SpeechConstants
  <1>2. i \in 1 .. n /\ i \in SpeechIds
    BY <1>0, <1>1 DEF JobsTyped, SpeechIds, SpeechConstants
  <1>3. PICK r, b, p : r = rows[i] /\ b = bullJobs[i] /\ p = step[i]
    OBVIOUS
  <1>4. r \in VoiceRows /\ b \in BullRows /\ p \in WorkerSteps
    BY <1>0, <1>2, <1>3 DEF JobsTyped
  <1>5. /\ r.retryCount \in Nat /\ b.attempts \in Nat /\ b.stalled \in Nat
        /\ b.state \in {"waiting", "active", "completed", "failed"}
    BY <1>4 DEF VoiceRows, BullRows
  <1>6. Busy(b, p) /\ (i \in orphaned \/ Agree(r, b, p))
    BY <1>0, <1>3 DEF JobsInStep
  <1>7. /\ rows = [rows EXCEPT ![i] = r] /\ bullJobs = [bullJobs EXCEPT ![i] = b] /\ step = [step EXCEPT ![i] = p]
    BY <1>0, <1>2, <1>3 DEF JobsTyped
  \* The row with another status, the job with another state.
  <1>8. ASSUME NEW st \in JobStatuses, updateJobStatus(i, st)
        PROVE  \E row \in VoiceRows :
                 row.status = st /\ row.retryCount = r.retryCount /\ rows' = [rows EXCEPT ![i] = row]
    <2>1. PICK row : row = [r EXCEPT !.status = st]
      OBVIOUS
    <2>2. row \in VoiceRows /\ row.status = st /\ row.retryCount = r.retryCount
      BY <1>4, <2>1 DEF VoiceRows
    <2>3. rows' = [rows EXCEPT ![i] = row]
      BY <1>0, <1>3, <1>8, <2>1 DEF updateJobStatus
    <2> QED
      BY <2>2, <2>3
  <1>9. ASSUME JobReturns(i)
        PROVE  \E job \in BullRows :
                 job.state = "completed" /\ job.attempts = b.attempts /\ bullJobs' = [bullJobs EXCEPT ![i] = job]
    <2>1. PICK job : job = [b EXCEPT !.state = "completed"]
      OBVIOUS
    <2>2. job \in BullRows /\ job.state = "completed" /\ job.attempts = b.attempts
      BY <1>4, <2>1 DEF BullRows
    <2>3. bullJobs' = [bullJobs EXCEPT ![i] = job]
      BY <1>3, <1>9, <2>1 DEF JobReturns
    <2> QED
      BY <2>2, <2>3
  <1>10. ASSUME JobThrows(i)
         PROVE  \E job \in BullRows :
                  /\ job.state # "active" /\ job.attempts = b.attempts + 1 /\ bullJobs' = [bullJobs EXCEPT ![i] = job]
                  /\ b.attempts + 1 < BullAttempts => job.state = "waiting"
    <2>1. PICK a, st : a = b.attempts + 1 /\ st = IF b.attempts + 1 < BullAttempts THEN "waiting" ELSE "failed"
      OBVIOUS
    <2>2. a \in Nat /\ st \in {"waiting", "failed"}
      BY <1>5, <2>1
    <2>3. PICK job : job = [b EXCEPT !.attempts = a, !.state = st]
      OBVIOUS
    <2>4. job \in BullRows /\ job.state = st /\ job.attempts = a
      BY <1>4, <2>2, <2>3 DEF BullRows
    <2>5. bullJobs' = [bullJobs EXCEPT ![i] = job]
      BY <1>3, <1>10, <2>1, <2>3 DEF JobThrows
    <2> QED
      BY <2>1, <2>2, <2>4, <2>5
  <1>11. ASSUME NEW pc, NEW next, At(i, pc, next)
         PROVE  p = pc /\ step' = [step EXCEPT ![i] = next] /\ submits' = submits
    BY <1>3, <1>11 DEF At
  <1>12. p \notin {"idle"} => b.state = "active"
    BY <1>6 DEF Busy
  <1>13. CASE Take(i)
    <2>1. PICK job : job = [b EXCEPT !.state = "active"]
      OBVIOUS
    <2>2. job \in BullRows /\ job.state = "active" /\ job.attempts = b.attempts
      BY <1>4, <2>1 DEF BullRows
    <2>3. bullJobs' = [bullJobs EXCEPT ![i] = job]
      BY <1>3, <1>13, <2>1 DEF Take
    <2>4. JobMoves(i, r, job, "find") /\ orphaned' = orphaned
      BY <1>7, <1>13, <2>3 DEF Take, JobMoves
    <2>5. Busy(job, "find") /\ (i \in orphaned' \/ Agree(r, job, "find"))
      BY <1>6, <2>2, <2>4 DEF Busy, Agree
    <2> QED
      BY <1>4, <2>2, <2>4, <2>5, JobMoved DEF WorkerSteps
  <1>14. CASE WorkerDies(i)
    <2>1. PICK a, st : a = b.stalled + 1 /\ st = IF b.stalled < MaxStalled THEN "waiting" ELSE "failed"
      OBVIOUS
    <2>2. a \in Nat /\ st \in {"waiting", "failed"}
      BY <1>5, <2>1
    <2>3. PICK job : job = [b EXCEPT !.stalled = a, !.state = st]
      OBVIOUS
    <2>4. job \in BullRows /\ job.state = st /\ job.attempts = b.attempts
      BY <1>4, <2>2, <2>3 DEF BullRows
    <2>5. b.state = "active"
      BY <1>3, <1>14 DEF WorkerDies
    <2>6. bullJobs' = [bullJobs EXCEPT ![i] = job]
      BY <1>3, <1>14, <2>1, <2>3, <2>5 DEF WorkerDies
    <2>7. JobMoves(i, r, job, "idle") /\ (st = "waiting" \/ i \in orphaned')
      BY <1>3, <1>7, <1>14, <2>1, <2>6 DEF WorkerDies, JobMoves
    <2>8. orphaned \subseteq orphaned'
      BY <2>7 DEF JobMoves
    <2>9. Busy(job, "idle") /\ (i \in orphaned' \/ Agree(r, job, "idle"))
      BY <1>6, <2>2, <2>4, <2>7, <2>8 DEF Busy, Agree
    <2> QED
      BY <1>4, <2>4, <2>7, <2>9, JobMoved DEF WorkerSteps
  <1>15. CASE StartProcessing(i)
    <2>1. At(i, "find", "work") /\ updateJobStatus(i, "processing") /\ bullJobs' = bullJobs /\ orphaned' = orphaned
      BY <1>15 DEF StartProcessing
    <2>2. PICK row \in VoiceRows : row.retryCount = r.retryCount /\ rows' = [rows EXCEPT ![i] = row]
      BY <1>8, <2>1 DEF JobStatuses
    <2>3. p = "find" /\ JobMoves(i, row, b, "work")
      BY <1>7, <1>11, <2>1, <2>2 DEF JobMoves
    <2>4. Busy(b, "work") /\ (i \in orphaned' \/ Agree(row, b, "work"))
      BY <1>6, <1>12, <2>1, <2>2, <2>3 DEF Busy, Agree
    <2> QED
      BY <1>4, <2>3, <2>4, JobMoved DEF WorkerSteps
  <1>16. CASE ProduceResult(i)
    <2>1. At(i, "work", "save") /\ UNCHANGED <<rows, bullJobs, orphaned>>
      BY <1>16 DEF ProduceResult
    <2>2. p = "work" /\ JobMoves(i, r, b, "save")
      BY <1>7, <1>11, <2>1 DEF JobMoves
    <2>3. Busy(b, "save") /\ (i \in orphaned' \/ Agree(r, b, "save"))
      BY <1>6, <1>12, <2>1, <2>2 DEF Busy, Agree
    <2> QED
      BY <1>4, <2>2, <2>3, JobMoved DEF WorkerSteps
  <1>17. CASE SaveResult(i)
    <2>1. At(i, "save", "idle") /\ updateJobStatus(i, "completed") /\ JobReturns(i) /\ orphaned' = orphaned
      BY <1>17 DEF SaveResult
    <2>2. PICK row \in VoiceRows :
            row.status = "completed" /\ row.retryCount = r.retryCount /\ rows' = [rows EXCEPT ![i] = row]
      BY <1>8, <2>1 DEF JobStatuses
    <2>3. PICK job \in BullRows :
            job.state = "completed" /\ job.attempts = b.attempts /\ bullJobs' = [bullJobs EXCEPT ![i] = job]
      BY <1>9, <2>1
    <2>4. JobMoves(i, row, job, "idle")
      BY <1>11, <2>1, <2>2, <2>3 DEF JobMoves
    <2>5. Busy(job, "idle") /\ (i \in orphaned' \/ Agree(row, job, "idle"))
      BY <1>6, <2>1, <2>2, <2>3 DEF Busy, Agree
    <2> QED
      BY <2>4, <2>5, JobMoved DEF WorkerSteps
  <1>18. CASE StepFails(i)
    <2>1. PICK pc \in {"find", "work", "save"} : At(i, pc, "retry") /\ UNCHANGED <<rows, bullJobs, orphaned>>
      BY <1>18 DEF StepFails
    <2>2. p = pc /\ JobMoves(i, r, b, "retry")
      BY <1>7, <1>11, <2>1 DEF JobMoves
    <2>3. Busy(b, "retry") /\ (i \in orphaned' \/ Agree(r, b, "retry"))
      BY <1>6, <1>12, <2>1, <2>2 DEF Busy, Agree
    <2> QED
      BY <1>4, <2>2, <2>3, JobMoved DEF WorkerSteps
  <1>19. CASE incrementRetry(i)
    <2>1. At(i, "retry", "settle") /\ UNCHANGED <<bullJobs, orphaned>>
      BY <1>19 DEF incrementRetry
    <2>2. PICK a : a = r.retryCount + 1
      OBVIOUS
    <2>3. a \in Nat
      BY <1>5, <2>2
    <2>4. PICK row : row = [r EXCEPT !.retryCount = a]
      OBVIOUS
    <2>5. row \in VoiceRows /\ row.retryCount = a /\ row.status = r.status
      BY <1>4, <2>3, <2>4 DEF VoiceRows
    <2>6. rows' = [rows EXCEPT ![i] = row]
      BY <1>0, <1>3, <1>19, <2>2, <2>4 DEF incrementRetry
    <2>7. p = "retry" /\ JobMoves(i, row, b, "settle")
      BY <1>7, <1>11, <2>1, <2>6 DEF JobMoves
    <2>8. Busy(b, "settle") /\ (i \in orphaned' \/ Agree(row, b, "settle"))
      BY <1>5, <1>6, <1>12, <2>1, <2>2, <2>5, <2>7 DEF Busy, Agree
    <2> QED
      BY <1>4, <2>5, <2>7, <2>8, JobMoved DEF WorkerSteps
  <1>20. CASE Settle(i)
    <2>1. At(i, "settle", "idle") /\ orphaned' = orphaned
      BY <1>20 DEF Settle
    <2>2. CASE canRetry(i)
      <3>1. updateJobStatus(i, "pending") /\ JobThrows(i) /\ r.retryCount < MaxRetries
        BY <1>3, <1>20, <2>2 DEF Settle, canRetry
      <3>2. PICK row \in VoiceRows : row.retryCount = r.retryCount /\ rows' = [rows EXCEPT ![i] = row]
        BY <1>8, <3>1 DEF JobStatuses
      <3>3. PICK job \in BullRows :
              /\ job.state # "active" /\ job.attempts = b.attempts + 1 /\ bullJobs' = [bullJobs EXCEPT ![i] = job]
              /\ b.attempts + 1 < BullAttempts => job.state = "waiting"
        BY <1>10, <3>1
      <3>4. p = "settle" /\ JobMoves(i, row, job, "idle")
        BY <1>11, <2>1, <3>2, <3>3 DEF JobMoves
      <3>5. ASSUME i \notin orphaned PROVE Agree(row, job, "idle")
        <4>1. b.attempts + 1 <= r.retryCount
          BY <1>6, <3>4, <3>5 DEF Agree
        <4>2. b.attempts + 1 < BullAttempts
          BY <1>5, <3>1, <4>1 DEF SpeechConstants
        <4> QED
          BY <3>2, <3>3, <4>1, <4>2 DEF Agree
      <3>6. Busy(job, "idle")
        BY <3>3 DEF Busy
      <3> QED
        BY <2>1, <3>4, <3>5, <3>6, JobMoved DEF WorkerSteps
    <2>3. CASE ~canRetry(i)
      <3>1. updateJobStatus(i, "failed") /\ JobReturns(i)
        BY <1>20, <2>3 DEF Settle
      <3>2. PICK row \in VoiceRows :
              row.status = "failed" /\ row.retryCount = r.retryCount /\ rows' = [rows EXCEPT ![i] = row]
        BY <1>8, <3>1 DEF JobStatuses
      <3>3. PICK job \in BullRows :
              job.state = "completed" /\ job.attempts = b.attempts /\ bullJobs' = [bullJobs EXCEPT ![i] = job]
        BY <1>9, <3>1
      <3>4. JobMoves(i, row, job, "idle")
        BY <1>11, <2>1, <3>2, <3>3 DEF JobMoves
      <3>5. Busy(job, "idle") /\ (i \in orphaned' \/ Agree(row, job, "idle"))
        BY <1>6, <2>1, <3>2, <3>3 DEF Busy, Agree
      <3> QED
        BY <3>4, <3>5, JobMoved DEF WorkerSteps
    <2> QED
      BY <2>2, <2>3
  <1>21. CASE SettleFails(i)
    <2>1. /\ At(i, "retry", "idle") \/ At(i, "settle", "idle")
          /\ JobThrows(i) /\ orphaned' = orphaned \cup {i} /\ rows' = rows
      BY <1>21 DEF SettleFails
    <2>2. step' = [step EXCEPT ![i] = "idle"] /\ submits' = submits
      BY <1>11, <2>1
    <2>3. PICK job \in BullRows : job.state # "active" /\ bullJobs' = [bullJobs EXCEPT ![i] = job]
      BY <1>10, <2>1
    <2>4. JobMoves(i, r, job, "idle") /\ i \in orphaned'
      BY <1>7, <2>1, <2>2, <2>3 DEF JobMoves
    <2>5. Busy(job, "idle")
      BY <2>3 DEF Busy
    <2> QED
      BY <1>4, <2>4, <2>5, JobMoved DEF WorkerSteps
  <1> QED
    BY <1>13, <1>14, <1>15, <1>16, <1>17, <1>18, <1>19, <1>20, <1>21

\* Bull is never done with a job whose row is still pending or in work, as long
\* as the row allows no more retries than Bull makes attempts: whatever steps
\* fail and whenever a worker dies, the two counts stay in step.
THEOREM JobsNotStranded ==
  ASSUME SpeechConstants
  PROVE  VoiceJobsSpec => []NotStranded
  <1> DEFINE Inv == \E n \in Nat : SpeechInv(n)
  <1>1. VoiceJobsInit => Inv
    <2> SUFFICES ASSUME VoiceJobsInit PROVE SpeechInv(0)
      OBVIOUS
    <2>1. rows = <<>> /\ bullJobs = <<>> /\ submits = {} /\ step = [i \in SpeechIds |-> "idle"]
      BY DEF VoiceJobsInit
    <2>2. 1 .. 0 = {} /\ DOMAIN <<>> = {} /\ DOMAIN rows = {} /\ DOMAIN bullJobs = {}
      BY <2>1
    <2>3. rows \in [1 .. 0 -> VoiceRows] /\ bullJobs \in [DOMAIN bullJobs -> BullRows]
      BY <2>1, <2>2
    <2>4. JobsTyped(0)
      BY <2>1, <2>2, <2>3 DEF JobsTyped, WorkerSteps
    <2>5. JobsInStep /\ SubmitsApart(0)
      BY <2>1, <2>2 DEF JobsInStep, SubmitsApart
    <2>6. IsFiniteSet({}) /\ Cardinality({}) = 0
      BY FS_EmptySet
    <2>7. Unsaved = {} /\ SubmitsTyped
      BY <2>1, <2>6 DEF Unsaved, SubmitsTyped
    <2>8. Room(0)
      BY <2>6, <2>7 DEF Room, SpeechConstants
    <2> QED
      BY <2>4, <2>5, <2>7, <2>8 DEF SpeechInv
  <1>2. Inv /\ [VoiceJobsNext]_speechVars => Inv'
    <2> SUFFICES ASSUME NEW n \in Nat, SpeechInv(n), [VoiceJobsNext]_speechVars PROVE Inv'
      OBVIOUS
    <2>1. CASE UNCHANGED speechVars
      <3>1. SpeechInv(n)'
        BY <2>1 DEF speechVars, SpeechInv, JobsTyped, JobsInStep, SubmitsTyped, SubmitsApart, Room, Unsaved, SpeechIds
      <3> QED
        BY <3>1
    <2>2. ASSUME NEW c \in Contents, uploadAudio(c) \/ generateTTS(c) PROVE Inv'
      <3>1. PICK type \in JobTypes : Submit(type, c)
        BY <2>2 DEF uploadAudio, generateTTS, processSTT, processTTS, JobTypes
      <3>2. SpeechInv(n)'
        BY <3>1, SubmitStep
      <3> QED
        BY <3>2
    <2>3. ASSUME NEW s \in submits, SaveRow(s) PROVE Inv'
      <3>1. SpeechInv(n + 1)' /\ n + 1 \in Nat
        BY <2>3, SaveRowStep
      <3> QED
        BY <3>1
    <2>4. ASSUME NEW s \in submits, NEW ok \in BOOLEAN, AddJob(s, ok) PROVE Inv'
      <3>1. SpeechInv(n)'
        BY <2>4, AddJobStep
      <3> QED
        BY <3>1
    <2>5. ASSUME NEW i \in DOMAIN bullJobs,
                 \/ Take(i) \/ WorkerDies(i) \/ StartProcessing(i) \/ ProduceResult(i) \/ SaveResult(i)
                 \/ StepFails(i) \/ incrementRetry(i) \/ Settle(i) \/ SettleFails(i)
          PROVE  Inv'
      <3>1. SpeechInv(n)'
        BY <2>5, WorkerStep
      <3> QED
        BY <3>1
    <2> QED
      BY <2>1, <2>2, <2>3, <2>4, <2>5 DEF VoiceJobsNext
  <1>3. Inv => NotStranded
    BY DEF SpeechInv, JobsInStep, Agree, NotStranded
  <1> QED
    BY <1>1, <1>2, <1>3, PTL DEF VoiceJobsSpec
-----------------------------------------------------------------------------
(* Voice sessions.  A stream has the number of the request that started it,  *)
(* and only that request's handler, which no other handler shares a number   *)
(* with, ever registers it: a stream that was interrupted cannot come back.  *)

OpNames ==
  Writes \cup {"resume", "interrupt", "find", "del", "sRem", "clear", "delActive", "setActive", "create", "sAdd",
              "stream", "generate", "llm", "chunk", "complete", "forget", "interruptStreams", "owner"}
Ops == [op : OpNames, to : {""} \cup ConversationStates \cup VoiceUsers]
Streamless(todo) == \A i \in DOMAIN todo : todo[i].op # "stream"

TaskShape(t) ==
  t = [id |-> t.id, user |-> t.user, session |-> t.session, stream |-> t.stream, todo |-> t.todo, copy |-> t.copy]
\* A copy waits to be saved only while that is the next thing to do.
CopyOk(t) == t.copy # <<>> => t.todo # <<>> /\ Head(t.todo).op \in Writes
TaskOk(t) == TaskShape(t) /\ t.id \in 1 .. calls /\ t.todo \in Seq(Ops) /\ CopyOk(t)
Known == DOMAIN streams \cup interrupted

TasksOk == \A t \in tasks : TaskOk(t) /\ (t.id \in Known => Streamless(t.todo))
TasksApart == \A t, s \in tasks : t.id = s.id => t = s
StreamsOk ==
  /\ calls \in Nat /\ calls <= MaxCalls /\ chunks \in [StreamIds -> Int]
  /\ Known \subseteq 1 .. calls
  /\ \A i \in interrupted : i \notin DOMAIN streams
StreamInv == TasksOk /\ TasksApart /\ StreamsOk

\* A step of a handler: it ends, or goes on with no new "stream" to do.
GoesOn(t, x) ==
  TaskShape(x) /\ CopyOk(x) /\ x.id = t.id /\ x.todo \in Seq(Ops) /\ (Streamless(t.todo) => Streamless(x.todo))
Advances(t) == tasks' = tasks \ {t} \/ \E x : GoesOn(t, x) /\ tasks' = (tasks \ {t}) \cup {x}

LEMMA AdvanceKeeps ==
  ASSUME TasksOk, TasksApart, NEW t \in tasks, Advances(t), calls' = calls, Known' \subseteq Known
  PROVE  (TasksOk /\ TasksApart)'
  <1>1. CASE tasks' = tasks \ {t}
    BY <1>1 DEF TasksOk, TasksApart, TaskOk
  <1>2. ASSUME NEW x, GoesOn(t, x), tasks' = (tasks \ {t}) \cup {x}
        PROVE  (TasksOk /\ TasksApart)'
    <2>1. TaskOk(t) /\ (t.id \in Known => Streamless(t.todo))
      BY DEF TasksOk
    <2>2. TaskOk(x)' /\ (x.id \in Known' => Streamless(x.todo))
      BY <1>2, <2>1 DEF GoesOn, TaskOk
    <2>3. TasksOk'
      BY <1>2, <2>2 DEF TasksOk, TaskOk
    <2>4. TasksApart'
      BY <1>2 DEF TasksApart, GoesOn
    <2> QED
      BY <2>3, <2>4
  <1> QED
    BY <1>1, <1>2 DEF Advances

\* Lists of things to do.
LEMMA TailOps ==
  ASSUME NEW s \in Seq(Ops), s # <<>>
  PROVE  Tail(s) \in Seq(Ops) /\ (Streamless(s) => Streamless(Tail(s)))
  BY DEF Streamless

LEMMA ConcatOps ==
  ASSUME NEW p \in Seq(Ops), NEW s \in Seq(Ops)
  PROVE  p \o s \in Seq(Ops) /\ (Streamless(p) /\ Streamless(s) => Streamless(p \o s))
  BY DEF Streamless

LEMMA OneOp ==
  ASSUME NEW o \in Ops, o.op # "stream"
  PROVE  <<o>> \in Seq(Ops) /\ Streamless(<<o>>)
  BY DEF Streamless

LEMMA NoOps == <<>> \in Seq(Ops) /\ Streamless(<<>>)
  BY DEF Streamless

LEMMA DoOps ==
  ASSUME NEW o \in OpNames
  PROVE  Do(o) \in Ops /\ Do(o).op = o
  BY DEF Do, Ops

LEMMA StateOps ==
  ASSUME NEW to \in ConversationStates
  PROVE  updateSessionState(to) \in Ops /\ updateSessionState(to).op = "state"
  <1>1. "state" \in OpNames
    BY DEF OpNames, Writes
  <1> QED
    BY <1>1 DEF updateSessionState, Ops

LEMMA ContinueAdvances ==
  ASSUME NEW t \in tasks, TaskOk(t), NEW todo \in Seq(Ops), Continue(t, todo),
         Streamless(t.todo) => Streamless(todo)
  PROVE  Advances(t)
  <1>1. CASE todo = <<>>
    BY <1>1 DEF Continue, Rest, Advances
  <1>2. CASE todo # <<>>
    <2>1. PICK x : x = [t EXCEPT !.todo = todo, !.copy = <<>>]
      OBVIOUS
    <2>2. TaskShape(x) /\ x.id = t.id /\ x.todo = todo /\ x.copy = <<>>
      BY <2>1 DEF TaskOk, TaskShape
    <2>3. tasks' = (tasks \ {t}) \cup {x}
      BY <1>2, <2>1 DEF Continue, Rest
    <2>4. GoesOn(t, x)
      BY <2>2 DEF GoesOn, CopyOk
    <2> QED
      BY <2>3, <2>4 DEF Advances
  <1> QED
    BY <1>1, <1>2

LEMMA TailAdvances ==
  ASSUME NEW t \in tasks, TaskOk(t), t.todo # <<>>, Continue(t, Tail(t.todo))
  PROVE  Advances(t)
  <1>1. t.todo \in Seq(Ops)
    BY DEF TaskOk
  <1>2. Tail(t.todo) \in Seq(Ops) /\ (Streamless(t.todo) => Streamless(Tail(t.todo)))
    BY <1>1, TailOps
  <1> QED
    BY <1>2, ContinueAdvances

LEMMA EndAdvances ==
  ASSUME NEW t \in tasks, TaskOk(t), Continue(t, <<>>)
  PROVE  Advances(t)
  BY NoOps, ContinueAdvances

LEMMA ConsAdvances ==
  ASSUME NEW t \in tasks, TaskOk(t), t.todo # <<>>, NEW o \in Ops, o.op # "stream",
         Continue(t, <<o>> \o Tail(t.todo))
  PROVE  Advances(t)
  <1>1. t.todo \in Seq(Ops)
    BY DEF TaskOk
  <1>2. Tail(t.todo) \in Seq(Ops) /\ (Streamless(t.todo) => Streamless(Tail(t.todo)))
    BY <1>1, TailOps
  <1>3. <<o>> \in Seq(Ops) /\ Streamless(<<o>>)
    BY OneOp
  <1>4. PICK q : q = <<o>> \o Tail(t.todo)
    OBVIOUS
  <1>5. q \in Seq(Ops) /\ (Streamless(t.todo) => Streamless(q))
    BY <1>2, <1>3, <1>4, ConcatOps
  <1> QED
    BY <1>4, <1>5, ContinueAdvances

LEMMA QuietSteps ==
  ASSUME NEW t \in tasks, TaskOk(t),
         \/ ReadSession(t) \/ saveSession(t) \/ resumeSession(t) \/ interruptSession(t)
         \/ FindSession(t) \/ DelSession(t) \/ removeUserSession(t) \/ clearUserActiveSessionIfMatches(t)
         \/ deleteUserActiveSession(t) \/ setUserActiveSession(t) \/ createSession(t) \/ addUserSession(t)
         \/ CheckStream(t) \/ CheckOwner(t) \/ \E ok \in BOOLEAN : CallLlm(t, ok)
  PROVE  Advances(t) /\ UNCHANGED <<streams, chunks, interrupted, calls>>
  <1>0. t.todo \in Seq(Ops)
    BY DEF TaskOk
  <1>1. CASE ReadSession(t)
    <2>1. t.todo # <<>> /\ Head(t.todo).op \in Writes /\ UNCHANGED <<streams, chunks, interrupted, calls>>
      BY <1>1 DEF ReadSession, streamVars
    <2>2. ASSUME NEW c, tasks' = (tasks \ {t}) \cup {[t EXCEPT !.copy = c]}
          PROVE  Advances(t)
      <3>1. PICK x : x = [t EXCEPT !.copy = c]
        OBVIOUS
      <3>2. TaskShape(x) /\ x.id = t.id /\ x.todo = t.todo
        BY <3>1 DEF TaskOk, TaskShape
      <3>3. GoesOn(t, x)
        BY <1>0, <2>1, <3>2 DEF GoesOn, CopyOk
      <3> QED
        BY <2>2, <3>1, <3>3 DEF Advances
    <2>3. Continue(t, Tail(t.todo)) \/ \E c : tasks' = (tasks \ {t}) \cup {[t EXCEPT !.copy = c]}
      BY <1>1 DEF ReadSession
    <2> QED
      BY <2>1, <2>2, <2>3, TailAdvances
  <1>2. CASE saveSession(t)
    <2>1. t.todo # <<>> /\ Continue(t, Tail(t.todo)) /\ UNCHANGED <<streams, chunks, interrupted, calls>>
      BY <1>2 DEF saveSession, streamVars, TaskOk, CopyOk
    <2> QED
      BY <2>1, TailAdvances
  <1>3. CASE resumeSession(t)
    <2>1. t.todo # <<>> /\ UNCHANGED <<streams, chunks, interrupted, calls>>
      BY <1>3 DEF resumeSession, streamVars, IsNext
    <2>2. \/ Continue(t, Tail(t.todo))
          \/ Continue(t, <<updateSessionState("LISTENING")>> \o Tail(t.todo))
          \/ Continue(t, <<updateSessionState("IDLE")>> \o Tail(t.todo))
      BY <1>3 DEF resumeSession
    <2>3. "LISTENING" \in ConversationStates /\ "IDLE" \in ConversationStates
      BY DEF ConversationStates
    <2> QED
      BY <2>1, <2>2, <2>3, StateOps, TailAdvances, ConsAdvances
  <1>4. CASE interruptSession(t)
    <2>1. t.todo # <<>> /\ UNCHANGED <<streams, chunks, interrupted, calls>>
      BY <1>4 DEF interruptSession, streamVars, IsNext
    <2>2. \/ Continue(t, Tail(t.todo))
          \/ Continue(t, <<updateSessionState("INTERRUPTED")>> \o Tail(t.todo))
      BY <1>4 DEF interruptSession
    <2>3. "INTERRUPTED" \in ConversationStates
      BY DEF ConversationStates
    <2> QED
      BY <2>1, <2>2, <2>3, StateOps, TailAdvances, ConsAdvances
  <1>5. CASE FindSession(t)
    <2>1. t.todo # <<>> /\ Head(t.todo).op = "find" /\ UNCHANGED <<streams, chunks, interrupted, calls>>
      BY <1>5 DEF FindSession, streamVars, IsNext
    <2>2. CASE t.session \in DOMAIN sessions
      <3>1. PICK x : x = [t EXCEPT !.user = sessions[t.session].user, !.todo = Tail(t.todo)]
        OBVIOUS
      <3>2. TaskShape(x) /\ x.id = t.id /\ x.todo = Tail(t.todo) /\ x.copy = t.copy
        BY <3>1 DEF TaskOk, TaskShape
      <3>3. CopyOk(x)
        BY <2>1, <3>2 DEF TaskOk, CopyOk, Writes
      <3>5. GoesOn(t, x)
        BY <1>0, <2>1, <3>2, <3>3, TailOps DEF GoesOn
      <3>4. tasks' = (tasks \ {t}) \cup {x}
        BY <1>5, <2>2, <3>1 DEF FindSession
      <3> QED
        BY <2>1, <3>4, <3>5 DEF Advances
    <2>3. CASE t.session \notin DOMAIN sessions
      BY <1>5, <2>1, <2>3, EndAdvances DEF FindSession
    <2> QED
      BY <2>2, <2>3
  <1>6. CASE \/ DelSession(t) \/ removeUserSession(t) \/ deleteUserActiveSession(t)
             \/ setUserActiveSession(t) \/ addUserSession(t)
    <2>1. t.todo # <<>> /\ Continue(t, Tail(t.todo)) /\ UNCHANGED <<streams, chunks, interrupted, calls>>
      BY <1>6 DEF DelSession, removeUserSession, deleteUserActiveSession, setUserActiveSession,
                  addUserSession, streamVars, IsNext
    <2> QED
      BY <2>1, TailAdvances
  <1>7. CASE clearUserActiveSessionIfMatches(t)
    <2>1. t.todo # <<>> /\ UNCHANGED <<streams, chunks, interrupted, calls>>
      BY <1>7 DEF clearUserActiveSessionIfMatches, streamVars, IsNext
    <2>2. Continue(t, Tail(t.todo)) \/ Continue(t, <<Do("delActive")>> \o Tail(t.todo))
      BY <1>7 DEF clearUserActiveSessionIfMatches
    <2>3. Do("delActive") \in Ops /\ Do("delActive").op # "stream"
      BY DoOps DEF OpNames
    <2> QED
      BY <2>1, <2>2, <2>3, TailAdvances, ConsAdvances
  <1>8. CASE createSession(t)
    <2>1. t.todo # <<>> /\ UNCHANGED <<streams, chunks, interrupted, calls>>
      BY <1>8 DEF createSession, streamVars, IsNext
    <2>2. PICK owner : owner = Head(t.todo).to
      OBVIOUS
    <2>3. CASE Continue(t, <<>>)
      BY <2>1, <2>3, EndAdvances
    <2>4. ASSUME NEW s, tasks' = (tasks \ {t}) \cup
                   {[t EXCEPT !.session = s, !.copy = <<VoiceSession(owner)>>,
                              !.todo = <<Do("save"), [op |-> "sAdd", to |-> owner]>> \o Tail(t.todo)]}
          PROVE  Advances(t)
      <3>1. Head(t.todo) \in Ops
        BY <1>0, <2>1
      <3>2. PICK q : q = <<Do("save"), [op |-> "sAdd", to |-> owner]>> \o Tail(t.todo)
        OBVIOUS
      <3>3. q \in Seq(Ops) /\ (Streamless(t.todo) => Streamless(q))
        <4>1. Tail(t.todo) \in Seq(Ops) /\ (Streamless(t.todo) => Streamless(Tail(t.todo)))
          BY <1>0, <2>1, TailOps
        <4>2. PICK a, b : a = Do("save") /\ b = [op |-> "sAdd", to |-> owner]
          OBVIOUS
        <4>3. a \in Ops /\ a.op = "save"
          BY <4>2, DoOps DEF OpNames, Writes
        <4>4. b \in Ops /\ b.op = "sAdd"
          <5>1. "sAdd" \in OpNames
            BY DEF OpNames
          <5> QED
            BY <2>2, <3>1, <4>2, <5>1 DEF Ops
        <4>5. <<a, b>> \in Seq(Ops) /\ Streamless(<<a, b>>)
          BY <4>3, <4>4 DEF Streamless
        <4> QED
          BY <3>2, <4>1, <4>2, <4>5, ConcatOps
      <3>4. PICK x : x = [t EXCEPT !.session = s, !.copy = <<VoiceSession(owner)>>, !.todo = q]
        OBVIOUS
      <3>5. TaskShape(x) /\ x.id = t.id /\ x.todo = q
        BY <3>4 DEF TaskOk, TaskShape
      <3>6. q # <<>> /\ Head(q).op \in Writes
        <4>1. Tail(t.todo) \in Seq(Ops)
          BY <1>0, <2>1, TailOps
        <4>2. q # <<>> /\ Head(q) = Do("save")
          BY <3>2, <4>1
        <4> QED
          BY <4>2, DoOps DEF OpNames, Writes
      <3>7. GoesOn(t, x)
        BY <3>3, <3>5, <3>6 DEF GoesOn, CopyOk
      <3> QED
        BY <2>4, <3>2, <3>4, <3>7 DEF Advances
    <2> QED
      BY <1>8, <2>1, <2>2, <2>3, <2>4 DEF createSession
  <1>9. CASE CheckStream(t) \/ CheckOwner(t) \/ \E ok \in BOOLEAN : CallLlm(t, ok)
    <2>1. t.todo # <<>> /\ UNCHANGED <<streams, chunks, interrupted, calls>>
      BY <1>9 DEF CheckStream, CheckOwner, CallLlm, streamVars, IsNext
    <2>2. Continue(t, Tail(t.todo)) \/ Continue(t, <<>>)
      BY <1>9 DEF CheckStream, CheckOwner, CallLlm
    <2> QED
      BY <2>1, <2>2, TailAdvances, EndAdvances
  <1> QED
    BY <1>1, <1>2, <1>3, <1>4, <1>5, <1>6, <1>7, <1>8, <1>9
\* A request arrives: its handler has a number of its own.
LEMMA StartKeeps ==
  ASSUME StreamInv, MaxCalls \in Nat, NEW u, NEW s, NEW i, NEW todo \in Seq(Ops), StartOn(u, s, i, todo)
  PROVE  StreamInv' /\ KeepsSilent
  <1>0. TasksOk /\ TasksApart /\ StreamsOk
    BY DEF StreamInv
  <1>1. /\ calls < MaxCalls /\ calls' = calls + 1 /\ tasks' = tasks \cup {Task(calls + 1, u, s, i, todo)}
        /\ UNCHANGED <<streams, chunks, interrupted>>
    BY DEF StartOn, streamVars
  <1>2. PICK x : x = Task(calls + 1, u, s, i, todo)
    OBVIOUS
  <1>3. TaskShape(x) /\ x.id = calls + 1 /\ x.todo = todo /\ x.copy = <<>>
    BY <1>2 DEF Task, TaskShape
  <1>4. calls \in Nat /\ Known \subseteq 1 .. calls /\ Known' = Known
    BY <1>0, <1>1 DEF StreamsOk, Known
  <1>5. TaskOk(x)' /\ x.id \notin Known'
    BY <1>1, <1>3, <1>4 DEF TaskOk, CopyOk
  <1>6. \A t \in tasks : TaskOk(t)' /\ t.id \in 1 .. calls /\ (t.id \in Known' => Streamless(t.todo))
    BY <1>0, <1>1, <1>4 DEF TasksOk, TaskOk
  <1>7. TasksOk'
    BY <1>1, <1>2, <1>5, <1>6 DEF TasksOk
  <1>8. TasksApart'
    BY <1>0, <1>1, <1>2, <1>3, <1>4, <1>6 DEF TasksApart
  <1>9. StreamsOk'
    BY <1>0, <1>1, <1>4 DEF StreamsOk, StreamIds
  <1>10. KeepsSilent
    BY <1>1 DEF KeepsSilent
  <1> QED
    BY <1>7, <1>8, <1>9, <1>10 DEF StreamInv

\* What the handlers have to do.
LEMMA TodoLists ==
  /\ <<updateSessionSocket, Do("resume"), Do("setActive")>> \in Seq(Ops)
  /\ <<updateSessionState("IDLE"), Do("delActive")>> \in Seq(Ops)
  /\ <<updateSessionSocket, Do("setActive")>> \in Seq(Ops)
  /\ <<Do("owner")>> \o startStreamingResponse \in Seq(Ops)
  /\ <<InterruptStreams>> \o terminateOps \o <<Do("delActive")>> \in Seq(Ops)
  /\ terminateOps \in Seq(Ops)
  /\ <<InterruptStreams>> \in Seq(Ops)
  /\ <<updateSessionSocket, updateLastPingAt>> \in Seq(Ops)
  /\ generateStreamingResponse \o completeStreamingResponse \in Seq(Ops)
  /\ Streamless(generateStreamingResponse \o completeStreamingResponse)
  <1>1. \A o \in {"resume", "setActive", "delActive", "owner", "stream", "find", "del", "sRem", "clear", "generate",
                  "llm", "chunk", "complete", "forget", "interruptStreams", "message", "socket", "ping"} :
          Do(o) \in Ops /\ Do(o).op = o
    BY DoOps DEF OpNames, Writes
  <1>2. \A to \in {"IDLE", "THINKING", "RESPONDING", "LISTENING"} :
          updateSessionState(to) \in Ops /\ updateSessionState(to).op = "state"
    BY StateOps DEF ConversationStates
  <1>3. /\ updateSessionSocket \in Ops /\ updateLastPingAt \in Ops /\ InterruptStreams \in Ops
        /\ addMessage \in Ops /\ addMessage.op = "message"
    BY <1>1 DEF updateSessionSocket, updateLastPingAt, InterruptStreams, addMessage
  <1>4. /\ <<updateSessionSocket, Do("resume"), Do("setActive")>> \in Seq(Ops)
        /\ <<updateSessionState("IDLE"), Do("delActive")>> \in Seq(Ops)
        /\ <<updateSessionSocket, Do("setActive")>> \in Seq(Ops)
        /\ <<InterruptStreams>> \in Seq(Ops) /\ <<Do("delActive")>> \in Seq(Ops) /\ <<Do("owner")>> \in Seq(Ops)
        /\ <<updateSessionSocket, updateLastPingAt>> \in Seq(Ops)
    BY <1>1, <1>2, <1>3
  <1>5. startStreamingResponse \in Seq(Ops) /\ terminateOps \in Seq(Ops)
    BY <1>1, <1>2, <1>3 DEF startStreamingResponse, terminateOps
  <1>6. generateStreamingResponse \in Seq(Ops) /\ Streamless(generateStreamingResponse)
    <2>1. PICK a, b, c, d : a = Do("generate") /\ b = updateSessionState("RESPONDING") /\ c = Do("llm") /\ d = Do("chunk")
      OBVIOUS
    <2>2. a \in Ops /\ b \in Ops /\ c \in Ops /\ d \in Ops
      BY <1>1, <1>2, <2>1
    <2>3. a.op = "generate" /\ b.op = "state" /\ c.op = "llm" /\ d.op = "chunk"
      BY <1>1, <1>2, <2>1
    <2>4. <<a, b, c, d, d>> \in Seq(Ops) /\ Streamless(<<a, b, c, d, d>>)
      BY <2>2, <2>3 DEF Streamless
    <2> QED
      BY <2>1, <2>4 DEF generateStreamingResponse
  <1>7. completeStreamingResponse \in Seq(Ops) /\ Streamless(completeStreamingResponse)
    <2>1. PICK a, b, c, d : a = Do("complete") /\ b = addMessage /\ c = updateSessionState("LISTENING") /\ d = Do("forget")
      OBVIOUS
    <2>2. a \in Ops /\ b \in Ops /\ c \in Ops /\ d \in Ops
      BY <1>1, <1>2, <1>3, <2>1
    <2>3. a.op = "complete" /\ b.op = "message" /\ c.op = "state" /\ d.op = "forget"
      BY <1>1, <1>2, <1>3, <2>1
    <2>4. <<a, b, c, d>> \in Seq(Ops) /\ Streamless(<<a, b, c, d>>)
      BY <2>2, <2>3 DEF Streamless
    <2> QED
      BY <2>1, <2>4 DEF completeStreamingResponse
  <1> QED
    BY <1>4, <1>5, <1>6, <1>7, ConcatOps

LEMMA HandlersKeep ==
  ASSUME StreamInv, MaxCalls \in Nat, NEW u \in VoiceUsers,
         \/ \E s \in VoiceIds : handleConnection(u, s) \/ handleDisconnect(u, s)
         \/ \E owner \in VoiceUsers : createSessionRequest(u, owner)
         \/ handleMessage(u) \/ handleTerminate(u) \/ handlePing(u)
         \/ \E i \in StreamIds \cup {AllStreams} : handleInterrupt(u, i)
         \/ \E to \in ConversationStates :
              handleSessionAction(u, <<>>, to) \/ handleSessionAction(u, <<InterruptStreams>>, to)
  PROVE  StreamInv' /\ KeepsSilent
  <1> DEFINE Begins == \E s, i : \E todo \in Seq(Ops) : StartOn(u, s, i, todo)
  <1>0. ASSUME NEW s, NEW todo \in Seq(Ops), Start(u, s, todo) PROVE Begins
    BY <1>0 DEF Start
  <1>1. ASSUME \E s \in VoiceIds : handleConnection(u, s) \/ handleDisconnect(u, s) PROVE Begins
    BY <1>0, <1>1, TodoLists DEF handleConnection, handleDisconnect
  <1>2. ASSUME NEW owner \in VoiceUsers, createSessionRequest(u, owner) PROVE Begins
    <2>1. PICK o : o = [op |-> "create", to |-> owner]
      OBVIOUS
    <2>2. o \in Ops
      BY <2>1 DEF Ops, OpNames
    <2>3. updateSessionSocket \in Ops /\ Do("setActive") \in Ops
      BY DoOps DEF OpNames, Writes, updateSessionSocket
    <2>4. <<o, updateSessionSocket, Do("setActive")>> \in Seq(Ops)
      BY <2>2, <2>3
    <2>5. \/ \E s : Start(u, s, <<updateSessionSocket, Do("setActive")>>)
          \/ Start(u, NoSession, <<o, updateSessionSocket, Do("setActive")>>)
      BY <1>2, <2>1 DEF createSessionRequest
    <2> QED
      BY <1>0, <2>4, <2>5, TodoLists
  <1>3. ASSUME handleMessage(u) \/ handleTerminate(u) \/ handlePing(u) PROVE Begins
    BY <1>0, <1>3, TodoLists DEF handleMessage, handleTerminate, handlePing, WithActive
  <1>4. ASSUME \E i \in StreamIds \cup {AllStreams} : handleInterrupt(u, i) PROVE Begins
    BY <1>4, TodoLists DEF handleInterrupt
  <1>5. ASSUME NEW to \in ConversationStates, NEW first \in {<<>>, <<InterruptStreams>>}, handleSessionAction(u, first, to)
        PROVE  Begins
    <2>1. PICK o : o = updateSessionState(to)
      OBVIOUS
    <2>2. o \in Ops /\ o.op # "stream"
      BY <2>1, StateOps
    <2>3. <<o>> \in Seq(Ops) /\ first \in Seq(Ops)
      BY <2>2, OneOp, NoOps, TodoLists
    <2>4. PICK q : q = first \o <<o>>
      OBVIOUS
    <2>5. q \in Seq(Ops)
      BY <2>3, <2>4, ConcatOps
    <2>6. \E s : Start(u, s, q)
      BY <1>5, <2>1, <2>4 DEF handleSessionAction, WithActive
    <2> QED
      BY <1>0, <2>5, <2>6
  <1>6. Begins
    BY <1>1, <1>2, <1>3, <1>4, <1>5
  <1> QED
    BY <1>6, StartKeeps

LEMMA CleanupKeeps ==
  ASSUME StreamInv, MaxCalls \in Nat, NEW s \in VoiceIds, performCleanup(s)
  PROVE  StreamInv' /\ KeepsSilent
  <1>1. \E u, i : StartOn(u, s, i, terminateOps)
    BY DEF performCleanup, cleanupStaleSessions, cleanupExpiredSessions, Start
  <1>2. terminateOps \in Seq(Ops)
    BY TodoLists
  <1> QED
    BY <1>1, <1>2, StartKeeps

\* The steps that concern streams.
LEMMA StreamSteps ==
  ASSUME StreamInv, MaxCalls \in Nat, NEW t \in tasks,
         RegisterStream(t) \/ SendChunk(t) \/ ForgetStream(t) \/ interruptStream(t)
  PROVE  StreamInv' /\ KeepsSilent
  <1>0. TasksOk /\ TasksApart /\ StreamsOk
    BY DEF StreamInv
  <1>1. TaskOk(t) /\ t.todo \in Seq(Ops) /\ t.id \in 1 .. calls /\ (t.id \in Known => Streamless(t.todo))
    BY <1>0 DEF TasksOk, TaskOk
  <1>2. CASE RegisterStream(t)
    <2>1. /\ t.todo # <<>> /\ Head(t.todo).op = "stream" /\ streams' = Put(streams, t.id, t.session)
          /\ UNCHANGED <<chunks, interrupted, calls>>
      BY <1>2 DEF RegisterStream, IsNext
    <2>2. t.id \notin Known
      <3>1. 1 \in DOMAIN t.todo /\ Head(t.todo) = t.todo[1]
        BY <1>1, <2>1
      <3> QED
        BY <1>1, <2>1, <3>1 DEF Streamless
    <2>3. DOMAIN streams' = DOMAIN streams \cup {t.id} /\ Known' = Known \cup {t.id}
      BY <2>1 DEF Put, Known
    <2>4. PICK q : q = generateStreamingResponse \o completeStreamingResponse
      OBVIOUS
    <2>5. q \in Seq(Ops) /\ Streamless(q)
      BY <2>4, TodoLists
    <2>6. PICK x : x = Task(t.id, t.user, t.session, AllStreams, q)
      OBVIOUS
    <2>7. TaskShape(x) /\ x.id = t.id /\ x.todo = q /\ x.copy = <<>>
      BY <2>6 DEF Task, TaskShape
    <2>8. tasks' = (tasks \ {t}) \cup {x}
      BY <1>2, <2>4, <2>6 DEF RegisterStream
    <2>9. TaskOk(x)' /\ Streamless(x.todo)
      BY <1>1, <2>1, <2>5, <2>7 DEF TaskOk, CopyOk
    <2>10. \A s \in tasks : s # t => TaskOk(s)' /\ s.id # t.id /\ (s.id \in Known' => Streamless(s.todo))
      BY <1>0, <2>1, <2>3 DEF TasksOk, TasksApart, TaskOk
    <2>11. TasksOk'
      BY <2>8, <2>9, <2>10 DEF TasksOk
    <2>12. TasksApart'
      BY <1>0, <2>7, <2>8, <2>10 DEF TasksApart
    <2>13. StreamsOk'
      BY <1>0, <1>1, <2>1, <2>2, <2>3 DEF StreamsOk, StreamIds, Known
    <2>14. KeepsSilent
      BY <2>1 DEF KeepsSilent
    <2> QED
      BY <2>11, <2>12, <2>13, <2>14 DEF StreamInv
  <1>3. CASE SendChunk(t)
    <2>1. t.todo # <<>> /\ UNCHANGED <<streams, interrupted, calls>> /\ Known' = Known
      BY <1>3 DEF SendChunk, IsNext, Known
    <2>2. CASE StreamEnded(t)
      <3>1. Continue(t, <<>>) /\ chunks' = chunks
        BY <1>3, <2>2 DEF SendChunk
      <3>2. Advances(t)
        BY <1>1, <3>1, EndAdvances
      <3>3. (TasksOk /\ TasksApart)'
        BY <1>0, <2>1, <3>2, AdvanceKeeps
      <3>4. StreamsOk' /\ KeepsSilent
        BY <1>0, <2>1, <3>1 DEF StreamsOk, KeepsSilent, StreamIds
      <3> QED
        BY <3>3, <3>4 DEF StreamInv
    <2>3. CASE ~StreamEnded(t)
      <3>1. Continue(t, Tail(t.todo)) /\ chunks' = [chunks EXCEPT ![t.id] = chunks[t.id] + 1] /\ t.id \in DOMAIN streams
        BY <1>3, <2>3 DEF SendChunk, StreamEnded
      <3>2. Advances(t)
        BY <1>1, <2>1, <3>1, TailAdvances
      <3>3. (TasksOk /\ TasksApart)'
        BY <1>0, <2>1, <3>2, AdvanceKeeps
      <3>4. chunks' \in [StreamIds -> Int]
        <4>1. chunks \in [StreamIds -> Int] /\ t.id \in StreamIds
          BY <1>0, <1>1 DEF StreamsOk, StreamIds
        <4>2. chunks[t.id] + 1 \in Int
          BY <4>1
        <4> QED
          BY <3>1, <4>1, <4>2
      <3>5. StreamsOk'
        BY <1>0, <2>1, <3>4 DEF StreamsOk, StreamIds
      <3>6. ASSUME NEW i \in interrupted PROVE chunks'[i] = chunks[i]
        <4>1. i # t.id /\ i \in StreamIds
          BY <1>0, <3>1 DEF StreamsOk, Known, StreamIds
        <4> QED
          BY <1>0, <3>1, <4>1 DEF StreamsOk
      <3> QED
        BY <3>3, <3>5, <3>6 DEF StreamInv, KeepsSilent
    <2> QED
      BY <2>2, <2>3
  <1>4. CASE ForgetStream(t)
    <2>1. /\ t.todo # <<>> /\ Continue(t, Tail(t.todo)) /\ streams' = Drop(streams, {t.id})
          /\ UNCHANGED <<chunks, interrupted, calls>>
      BY <1>4 DEF ForgetStream, IsNext
    <2>2. DOMAIN streams' \subseteq DOMAIN streams /\ Known' \subseteq Known
      BY <2>1 DEF Drop, Known
    <2>3. Advances(t)
      BY <1>1, <2>1, TailAdvances
    <2>4. (TasksOk /\ TasksApart)'
      BY <1>0, <2>1, <2>2, <2>3, AdvanceKeeps
    <2>5. StreamsOk' /\ KeepsSilent
      BY <1>0, <2>1, <2>2 DEF StreamsOk, KeepsSilent, StreamIds
    <2> QED
      BY <2>4, <2>5 DEF StreamInv
  <1>5. CASE interruptStream(t)
    <2>1. t.todo # <<>> /\ UNCHANGED <<chunks, calls>>
      BY <1>5 DEF interruptStream, IsNext
    <2>2. PICK hit \in SUBSET DOMAIN streams : streams' = Drop(streams, hit) /\ interrupted' = interrupted \cup hit
      BY <1>5 DEF interruptStream
    <2>3. DOMAIN streams' = DOMAIN streams \ hit /\ Known' \subseteq Known
      BY <2>2 DEF Drop, Known
    <2>4. Advances(t)
      <3>1. Continue(t, <<Do("interrupt")>> \o Tail(t.todo)) \/ Continue(t, Tail(t.todo))
        BY <1>5 DEF interruptStream
      <3>2. Do("interrupt") \in Ops /\ Do("interrupt").op # "stream"
        BY DoOps DEF OpNames
      <3> QED
        BY <1>1, <2>1, <3>1, <3>2, TailAdvances, ConsAdvances
    <2>5. (TasksOk /\ TasksApart)'
      BY <1>0, <2>1, <2>3, <2>4, AdvanceKeeps
    <2>6. StreamsOk' /\ KeepsSilent
      BY <1>0, <2>1, <2>2, <2>3 DEF StreamsOk, KeepsSilent, StreamIds
    <2> QED
      BY <2>5, <2>6 DEF StreamInv
  <1> QED
    BY <1>2, <1>3, <1>4, <1>5

LEMMA StreamsBegin ==
  ASSUME MaxCalls \in Nat, VoiceInit
  PROVE  StreamInv
  <1>1. /\ streams = <<>> /\ tasks = {} /\ calls = 0 /\ chunks = [i \in StreamIds |-> 0] /\ interrupted = {}
    BY DEF VoiceInit
  <1>2. DOMAIN streams = {}
    BY <1>1
  <1>3. chunks \in [StreamIds -> Int]
    BY <1>1
  <1> QED
    BY <1>1, <1>2, <1>3 DEF StreamInv, TasksOk, TasksApart, StreamsOk, Known

LEMMA StreamsStep ==
  ASSUME MaxCalls \in Nat, StreamInv, [VoiceNext]_voiceVars
  PROVE  StreamInv' /\ (KeepsSilent \/ UNCHANGED voiceVars)
  <1>0. TasksOk /\ TasksApart /\ StreamsOk
    BY DEF StreamInv
  <1>1. ASSUME UNCHANGED <<streams, chunks, interrupted, calls>>, (TasksOk /\ TasksApart)'
        PROVE  StreamInv' /\ KeepsSilent
    BY <1>0, <1>1 DEF StreamInv, StreamsOk, Known, KeepsSilent, StreamIds
  <1>2. CASE UNCHANGED voiceVars \/ ExpireKey
    <2>1. UNCHANGED <<tasks, streams, chunks, interrupted, calls>>
      BY <1>2 DEF voiceVars, streamVars, ExpireKey
    <2>2. (TasksOk /\ TasksApart)'
      BY <1>0, <2>1 DEF TasksOk, TasksApart, TaskOk, Known
    <2> QED
      BY <1>1, <2>1, <2>2
  <1>3. ASSUME NEW t \in tasks,
               \/ ReadSession(t) \/ saveSession(t) \/ resumeSession(t) \/ interruptSession(t)
               \/ FindSession(t) \/ DelSession(t) \/ removeUserSession(t) \/ clearUserActiveSessionIfMatches(t)
               \/ deleteUserActiveSession(t) \/ setUserActiveSession(t) \/ createSession(t) \/ addUserSession(t)
               \/ CheckStream(t) \/ CheckOwner(t) \/ \E ok \in BOOLEAN : CallLlm(t, ok)
        PROVE  StreamInv' /\ KeepsSilent
    <2>1. TaskOk(t)
      BY <1>0 DEF TasksOk
    <2>2. Advances(t) /\ UNCHANGED <<streams, chunks, interrupted, calls>>
      BY <1>3, <2>1, QuietSteps
    <2>3. Known' \subseteq Known
      BY <2>2 DEF Known
    <2> QED
      BY <1>0, <1>1, <2>2, <2>3, AdvanceKeeps
  <1>4. ASSUME NEW t \in tasks, RegisterStream(t) \/ SendChunk(t) \/ ForgetStream(t) \/ interruptStream(t)
        PROVE  StreamInv' /\ KeepsSilent
    BY <1>4, StreamSteps
  <1>5. ASSUME NEW u \in VoiceUsers,
               \/ \E s \in VoiceIds : handleConnection(u, s) \/ handleDisconnect(u, s)
               \/ \E owner \in VoiceUsers : createSessionRequest(u, owner)
               \/ handleMessage(u) \/ handleTerminate(u) \/ handlePing(u)
               \/ \E i \in StreamIds \cup {AllStreams} : handleInterrupt(u, i)
               \/ \E to \in ConversationStates :
                    handleSessionAction(u, <<>>, to) \/ handleSessionAction(u, <<InterruptStreams>>, to)
        PROVE  StreamInv' /\ KeepsSilent
    BY <1>5, HandlersKeep
  <1>6. ASSUME NEW s \in VoiceIds, performCleanup(s)
        PROVE  StreamInv' /\ KeepsSilent
    BY <1>6, CleanupKeeps
  <1> QED
    BY <1>2, <1>3, <1>4, <1>5, <1>6 DEF VoiceNext

\* A stream that was interrupted sends no further chunk: neither a handler that
\* is already generating nor a later request brings the stream back.
THEOREM InterruptedStreamsAreSilent ==
  ASSUME MaxCalls \in Nat
  PROVE  VoiceSpec => InterruptSilences
  <1>1. VoiceInit => StreamInv
    BY StreamsBegin
  <1>2. StreamInv /\ [VoiceNext]_voiceVars => StreamInv' /\ (KeepsSilent \/ UNCHANGED voiceVars)
    BY StreamsStep
  <1> QED
    BY <1>1, <1>2, PTL DEF VoiceSpec, InterruptSilences

-----------------------------------------------------------------------------
(* The session limit.  A creation that overlaps no other one sees in the     *)
(* index every session of the user: a session is indexed from the sAdd of    *)
(* its creation until its document is gone, and while a new one is about to  *)
(* be saved no other handler can save or remove it.                          *)

\* In a todo list a removal follows its reads, and an index entry its document.
Orderly(q) ==
  \A i \in DOMAIN q : i > 1 =>
    /\ q[i].op # "save"
    /\ q[i].op = "sAdd" => q[i - 1].op = "save"
    /\ q[i].op = "sRem" => q[i - 1].op = "del"
    /\ q[i].op = "del" => q[i - 1].op = "find"
Saving(t) == IsNext(t, "save")
SaveReady(t) ==
  Saving(t) => t.copy # <<>> /\ Len(t.todo) >= 2 /\ t.todo[2] = [op |-> "sAdd", to |-> t.copy[1].user]
Document(d) == d = [user |-> d.user, state |-> d.state]
\* What a handler's next step may rely on.
InStep(t) ==
  /\ Orderly(t.todo) /\ SaveReady(t)
  /\ Saving(t) \/ IsNext(t, "sRem") => t.session \notin DOMAIN sessions
  /\ t.copy # <<>> => Document(t.copy[1])
  /\ t.copy # <<>> /\ t.session \in DOMAIN sessions => t.copy[1].user = sessions[t.session].user
TasksInStep == \A t \in tasks : InStep(t)
\* While t is about to save a new session, p leaves that session alone.
KeepsOff(p, t) ==
  /\ p.session = t.session => p.copy = <<>> /\ ~IsNext(p, "del") /\ ~IsNext(p, "sRem")
  /\ Saving(p) => p.copy[1].user # t.copy[1].user
OneCreator == \A t, p \in tasks : Saving(t) /\ p # t => KeepsOff(p, t)
OwnedBy(u) == {s \in DOMAIN sessions : sessions[s].user = u}
AddingTo(t, s, u) == t.session = s /\ IsNext(t, "sAdd") /\ Head(t.todo).to = u
IsIndexed(s, u) == s \in userSessions[u] \/ \E t \in tasks : AddingTo(t, s, u)
Indexed == \A u \in VoiceUsers : \A s \in OwnedBy(u) : IsIndexed(s, u)
SaverFor(t, u) == Saving(t) /\ t.copy[1].user = u
RoomFor(u) ==
  /\ Cardinality(OwnedBy(u)) <= MaxSessionsPerUser
  /\ \A t \in tasks : SaverFor(t, u) => Cardinality(OwnedBy(u)) < MaxSessionsPerUser
RoomLeft == \A u \in VoiceUsers : RoomFor(u)
KeysTyped ==
  /\ IsFiniteSet(DOMAIN sessions) /\ DOMAIN userSessions = VoiceUsers
  /\ \A s \in DOMAIN sessions : Document(sessions[s])
KeyInv == KeysTyped /\ OneCreator /\ TasksInStep /\ Indexed /\ RoomLeft

-----------------------------------------------------------------------------
\* Lists of things to do.
Loose(op) == op \notin {"save", "sAdd", "sRem", "del"}

LEMMA OrderlyTail ==
  ASSUME NEW q \in Seq(Ops), q # <<>>, Orderly(q)
  PROVE  Orderly(Tail(q))
  <1>1. Len(q) \in Nat /\ Len(Tail(q)) = Len(q) - 1 /\ DOMAIN Tail(q) = 1 .. Len(q) - 1
    OBVIOUS
  <1>2. ASSUME NEW i \in DOMAIN Tail(q), i > 1
        PROVE  i + 1 \in DOMAIN q /\ i + 1 > 1 /\ Tail(q)[i] = q[i + 1] /\ Tail(q)[i - 1] = q[(i + 1) - 1]
    BY <1>1, <1>2
  <1> QED
    BY <1>2 DEF Orderly

\* What follows an operation other than a save, find or del is no part of a
\* creation or a removal.
LEMMA LooseNext ==
  ASSUME NEW q \in Seq(Ops), Orderly(q), Len(q) >= 2, q[1].op \notin {"save", "find", "del"}
  PROVE  Loose(q[2].op)
  <1>1. 2 \in DOMAIN q /\ 2 > 1 /\ 2 - 1 = 1
    OBVIOUS
  <1> QED
    BY <1>1 DEF Orderly, Loose

LEMMA SecondOp ==
  ASSUME NEW q, Orderly(q), 2 \in DOMAIN q
  PROVE  /\ q[2].op # "save"
         /\ q[2].op = "sAdd" => q[1].op = "save"
         /\ q[2].op = "sRem" => q[1].op = "del"
         /\ q[2].op = "del" => q[1].op = "find"
  <1>1. 2 > 1 /\ 2 - 1 = 1
    OBVIOUS
  <1> QED
    BY <1>1 DEF Orderly

LEMMA OrderlyCons ==
  ASSUME NEW q \in Seq(Ops), q # <<>>, Orderly(q), q[1].op \notin {"save", "find", "del"}, NEW o \in Ops
  PROVE  Orderly(<<o>> \o Tail(q))
  <1>1. PICK r : r = <<o>> \o Tail(q)
    OBVIOUS
  <1>2. Len(q) \in Nat /\ DOMAIN r = 1 .. Len(q) /\ \A i \in 2 .. Len(q) : r[i] = q[i]
    BY <1>1
  <1>3. ASSUME NEW i \in DOMAIN r, i > 1
        PROVE  /\ r[i].op # "save"
               /\ r[i].op = "sAdd" => r[i - 1].op = "save"
               /\ r[i].op = "sRem" => r[i - 1].op = "del"
               /\ r[i].op = "del" => r[i - 1].op = "find"
    <2>1. CASE i = 2
      <3>1. Len(q) >= 2 /\ r[2] = q[2]
        BY <1>2, <1>3, <2>1
      <3>2. Loose(q[2].op)
        BY <3>1, LooseNext
      <3> QED
        BY <2>1, <3>1, <3>2 DEF Loose
    <2>2. CASE i # 2
      <3>1. i \in DOMAIN q /\ r[i] = q[i] /\ r[i - 1] = q[i - 1]
        BY <1>2, <1>3, <2>2
      <3> QED
        BY <1>3, <3>1 DEF Orderly
    <2> QED
      BY <2>1, <2>2
  <1>4. Orderly(r)
    BY <1>3 DEF Orderly
  <1> QED
    BY <1>1, <1>4

LEMMA OrderlyCreate ==
  ASSUME NEW q \in Seq(Ops), q # <<>>, Orderly(q), q[1].op = "create", NEW a, NEW b, a.op = "save", b.op = "sAdd"
  PROVE  Orderly(<<a, b>> \o Tail(q))
  <1>1. PICK r : r = <<a, b>> \o Tail(q)
    OBVIOUS
  <1>2. /\ Len(q) \in Nat /\ DOMAIN r = 1 .. Len(q) + 1 /\ r[1] = a /\ r[2] = b
        /\ \A i \in 3 .. Len(q) + 1 : r[i] = q[i - 1]
    BY <1>1
  <1>3. ASSUME NEW i \in DOMAIN r, i > 1
        PROVE  /\ r[i].op # "save"
               /\ r[i].op = "sAdd" => r[i - 1].op = "save"
               /\ r[i].op = "sRem" => r[i - 1].op = "del"
               /\ r[i].op = "del" => r[i - 1].op = "find"
    <2>1. CASE i = 2
      BY <1>2, <2>1
    <2>2. CASE i = 3
      <3>1. Len(q) >= 2 /\ r[3] = q[2]
        BY <1>2, <1>3, <2>2
      <3>2. Loose(q[2].op)
        BY <3>1, LooseNext
      <3> QED
        BY <2>2, <3>1, <3>2 DEF Loose
    <2>3. CASE i # 2 /\ i # 3
      <3>1. i - 1 \in DOMAIN q /\ i - 1 > 1 /\ r[i] = q[i - 1] /\ r[i - 1] = q[(i - 1) - 1]
        BY <1>2, <1>3, <2>3
      <3> QED
        BY <3>1 DEF Orderly
    <2> QED
      BY <2>1, <2>2, <2>3
  <1>4. Orderly(r)
    BY <1>3 DEF Orderly
  <1> QED
    BY <1>1, <1>4

-----------------------------------------------------------------------------
\* A step that creates nothing: old handlers that were not creating are replaced
\* by handlers that do not create, the documents left keep their users, and
\* what is left is as indexed as it was.
Shrinks ==
  /\ DOMAIN sessions' \subseteq DOMAIN sessions
  /\ \A s \in DOMAIN sessions' : sessions'[s].user = sessions[s].user /\ Document(sessions'[s])
KeepsIndex ==
  /\ DOMAIN userSessions' = DOMAIN userSessions
  /\ \A u \in VoiceUsers : \A s \in DOMAIN sessions' : s \in userSessions[u] => s \in userSessions'[u]
Uncreating(t) == ~Saving(t) /\ ~IsNext(t, "sAdd")
Leaves(t) == ~Saving(t) /\ \A u \in VoiceUsers : \A s : AddingTo(t, s, u) => s \in userSessions'[u]
Touches(x) == x.copy # <<>> \/ IsNext(x, "del") \/ IsNext(x, "sRem")
Harmless(x) ==
  /\ Uncreating(x) /\ InStep(x)'
  /\ Touches(x) => \A p \in tasks : Saving(p) => p.session # x.session
Replaces(Old, New) == tasks' = (tasks \ Old) \cup New

LEMMA PassiveKeeps ==
  ASSUME KeyInv, Shrinks, KeepsIndex, NEW Old, NEW New, Replaces(Old, New),
         \A t \in Old : Leaves(t), \A x \in New : Harmless(x), MaxSessionsPerUser \in Nat
  PROVE  KeyInv'
  <1>0. KeysTyped /\ OneCreator /\ TasksInStep /\ Indexed /\ RoomLeft
    BY DEF KeyInv
  <1>1. KeysTyped'
    <2>1. IsFiniteSet(DOMAIN sessions')
      BY <1>0, FS_Subset DEF KeysTyped, Shrinks
    <2> QED
      BY <1>0, <2>1 DEF KeysTyped, KeepsIndex, Shrinks
  <1>2. \A t \in tasks' : t \in New \/ t \in tasks
    BY DEF Replaces
  <1>3. \A t \in tasks' : Saving(t) => t \in tasks
    BY <1>2 DEF Harmless, Uncreating
  <1>4. OneCreator'
    <2> SUFFICES ASSUME NEW t \in tasks', NEW p \in tasks', Saving(t), p # t PROVE KeepsOff(p, t)
      BY DEF OneCreator
    <2>1. t \in tasks
      BY <1>3
    <2>2. CASE p \in tasks
      BY <1>0, <2>1, <2>2 DEF OneCreator
    <2>3. CASE p \in New
      BY <2>1, <2>3 DEF Harmless, Uncreating, Touches, KeepsOff
    <2> QED
      BY <1>2, <2>2, <2>3
  <1>5. TasksInStep'
    <2> SUFFICES ASSUME NEW t \in tasks' PROVE InStep(t)'
      BY DEF TasksInStep
    <2>1. CASE t \in New
      BY <2>1 DEF Harmless
    <2>2. CASE t \in tasks
      <3>1. InStep(t)
        BY <1>0, <2>2 DEF TasksInStep
      <3> QED
        BY <3>1 DEF InStep, Shrinks
    <2> QED
      BY <1>2, <2>1, <2>2
  <1>6. ASSUME NEW u PROVE OwnedBy(u)' \subseteq OwnedBy(u)
    BY DEF OwnedBy, Shrinks
  <1>7. Indexed'
    <2> SUFFICES ASSUME NEW u \in VoiceUsers, NEW s \in OwnedBy(u)' PROVE IsIndexed(s, u)'
      BY DEF Indexed
    <2>1. s \in OwnedBy(u) /\ s \in DOMAIN sessions'
      BY <1>6 DEF OwnedBy
    <2>2. IsIndexed(s, u)
      BY <1>0, <2>1 DEF Indexed
    <2>3. CASE s \in userSessions[u]
      BY <2>1, <2>3 DEF KeepsIndex, IsIndexed
    <2>4. ASSUME NEW t \in tasks, AddingTo(t, s, u) PROVE IsIndexed(s, u)'
      <3>1. CASE t \in Old
        BY <2>4, <3>1 DEF Leaves, IsIndexed
      <3>2. CASE t \notin Old
        BY <2>4, <3>2 DEF Replaces, IsIndexed
      <3> QED
        BY <3>1, <3>2
    <2> QED
      BY <2>2, <2>3, <2>4 DEF IsIndexed
  <1>8. RoomLeft'
    <2> SUFFICES ASSUME NEW u \in VoiceUsers PROVE RoomFor(u)'
      BY DEF RoomLeft
    <2>1. PICK A, B : A = OwnedBy(u) /\ B = OwnedBy(u)'
      OBVIOUS
    <2>2. B \subseteq A /\ A \subseteq DOMAIN sessions
      BY <1>6, <2>1 DEF OwnedBy
    <2>3. IsFiniteSet(A)
      BY <1>0, <2>2, FS_Subset DEF KeysTyped
    <2>4. Cardinality(B) <= Cardinality(A) /\ Cardinality(B) \in Nat /\ Cardinality(A) \in Nat
      BY <2>2, <2>3, FS_Subset, FS_CardinalityType
    <2>5. RoomFor(u)
      BY <1>0 DEF RoomLeft
    <2>6. Cardinality(B) <= MaxSessionsPerUser
      BY <2>1, <2>4, <2>5 DEF RoomFor
    <2>7. ASSUME NEW t \in tasks', SaverFor(t, u) PROVE Cardinality(B) < MaxSessionsPerUser
      <3>1. t \in tasks
        BY <1>3, <2>7 DEF SaverFor
      <3>2. Cardinality(A) < MaxSessionsPerUser
        BY <2>1, <2>5, <2>7, <3>1 DEF RoomFor
      <3> QED
        BY <2>4, <3>2
    <2> QED
      BY <2>1, <2>6, <2>7 DEF RoomFor
  <1> QED
    BY <1>1, <1>4, <1>5, <1>7, <1>8 DEF KeyInv

-----------------------------------------------------------------------------
\* Handlers that go on.
LEMMA UncreatingLeaves ==
  ASSUME NEW t, Uncreating(t)
  PROVE  Leaves(t)
  BY DEF Uncreating, Leaves, AddingTo

LEMMA HeadIs ==
  ASSUME NEW t, t.todo \in Seq(Ops), t.todo # <<>>, NEW op
  PROVE  IsNext(t, op) <=> t.todo[1].op = op
  BY DEF IsNext

LEMMA LooseHead ==
  ASSUME NEW x, x.todo \in Seq(Ops), x.todo = <<>> \/ Loose(x.todo[1].op)
  PROVE  Uncreating(x) /\ ~IsNext(x, "del") /\ ~IsNext(x, "sRem")
  <1>1. CASE x.todo = <<>>
    BY <1>1 DEF Uncreating, Saving, IsNext
  <1>2. CASE x.todo # <<>>
    BY <1>2, HeadIs DEF Loose, Uncreating, Saving
  <1> QED
    BY <1>1, <1>2

LEMMA LooseHarmless ==
  ASSUME NEW x, x.todo \in Seq(Ops), Orderly(x.todo), x.copy = <<>>, x.todo = <<>> \/ Loose(x.todo[1].op)
  PROVE  Harmless(x)
  <1>1. Uncreating(x) /\ ~IsNext(x, "del") /\ ~IsNext(x, "sRem")
    BY LooseHead
  <1> QED
    BY <1>1 DEF Harmless, Touches, InStep, SaveReady, Uncreating

LEMMA ContinueKeeps ==
  ASSUME KeyInv, Shrinks, KeepsIndex, MaxSessionsPerUser \in Nat, NEW t \in tasks, TaskOk(t), Leaves(t),
         NEW todo \in Seq(Ops), Orderly(todo), todo = <<>> \/ Loose(todo[1].op), Continue(t, todo)
  PROVE  KeyInv'
  <1>1. CASE todo = <<>>
    <2>1. Replaces({t}, {})
      BY <1>1 DEF Continue, Rest, Replaces
    <2>2. \A x \in {} : Harmless(x)
      OBVIOUS
    <2>3. \A y \in {t} : Leaves(y)
      OBVIOUS
    <2> QED
      BY <2>1, <2>2, <2>3, PassiveKeeps
  <1>2. CASE todo # <<>>
    <2>1. PICK x : x = [t EXCEPT !.todo = todo, !.copy = <<>>]
      OBVIOUS
    <2>2. x.todo = todo /\ x.copy = <<>>
      BY <2>1 DEF TaskOk, TaskShape
    <2>3. Replaces({t}, {x})
      BY <1>2, <2>1 DEF Continue, Rest, Replaces
    <2>4. Harmless(x)
      BY <2>2, LooseHarmless
    <2>5. (\A y \in {t} : Leaves(y)) /\ \A y \in {x} : Harmless(y)
      BY <2>4
    <2> QED
      BY <2>3, <2>5, PassiveKeeps
  <1> QED
    BY <1>1, <1>2

LEMMA TailKeeps ==
  ASSUME KeyInv, Shrinks, KeepsIndex, MaxSessionsPerUser \in Nat, NEW t \in tasks, TaskOk(t), Leaves(t),
         t.todo # <<>>, t.todo[1].op \notin {"save", "find", "del"}, Continue(t, Tail(t.todo))
  PROVE  KeyInv'
  <1>1. t.todo \in Seq(Ops) /\ Orderly(t.todo)
    BY DEF TaskOk, KeyInv, TasksInStep, InStep
  <1>2. PICK q : q = Tail(t.todo)
    OBVIOUS
  <1>3. q \in Seq(Ops) /\ Orderly(q)
    BY <1>1, <1>2, OrderlyTail
  <1>4. CASE q = <<>>
    BY <1>2, <1>3, <1>4, ContinueKeeps
  <1>5. CASE q # <<>>
    <2>1. Len(t.todo) >= 2 /\ q[1] = t.todo[2]
      BY <1>1, <1>2, <1>5
    <2>2. Loose(q[1].op)
      BY <1>1, <2>1, LooseNext
    <2> QED
      BY <1>2, <1>3, <2>2, ContinueKeeps
  <1> QED
    BY <1>4, <1>5

LEMMA EndKeeps ==
  ASSUME KeyInv, Shrinks, KeepsIndex, MaxSessionsPerUser \in Nat, NEW t \in tasks, TaskOk(t), Leaves(t),
         Continue(t, <<>>)
  PROVE  KeyInv'
  <1>1. <<>> \in Seq(Ops) /\ Orderly(<<>>)
    BY DEF Orderly
  <1> QED
    BY <1>1, ContinueKeeps

LEMMA ConsKeeps ==
  ASSUME KeyInv, Shrinks, KeepsIndex, MaxSessionsPerUser \in Nat, NEW t \in tasks, TaskOk(t), Leaves(t),
         t.todo # <<>>, t.todo[1].op \notin {"save", "find", "del"}, NEW o \in Ops, Loose(o.op),
         Continue(t, <<o>> \o Tail(t.todo))
  PROVE  KeyInv'
  <1>1. t.todo \in Seq(Ops) /\ Orderly(t.todo)
    BY DEF TaskOk, KeyInv, TasksInStep, InStep
  <1>2. PICK q : q = <<o>> \o Tail(t.todo)
    OBVIOUS
  <1>3. q \in Seq(Ops) /\ q[1] = o
    BY <1>1, <1>2
  <1>4. Orderly(q)
    BY <1>1, <1>2, OrderlyCons
  <1> QED
    BY <1>2, <1>3, <1>4, ContinueKeeps

LEMMA SameKeys ==
  ASSUME KeyInv, sessions' = sessions, userSessions' = userSessions
  PROVE  Shrinks /\ KeepsIndex
  BY DEF KeyInv, KeysTyped, Shrinks, KeepsIndex

\* Steps that only look, and then know what to do next.
LEMMA LookingSteps ==
  ASSUME KeyInv, MaxSessionsPerUser \in Nat, NEW t \in tasks, TaskOk(t),
         \/ resumeSession(t) \/ interruptSession(t) \/ clearUserActiveSessionIfMatches(t)
         \/ deleteUserActiveSession(t) \/ setUserActiveSession(t) \/ CheckStream(t) \/ SendChunk(t)
         \/ ForgetStream(t) \/ interruptStream(t) \/ CheckOwner(t) \/ \E ok \in BOOLEAN : CallLlm(t, ok)
  PROVE  KeyInv'
  <1>1. sessions' = sessions /\ userSessions' = userSessions
    BY DEF resumeSession, interruptSession, clearUserActiveSessionIfMatches, deleteUserActiveSession,
           setUserActiveSession, CheckStream, SendChunk, ForgetStream, interruptStream, CheckOwner, CallLlm, keyVars
  <1>2. Shrinks /\ KeepsIndex
    BY <1>1, SameKeys
  <1>3. /\ t.todo # <<>>
        /\ Head(t.todo).op \in {"resume", "interrupt", "clear", "delActive", "setActive", "generate", "complete",
                                "chunk", "forget", "interruptStreams", "owner", "llm"}
    BY DEF resumeSession, interruptSession, clearUserActiveSessionIfMatches, deleteUserActiveSession,
           setUserActiveSession, CheckStream, SendChunk, ForgetStream, interruptStream, CheckOwner, CallLlm, IsNext
  <1>4. t.todo \in Seq(Ops)
    BY DEF TaskOk
  <1>5. t.todo[1].op \notin {"save", "find", "del"} /\ Loose(t.todo[1].op)
    BY <1>3, <1>4 DEF Loose
  <1>6. Leaves(t)
    BY <1>4, <1>5, LooseHead, UncreatingLeaves
  <1>7. \/ Continue(t, Tail(t.todo)) \/ Continue(t, <<>>)
        \/ Continue(t, <<Do("delActive")>> \o Tail(t.todo))
        \/ Continue(t, <<Do("interrupt")>> \o Tail(t.todo))
        \/ \E to \in {"LISTENING", "IDLE", "INTERRUPTED"} : Continue(t, <<updateSessionState(to)>> \o Tail(t.todo))
    BY DEF resumeSession, interruptSession, clearUserActiveSessionIfMatches, deleteUserActiveSession,
           setUserActiveSession, CheckStream, SendChunk, ForgetStream, interruptStream, CheckOwner, CallLlm
  <1>8. ASSUME NEW to \in {"LISTENING", "IDLE", "INTERRUPTED"}
        PROVE  updateSessionState(to) \in Ops /\ Loose(updateSessionState(to).op)
    BY StateOps DEF ConversationStates, Loose
  <1>9. ASSUME NEW o \in {"delActive", "interrupt"} PROVE Do(o) \in Ops /\ Loose(Do(o).op)
    BY DoOps DEF OpNames, Loose
  <1> QED
    BY <1>2, <1>3, <1>5, <1>6, <1>7, <1>8, <1>9, TailKeeps, EndKeeps, ConsKeeps

\* A document is read into the handler's copy.
LEMMA ReadKeeps ==
  ASSUME KeyInv, MaxSessionsPerUser \in Nat, NEW t \in tasks, TaskOk(t), ReadSession(t)
  PROVE  KeyInv'
  <1>1. sessions' = sessions /\ userSessions' = userSessions
    BY DEF ReadSession, keyVars
  <1>2. Shrinks /\ KeepsIndex
    BY <1>1, SameKeys
  <1>3. t.todo # <<>> /\ Head(t.todo).op \in Writes /\ t.copy = <<>>
    BY DEF ReadSession
  <1>4. t.todo \in Seq(Ops) /\ InStep(t)
    BY DEF TaskOk, KeyInv, TasksInStep
  <1>5. t.todo[1].op \notin {"save", "find", "del"} /\ Loose(t.todo[1].op)
    <2>1. ~Saving(t)
      BY <1>3, <1>4 DEF InStep, SaveReady
    <2> QED
      BY <1>3, <1>4, <2>1, HeadIs DEF Saving, Writes, Loose
  <1>6. Leaves(t)
    BY <1>4, <1>5, LooseHead, UncreatingLeaves
  <1>7. CASE Continue(t, Tail(t.todo))
    BY <1>2, <1>3, <1>5, <1>6, <1>7, TailKeeps
  <1>8. ASSUME NEW d, d.user = sessions[t.session].user, Document(d), t.session \in DOMAIN sessions,
               tasks' = (tasks \ {t}) \cup {[t EXCEPT !.copy = <<d>>]}
        PROVE  KeyInv'
    <2>1. PICK x : x = [t EXCEPT !.copy = <<d>>]
      OBVIOUS
    <2>2. x.todo = t.todo /\ x.copy = <<d>> /\ x.session = t.session
      BY <2>1 DEF TaskOk, TaskShape
    <2>3. Uncreating(x) /\ ~IsNext(x, "del") /\ ~IsNext(x, "sRem")
      BY <1>4, <1>5, <2>2, LooseHead
    <2>4. x.copy[1] = d
      BY <2>2
    <2>5. InStep(x)'
      BY <1>1, <1>4, <1>8, <2>2, <2>3, <2>4 DEF InStep, SaveReady, Uncreating
    <2>6. \A p \in tasks : Saving(p) => p.session # x.session
      BY <1>8, <2>2 DEF KeyInv, TasksInStep, InStep
    <2>7. \A y \in {x} : Harmless(y)
      BY <2>3, <2>5, <2>6 DEF Harmless
    <2>8. Replaces({t}, {x}) /\ \A y \in {t} : Leaves(y)
      BY <1>6, <1>8, <2>1 DEF Replaces
    <2> QED
      BY <1>2, <2>7, <2>8, PassiveKeeps
  <1>9. CASE ~Continue(t, Tail(t.todo))
    <2>1. PICK to : to = Head(t.todo).to
      OBVIOUS
    <2>2. /\ t.session \in DOMAIN sessions
          /\ \E d \in {sessions[t.session], [sessions[t.session] EXCEPT !.state = to]} :
               tasks' = (tasks \ {t}) \cup {[t EXCEPT !.copy = <<d>>]}
      BY <1>9, <2>1 DEF ReadSession
    <2>3. Document(sessions[t.session])
      BY <2>2 DEF KeyInv, KeysTyped
    <2>4. PICK e : e = [sessions[t.session] EXCEPT !.state = to]
      OBVIOUS
    <2>5. e.user = sessions[t.session].user /\ Document(e)
      BY <2>3, <2>4 DEF Document
    <2> QED
      BY <1>8, <2>2, <2>3, <2>4, <2>5
  <1> QED
    BY <1>7, <1>9

\* Terminating a session.
LEMMA FindKeeps ==
  ASSUME KeyInv, MaxSessionsPerUser \in Nat, NEW t \in tasks, TaskOk(t), FindSession(t)
  PROVE  KeyInv'
  <1>1. sessions' = sessions /\ userSessions' = userSessions /\ t.todo # <<>> /\ Head(t.todo).op = "find"
    BY DEF FindSession, keyVars, IsNext
  <1>2. Shrinks /\ KeepsIndex
    BY <1>1, SameKeys
  <1>3. t.todo \in Seq(Ops) /\ Orderly(t.todo) /\ t.copy = <<>>
    BY <1>1 DEF TaskOk, KeyInv, TasksInStep, InStep, CopyOk, Writes
  <1>4. Leaves(t)
    BY <1>1, <1>3, LooseHead, UncreatingLeaves DEF Loose
  <1>5. CASE t.session \notin DOMAIN sessions
    BY <1>2, <1>4, <1>5, EndKeeps DEF FindSession
  <1>6. CASE t.session \in DOMAIN sessions
    <2>1. PICK x : x = [t EXCEPT !.user = sessions[t.session].user, !.todo = Tail(t.todo)]
      OBVIOUS
    <2>2. x.todo = Tail(t.todo) /\ x.copy = <<>> /\ x.session = t.session
      BY <1>3, <2>1 DEF TaskOk, TaskShape
    <2>3. x.todo \in Seq(Ops) /\ Orderly(x.todo)
      BY <1>1, <1>3, <2>2, OrderlyTail
    <2>4. Uncreating(x) /\ ~IsNext(x, "sRem")
      <3>1. CASE x.todo = <<>>
        BY <3>1 DEF Uncreating, Saving, IsNext
      <3>2. CASE x.todo # <<>>
        <4>1. 2 \in DOMAIN t.todo /\ x.todo[1] = t.todo[2] /\ t.todo[1].op = "find"
          BY <1>1, <1>3, <2>2, <3>2
        <4>2. x.todo[1].op \notin {"save", "sAdd", "sRem"}
          BY <1>3, <4>1, SecondOp
        <4> QED
          BY <2>3, <3>2, <4>2, HeadIs DEF Uncreating, Saving
      <3> QED
        BY <3>1, <3>2
    <2>5. InStep(x)'
      BY <2>2, <2>3, <2>4 DEF InStep, SaveReady, Uncreating
    <2>6. \A p \in tasks : Saving(p) => p.session # x.session
      BY <1>6, <2>2 DEF KeyInv, TasksInStep, InStep
    <2>7. \A y \in {x} : Harmless(y)
      BY <2>4, <2>5, <2>6 DEF Harmless
    <2>8. Replaces({t}, {x}) /\ \A y \in {t} : Leaves(y)
      BY <1>4, <1>6, <2>1 DEF Replaces, FindSession
    <2> QED
      BY <1>2, <2>7, <2>8, PassiveKeeps
  <1> QED
    BY <1>5, <1>6

LEMMA DelKeeps ==
  ASSUME KeyInv, MaxSessionsPerUser \in Nat, NEW t \in tasks, TaskOk(t), DelSession(t)
  PROVE  KeyInv'
  <1>1. /\ sessions' = Drop(sessions, {t.session}) /\ userSessions' = userSessions
        /\ t.todo # <<>> /\ Head(t.todo).op = "del"
    BY DEF DelSession, IsNext
  <1>2. DOMAIN sessions' = DOMAIN sessions \ {t.session} /\ \A s \in DOMAIN sessions' : sessions'[s] = sessions[s]
    BY <1>1 DEF Drop
  <1>3. Shrinks /\ KeepsIndex
    BY <1>1, <1>2 DEF Shrinks, KeepsIndex, KeyInv, KeysTyped
  <1>4. t.todo \in Seq(Ops) /\ Orderly(t.todo)
    BY DEF TaskOk, KeyInv, TasksInStep, InStep
  <1>5. Leaves(t) /\ IsNext(t, "del") /\ ~Saving(t)
    BY <1>1, <1>4, UncreatingLeaves DEF Uncreating, Saving, IsNext
  <1>6. PICK q : q = Tail(t.todo)
    OBVIOUS
  <1>7. q \in Seq(Ops) /\ Orderly(q)
    BY <1>1, <1>4, <1>6, OrderlyTail
  <1>8. CASE q = <<>>
    BY <1>3, <1>5, <1>6, <1>8, EndKeeps DEF DelSession
  <1>9. CASE q # <<>>
    <2>1. PICK x : x = [t EXCEPT !.todo = q, !.copy = <<>>]
      OBVIOUS
    <2>2. x.todo = q /\ x.copy = <<>> /\ x.session = t.session
      BY <2>1 DEF TaskOk, TaskShape
    <2>3. Uncreating(x)
      <3>1. 2 \in DOMAIN t.todo /\ q[1] = t.todo[2] /\ t.todo[1].op = "del"
        BY <1>1, <1>4, <1>6, <1>9
      <3>2. q[1].op \notin {"save", "sAdd"}
        BY <1>4, <3>1, SecondOp
      <3> QED
        BY <1>7, <1>9, <2>2, <3>2, HeadIs DEF Uncreating, Saving
    <2>4. InStep(x)'
      BY <1>2, <1>7, <2>2, <2>3 DEF InStep, SaveReady, Uncreating
    <2>5. \A p \in tasks : Saving(p) => p.session # x.session
      BY <1>5, <2>2 DEF KeyInv, OneCreator, KeepsOff
    <2>6. \A y \in {x} : Harmless(y)
      BY <2>3, <2>4, <2>5 DEF Harmless
    <2>7. Replaces({t}, {x}) /\ \A y \in {t} : Leaves(y)
      BY <1>5, <1>6, <1>9, <2>1 DEF Replaces, DelSession, Continue, Rest
    <2> QED
      BY <1>3, <2>6, <2>7, PassiveKeeps
  <1> QED
    BY <1>8, <1>9

LEMMA RemoveKeeps ==
  ASSUME KeyInv, MaxSessionsPerUser \in Nat, NEW t \in tasks, TaskOk(t), removeUserSession(t)
  PROVE  KeyInv'
  <1>1. /\ sessions' = sessions /\ userSessions' = [userSessions EXCEPT ![t.user] = @ \ {t.session}]
        /\ IsNext(t, "sRem") /\ t.todo # <<>> /\ Head(t.todo).op = "sRem"
    BY DEF removeUserSession, IsNext
  <1>2. t.session \notin DOMAIN sessions
    BY <1>1 DEF KeyInv, TasksInStep, InStep
  <1>3. DOMAIN userSessions = VoiceUsers
    BY DEF KeyInv, KeysTyped
  <1>4. Shrinks
    BY <1>1 DEF Shrinks, KeyInv, KeysTyped
  <1>5. KeepsIndex
    BY <1>1, <1>2, <1>3 DEF KeepsIndex
  <1>6. t.todo \in Seq(Ops) /\ t.todo[1].op = "sRem"
    BY <1>1 DEF TaskOk
  <1>7. Leaves(t)
    BY <1>1, <1>6, UncreatingLeaves, HeadIs DEF Uncreating, Saving
  <1> QED
    BY <1>1, <1>4, <1>5, <1>6, <1>7, TailKeeps DEF removeUserSession

\* The new session enters the index.
LEMMA AddKeeps ==
  ASSUME KeyInv, MaxSessionsPerUser \in Nat, NEW t \in tasks, TaskOk(t), addUserSession(t)
  PROVE  KeyInv'
  <1>1. /\ sessions' = sessions
        /\ userSessions' = [userSessions EXCEPT ![Head(t.todo).to] = @ \cup {t.session}]
        /\ t.todo # <<>> /\ Head(t.todo).op = "sAdd"
    BY DEF addUserSession, IsNext
  <1>2. DOMAIN userSessions = VoiceUsers
    BY DEF KeyInv, KeysTyped
  <1>3. Shrinks /\ KeepsIndex
    BY <1>1, <1>2 DEF Shrinks, KeepsIndex, KeyInv, KeysTyped
  <1>4. t.todo \in Seq(Ops) /\ t.todo[1].op = "sAdd"
    BY <1>1 DEF TaskOk
  <1>5. ~Saving(t)
    BY <1>1, <1>4, HeadIs DEF Saving
  <1>6. ASSUME NEW u \in VoiceUsers, NEW s, AddingTo(t, s, u) PROVE s \in userSessions'[u]
    BY <1>1, <1>2, <1>6 DEF AddingTo
  <1>7. Leaves(t)
    BY <1>5, <1>6 DEF Leaves
  <1> QED
    BY <1>1, <1>3, <1>4, <1>7, TailKeeps DEF addUserSession

\* A copy is saved: of a document that is still there, or of the new session.
LEMMA SaveKeeps ==
  ASSUME KeyInv, MaxSessionsPerUser \in Nat, NEW t \in tasks, TaskOk(t), saveSession(t), disturbed = {}, disturbed' = {}
  PROVE  KeyInv'
  <1>0. KeysTyped /\ OneCreator /\ TasksInStep /\ Indexed /\ RoomLeft /\ InStep(t)
    BY DEF KeyInv, TasksInStep
  <1>1. /\ t.copy # <<>> /\ sessions' = Put(sessions, t.session, t.copy[1]) /\ userSessions' = userSessions
        /\ Continue(t, Tail(t.todo))
    BY DEF saveSession
  <1>2. t.todo \in Seq(Ops) /\ Orderly(t.todo) /\ t.todo # <<>> /\ t.todo[1].op \in Writes
    BY <1>0, <1>1 DEF TaskOk, CopyOk, InStep
  <1>3. PICK d : d = t.copy[1]
    OBVIOUS
  <1>4. /\ DOMAIN sessions' = DOMAIN sessions \cup {t.session} /\ sessions'[t.session] = d
        /\ \A s \in DOMAIN sessions : s # t.session => sessions'[s] = sessions[s]
    BY <1>1, <1>3 DEF Put
  <1>5. Document(d)
    BY <1>0, <1>1, <1>3 DEF InStep
  <1>6. CASE ~Saving(t)
    <2>1. t.todo[1].op # "save" /\ Head(t.todo).op # "save"
      BY <1>2, <1>6, HeadIs DEF Saving
    <2>2. t.session \in DOMAIN sessions
      BY <2>1 DEF saveSession
    <2>3. d.user = sessions[t.session].user
      BY <1>0, <1>1, <1>3, <2>2 DEF InStep
    <2>4. Shrinks
      BY <1>0, <1>4, <1>5, <2>2, <2>3 DEF Shrinks, KeysTyped
    <2>5. KeepsIndex
      BY <1>1 DEF KeepsIndex
    <2>6. t.todo[1].op \notin {"save", "find", "del"} /\ Loose(t.todo[1].op)
      BY <1>2, <2>1 DEF Writes, Loose
    <2>7. Leaves(t)
      BY <1>2, <2>6, LooseHead, UncreatingLeaves
    <2> QED
      BY <1>1, <1>2, <2>4, <2>5, <2>6, <2>7, TailKeeps
  <1>7. CASE Saving(t)
    <2>1. t.session \notin DOMAIN sessions
      BY <1>0, <1>7 DEF InStep
    <2>2. Len(t.todo) >= 2 /\ t.todo[2] = [op |-> "sAdd", to |-> d.user]
      BY <1>0, <1>3, <1>7 DEF InStep, SaveReady
    <2>3. PICK q : q = Tail(t.todo)
      OBVIOUS
    <2>4. q \in Seq(Ops) /\ Orderly(q) /\ q # <<>> /\ q[1] = t.todo[2] /\ Head(q) = t.todo[2]
      BY <1>2, <2>2, <2>3, OrderlyTail
    <2>5. PICK x : x = [t EXCEPT !.todo = q, !.copy = <<>>]
      OBVIOUS
    <2>6. x.todo = q /\ x.copy = <<>> /\ x.session = t.session
      BY <2>5 DEF TaskOk, TaskShape
    <2>7. tasks' = (tasks \ {t}) \cup {x}
      BY <1>1, <2>3, <2>4, <2>5 DEF Continue, Rest
    <2>8. AddingTo(x, t.session, d.user) /\ ~Saving(x) /\ ~IsNext(x, "del") /\ ~IsNext(x, "sRem")
      BY <2>2, <2>4, <2>6 DEF AddingTo, Saving, IsNext
    <2>9. ASSUME NEW p \in tasks, p # t, p.session = t.session
          PROVE  p.copy = <<>> /\ ~Saving(p) /\ ~IsNext(p, "sRem")
      <3>1. KeepsOff(p, t)
        BY <1>0, <1>7, <2>9 DEF OneCreator
      <3>2. InStep(p)
        BY <1>0 DEF TasksInStep
      <3> QED
        BY <2>9, <3>1, <3>2 DEF KeepsOff, InStep, SaveReady
    <2>10. KeysTyped'
      <3>1. IsFiniteSet(DOMAIN sessions')
        BY <1>0, <1>4, FS_AddElement DEF KeysTyped
      <3> QED
        BY <1>0, <1>1, <1>4, <1>5, <3>1 DEF KeysTyped
    <2>11. OneCreator'
      <3> SUFFICES ASSUME NEW y \in tasks', NEW p \in tasks', Saving(y), p # y PROVE KeepsOff(p, y)
        BY DEF OneCreator
      <3>1. y \in tasks /\ y # t
        BY <2>7, <2>8
      <3>2. CASE p \in tasks
        BY <1>0, <3>1, <3>2 DEF OneCreator
      <3>3. CASE p = x
        <4>1. p.copy = <<>> /\ ~Saving(p) /\ ~IsNext(p, "del") /\ ~IsNext(p, "sRem")
          BY <2>6, <2>8, <3>3
        <4> QED
          BY <4>1 DEF KeepsOff
      <3> QED
        BY <2>7, <3>2, <3>3
    <2>12. TasksInStep'
      <3> SUFFICES ASSUME NEW p \in tasks' PROVE InStep(p)'
        BY DEF TasksInStep
      <3>1. CASE p = x
        BY <2>4, <2>6, <2>8, <3>1 DEF InStep, SaveReady
      <3>2. CASE p # x
        <4>1. p \in tasks /\ p # t /\ InStep(p)
          BY <1>0, <2>7, <3>2 DEF TasksInStep
        <4>2. CASE p.session = t.session
          BY <2>9, <4>1, <4>2 DEF InStep
        <4>3. CASE p.session # t.session
          BY <1>4, <4>1, <4>3 DEF InStep
        <4> QED
          BY <4>2, <4>3
      <3> QED
        BY <3>1, <3>2
    <2>13. ASSUME NEW u PROVE OwnedBy(u)' = OwnedBy(u) \cup (IF u = d.user THEN {t.session} ELSE {})
      BY <1>4, <2>1 DEF OwnedBy
    <2>14. Indexed'
      <3> SUFFICES ASSUME NEW u \in VoiceUsers, NEW s \in OwnedBy(u)' PROVE IsIndexed(s, u)'
        BY DEF Indexed
      <3>1. CASE s = t.session /\ u = d.user
        BY <2>7, <2>8, <3>1 DEF IsIndexed
      <3>2. CASE s \in OwnedBy(u)
        <4>1. IsIndexed(s, u)
          BY <1>0, <3>2 DEF Indexed
        <4>2. \A p \in tasks : AddingTo(p, s, u) => p \in tasks'
          BY <1>7, <2>7 DEF AddingTo, Saving, IsNext
        <4> QED
          BY <1>1, <4>1, <4>2 DEF IsIndexed
      <3> QED
        BY <2>13, <3>1, <3>2
    <2>15. RoomLeft'
      <3> SUFFICES ASSUME NEW u \in VoiceUsers PROVE RoomFor(u)'
        BY DEF RoomLeft
      <3>1. RoomFor(u)
        BY <1>0 DEF RoomLeft
      <3>2. \A p \in tasks' : SaverFor(p, u) => p \in tasks /\ p # t
        BY <2>7, <2>8 DEF SaverFor
      <3>3. CASE u # d.user
        <4>1. OwnedBy(u)' = OwnedBy(u)
          BY <2>13, <3>3
        <4> QED
          BY <3>1, <3>2, <4>1 DEF RoomFor
      <3>4. CASE u = d.user
        <4>1. SaverFor(t, u)
          BY <1>3, <1>7, <3>4 DEF SaverFor
        <4>2. \A p \in tasks' : ~SaverFor(p, u)
          BY <1>0, <1>3, <1>7, <3>2, <3>4 DEF OneCreator, KeepsOff, SaverFor
        <4>3. PICK A : A = OwnedBy(u)
          OBVIOUS
        <4>4. A \subseteq DOMAIN sessions
          BY <4>3 DEF OwnedBy
        <4>5. IsFiniteSet(A) /\ t.session \notin A
          BY <1>0, <2>1, <4>4, FS_Subset DEF KeysTyped
        <4>6. Cardinality(A) < MaxSessionsPerUser
          BY <3>1, <4>1, <4>3 DEF RoomFor
        <4>7. Cardinality(A \cup {t.session}) = Cardinality(A) + 1 /\ Cardinality(A) \in Nat
          BY <4>5, FS_AddElement, FS_CardinalityType
        <4>8. OwnedBy(u)' = A \cup {t.session}
          BY <2>13, <3>4, <4>3
        <4>9. Cardinality(OwnedBy(u)') <= MaxSessionsPerUser
          BY <4>6, <4>7, <4>8
        <4> QED
          BY <4>2, <4>9 DEF RoomFor
      <3> QED
        BY <3>3, <3>4
    <2> QED
      BY <2>10, <2>11, <2>12, <2>14, <2>15 DEF KeyInv
  <1> QED
    BY <1>6, <1>7

\* The limit is checked: unless another creation for the owner is under way,
\* every session of the owner is in the index that is counted.
LEMMA CreateKeeps ==
  ASSUME KeyInv, MaxSessionsPerUser \in Nat, NEW t \in tasks, TasksOk, createSession(t), disturbed = {}, disturbed' = {}
  PROVE  KeyInv'
  <1>0. KeysTyped /\ OneCreator /\ TasksInStep /\ Indexed /\ RoomLeft /\ InStep(t)
    BY DEF KeyInv, TasksInStep
  <1>a. TaskOk(t)
    BY DEF TasksOk
  <1>1. sessions' = sessions /\ userSessions' = userSessions /\ t.todo # <<>> /\ Head(t.todo).op = "create"
    BY DEF createSession, keyVars, IsNext
  <1>2. Shrinks /\ KeepsIndex
    BY <1>1, SameKeys
  <1>3. t.todo \in Seq(Ops) /\ Orderly(t.todo) /\ t.todo[1].op = "create"
    BY <1>0, <1>1, <1>a DEF TaskOk, InStep
  <1>4. Uncreating(t) /\ Leaves(t)
    BY <1>3, LooseHead, UncreatingLeaves DEF Loose
  <1>5. PICK owner : owner = Head(t.todo).to
    OBVIOUS
  <1>6. CASE LimitReached(owner)
    <2>1. Continue(t, <<>>)
      BY <1>5, <1>6 DEF createSession
    <2> QED
      BY <1>2, <1>4, <1>a, <2>1, EndKeeps
  <1>7. CASE ~LimitReached(owner)
    <2>1. PICK s \in VoiceIds :
             /\ \A p \in tasks : p.session # s
             /\ s \notin DOMAIN sessions
             /\ tasks' = (tasks \ {t}) \cup
                  {[t EXCEPT !.session = s, !.copy = <<VoiceSession(owner)>>,
                             !.todo = <<Do("save"), [op |-> "sAdd", to |-> owner]>> \o Tail(t.todo)]}
      BY <1>5, <1>7 DEF createSession
    <2>2. Creating(owner) = {}
      BY <1>5, <1>7 DEF createSession
    <2>3. PICK a, b : a = Do("save") /\ b = [op |-> "sAdd", to |-> owner]
      OBVIOUS
    <2>4. a.op = "save" /\ b.op = "sAdd" /\ b.to = owner
      BY <2>3 DEF Do
    <2>5. PICK q : q = <<a, b>> \o Tail(t.todo)
      OBVIOUS
    <2>6. Orderly(q)
      BY <1>1, <1>3, <2>4, <2>5, OrderlyCreate
    <2>7. q # <<>> /\ Head(q) = a /\ Len(q) >= 2 /\ q[2] = b
      BY <1>1, <1>3, <2>5
    <2>8. PICK x : x = [t EXCEPT !.session = s, !.copy = <<VoiceSession(owner)>>, !.todo = q]
      OBVIOUS
    <2>9. x.todo = q /\ x.session = s /\ x.copy = <<VoiceSession(owner)>>
      BY <1>a, <2>8 DEF TaskOk, TaskShape
    <2>10. x.copy # <<>> /\ x.copy[1] = VoiceSession(owner) /\ x.copy[1].user = owner /\ Document(x.copy[1])
      BY <2>9 DEF VoiceSession, Document
    <2>11. tasks' = (tasks \ {t}) \cup {x}
      BY <2>1, <2>3, <2>5, <2>8
    <2>12. Saving(x) /\ ~IsNext(x, "sRem") /\ ~IsNext(x, "del")
      BY <2>4, <2>7, <2>9 DEF Saving, IsNext
    <2>13. InStep(x)'
      BY <1>1, <2>1, <2>3, <2>6, <2>7, <2>9, <2>10, <2>12 DEF InStep, SaveReady
    <2>14. \A p \in tasks : ~SaverFor(p, owner) /\ \A z : ~AddingTo(p, z, owner)
      <3> SUFFICES ASSUME NEW p \in tasks PROVE ~SaverFor(p, owner) /\ \A z : ~AddingTo(p, z, owner)
        OBVIOUS
      <3>1. \A i \in DOMAIN p.todo : p.todo[i] # [op |-> "sAdd", to |-> owner]
        BY <2>2 DEF Creating
      <3>2. InStep(p) /\ p.todo \in Seq(Ops)
        BY <1>0 DEF TasksInStep, TasksOk, TaskOk
      <3>3. ~SaverFor(p, owner)
        <4>1. SUFFICES ASSUME SaverFor(p, owner) PROVE FALSE
          OBVIOUS
        <4>2. Len(p.todo) >= 2 /\ p.todo[2] = [op |-> "sAdd", to |-> owner]
          BY <3>2, <4>1 DEF InStep, SaveReady, SaverFor
        <4>3. 2 \in DOMAIN p.todo
          BY <3>2, <4>2
        <4> QED
          BY <3>1, <4>2, <4>3
      <3>4. ASSUME NEW z, AddingTo(p, z, owner) PROVE FALSE
        <4>1. p.todo # <<>> /\ Head(p.todo).op = "sAdd" /\ Head(p.todo).to = owner
          BY <3>4 DEF AddingTo, IsNext
        <4>2. 1 \in DOMAIN p.todo /\ p.todo[1] = Head(p.todo) /\ Head(p.todo) \in Ops
          BY <3>2, <4>1
        <4>3. Head(p.todo) = [op |-> "sAdd", to |-> owner]
          BY <4>1, <4>2 DEF Ops
        <4> QED
          BY <3>1, <4>2, <4>3
      <3> QED
        BY <3>3, <3>4
    <2>15. OneCreator'
      <3> SUFFICES ASSUME NEW y \in tasks', NEW p \in tasks', Saving(y), p # y PROVE KeepsOff(p, y)
        BY DEF OneCreator
      <3>1. CASE y = x
        <4>1. p \in tasks
          BY <2>11, <3>1
        <4>2. p.session # y.session
          BY <2>1, <2>9, <3>1, <4>1
        <4>3. Saving(p) => p.copy[1].user # y.copy[1].user
          BY <2>10, <2>14, <3>1, <4>1 DEF SaverFor
        <4> QED
          BY <4>2, <4>3 DEF KeepsOff
      <3>2. CASE y # x
        <4>1. y \in tasks
          BY <2>11, <3>2
        <4>2. CASE p \in tasks
          BY <1>0, <4>1, <4>2 DEF OneCreator
        <4>3. CASE p = x
          <5>1. p.session # y.session
            BY <2>1, <2>9, <4>1, <4>3
          <5>2. p.copy[1].user # y.copy[1].user
            BY <2>10, <2>14, <4>1, <4>3 DEF SaverFor
          <5> QED
            BY <5>1, <5>2 DEF KeepsOff
        <4> QED
          BY <2>11, <4>2, <4>3
      <3> QED
        BY <3>1, <3>2
    <2>16. TasksInStep'
      <3> SUFFICES ASSUME NEW p \in tasks' PROVE InStep(p)'
        BY DEF TasksInStep
      <3>1. CASE p = x
        BY <2>13, <3>1
      <3>2. CASE p \in tasks
        BY <1>0, <1>1, <3>2 DEF TasksInStep, InStep
      <3> QED
        BY <2>11, <3>1, <3>2
    <2>17. ASSUME NEW u PROVE OwnedBy(u)' = OwnedBy(u)
      BY <1>1 DEF OwnedBy
    <2>18. Indexed'
      <3> SUFFICES ASSUME NEW u \in VoiceUsers, NEW z \in OwnedBy(u)' PROVE IsIndexed(z, u)'
        BY DEF Indexed
      <3>1. IsIndexed(z, u)
        BY <1>0, <2>17 DEF Indexed
      <3>2. \A p \in tasks : AddingTo(p, z, u) => p \in tasks'
        BY <1>4, <2>11 DEF AddingTo, Uncreating
      <3> QED
        BY <1>1, <3>1, <3>2 DEF IsIndexed
    <2>19. RoomLeft'
      <3> SUFFICES ASSUME NEW u \in VoiceUsers PROVE RoomFor(u)'
        BY DEF RoomLeft
      <3>1. RoomFor(u) /\ OwnedBy(u)' = OwnedBy(u)
        BY <1>0, <2>17 DEF RoomLeft
      <3>2. CASE u # owner
        <4>1. \A p \in tasks' : SaverFor(p, u) => p \in tasks
          BY <2>10, <2>11, <3>2 DEF SaverFor
        <4> QED
          BY <3>1, <4>1 DEF RoomFor
      <3>3. CASE u = owner
        <4>1. PICK A, B : A = OwnedBy(u) /\ B = getUserActiveSessions(u)
          OBVIOUS
        <4>2. A \subseteq B
          <5> SUFFICES ASSUME NEW z \in A PROVE z \in B
            OBVIOUS
          <5>1. z \in DOMAIN sessions /\ IsIndexed(z, u)
            BY <1>0, <4>1 DEF Indexed, OwnedBy
          <5>2. z \in userSessions[u]
            BY <2>14, <3>3, <5>1 DEF IsIndexed
          <5> QED
            BY <4>1, <5>1, <5>2 DEF getUserActiveSessions
        <4>3. B \subseteq DOMAIN sessions
          BY <4>1 DEF getUserActiveSessions
        <4>4. IsFiniteSet(B)
          BY <1>0, <4>3, FS_Subset DEF KeysTyped
        <4>5. Cardinality(A) <= Cardinality(B) /\ Cardinality(A) \in Nat /\ Cardinality(B) \in Nat
          BY <4>2, <4>4, FS_Subset, FS_CardinalityType
        <4>6. ~(Cardinality(B) >= MaxSessionsPerUser)
          BY <1>7, <3>3, <4>1 DEF LimitReached
        <4>7. Cardinality(A) < MaxSessionsPerUser /\ Cardinality(A) <= MaxSessionsPerUser
          BY <4>5, <4>6
        <4> QED
          BY <3>1, <4>1, <4>7 DEF RoomFor
      <3> QED
        BY <3>2, <3>3
    <2>20. KeysTyped'
      BY <1>0, <1>1 DEF KeysTyped
    <2> QED
      BY <2>15, <2>16, <2>18, <2>19, <2>20 DEF KeyInv
  <1> QED
    BY <1>6, <1>7

-----------------------------------------------------------------------------
\* Requests.  What their handlers have to do begins neither a creation nor a
\* removal in its middle.
AllLoose(q) == \A i \in DOMAIN q : Loose(q[i].op)

LEMMA LooseOrderly ==
  ASSUME NEW q \in Seq(Ops), AllLoose(q)
  PROVE  Orderly(q)
  BY DEF AllLoose, Orderly, Loose

BeginsWell(q) == q \in Seq(Ops) /\ q # <<>> /\ Orderly(q) /\ Loose(q[1].op)

LEMMA LooseBegins ==
  ASSUME NEW q \in Seq(Ops), q # <<>>, AllLoose(q)
  PROVE  BeginsWell(q)
  <1>1. Orderly(q)
    BY LooseOrderly
  <1>2. 1 \in DOMAIN q
    OBVIOUS
  <1> QED
    BY <1>1, <1>2 DEF BeginsWell, AllLoose

LEMMA LooseConcat ==
  ASSUME NEW p \in Seq(Ops), NEW q \in Seq(Ops), AllLoose(p), AllLoose(q)
  PROVE  p \o q \in Seq(Ops) /\ AllLoose(p \o q)
  BY DEF AllLoose

LEMMA StartsAnew ==
  ASSUME KeyInv, MaxSessionsPerUser \in Nat, NEW todo, BeginsWell(todo),
         NEW u, NEW s, NEW i, StartOn(u, s, i, todo)
  PROVE  KeyInv'
  <1>1. sessions' = sessions /\ userSessions' = userSessions /\ tasks' = tasks \cup {Task(calls + 1, u, s, i, todo)}
    BY DEF StartOn, keyVars
  <1>2. Shrinks /\ KeepsIndex
    BY <1>1, SameKeys
  <1>3. PICK x : x = Task(calls + 1, u, s, i, todo)
    OBVIOUS
  <1>4. x.todo = todo /\ x.copy = <<>>
    BY <1>3 DEF Task
  <1>5. \A y \in {x} : Harmless(y)
    BY <1>4, LooseHarmless DEF BeginsWell
  <1>6. Replaces({}, {x}) /\ \A y \in {} : Leaves(y)
    BY <1>1, <1>3 DEF Replaces
  <1> QED
    BY <1>2, <1>5, <1>6, PassiveKeeps

LEMMA LooseOps ==
  /\ \A o \in {"resume", "setActive", "delActive", "owner", "stream", "generate", "llm", "chunk", "complete", "forget",
               "interruptStreams", "message", "socket", "ping", "find", "clear"} : Do(o) \in Ops /\ Loose(Do(o).op)
  /\ \A to \in ConversationStates : updateSessionState(to) \in Ops /\ Loose(updateSessionState(to).op)
  <1>1. ASSUME NEW o \in {"resume", "setActive", "delActive", "owner", "stream", "generate", "llm", "chunk", "complete",
                          "forget", "interruptStreams", "message", "socket", "ping", "find", "clear"}
        PROVE  Do(o) \in Ops /\ Loose(Do(o).op)
    BY DoOps DEF OpNames, Writes, Loose
  <1>2. ASSUME NEW to \in ConversationStates PROVE updateSessionState(to) \in Ops /\ Loose(updateSessionState(to).op)
    BY StateOps DEF Loose
  <1> QED
    BY <1>1, <1>2

LEMMA LooseLists ==
  /\ BeginsWell(<<updateSessionSocket, Do("resume"), Do("setActive")>>)
  /\ BeginsWell(<<updateSessionState("IDLE"), Do("delActive")>>)
  /\ BeginsWell(<<updateSessionSocket, Do("setActive")>>)
  /\ BeginsWell(<<updateSessionSocket, updateLastPingAt>>)
  /\ BeginsWell(<<InterruptStreams>>)
  /\ BeginsWell(<<Do("owner")>> \o startStreamingResponse)
  /\ BeginsWell(generateStreamingResponse \o completeStreamingResponse)
  <1>1. \A o \in {"resume", "setActive", "delActive", "owner", "stream", "generate", "llm", "chunk", "complete", "forget",
                  "interruptStreams", "message", "socket", "ping"} : Do(o) \in Ops /\ Loose(Do(o).op)
    BY LooseOps
  <1>2. \A to \in {"IDLE", "THINKING", "RESPONDING", "LISTENING"} :
          updateSessionState(to) \in Ops /\ Loose(updateSessionState(to).op)
    BY LooseOps DEF ConversationStates
  <1>3. /\ updateSessionSocket \in Ops /\ Loose(updateSessionSocket.op)
        /\ updateLastPingAt \in Ops /\ Loose(updateLastPingAt.op)
        /\ InterruptStreams \in Ops /\ Loose(InterruptStreams.op)
        /\ addMessage \in Ops /\ Loose(addMessage.op)
    BY <1>1 DEF updateSessionSocket, updateLastPingAt, InterruptStreams, addMessage
  <1> DEFINE Good == {o \in Ops : Loose(o.op)}
  <1>4. ASSUME NEW q \in Seq(Good) PROVE q \in Seq(Ops) /\ AllLoose(q)
    <2>1. q \in Seq(Ops)
      OBVIOUS
    <2>2. \A i \in DOMAIN q : q[i] \in Good
      OBVIOUS
    <2> QED
      BY <2>1, <2>2 DEF AllLoose
  <1>5. /\ <<updateSessionSocket, Do("resume"), Do("setActive")>> \in Seq(Good)
        /\ <<updateSessionState("IDLE"), Do("delActive")>> \in Seq(Good)
        /\ <<updateSessionSocket, Do("setActive")>> \in Seq(Good)
        /\ <<updateSessionSocket, updateLastPingAt>> \in Seq(Good)
        /\ <<InterruptStreams>> \in Seq(Good) /\ <<Do("owner")>> \in Seq(Good)
    BY <1>1, <1>2, <1>3
  <1>6. startStreamingResponse \in Seq(Good) /\ generateStreamingResponse \in Seq(Good) /\ completeStreamingResponse \in Seq(Good)
    BY <1>1, <1>2, <1>3 DEF startStreamingResponse, generateStreamingResponse, completeStreamingResponse
  <1>7. <<Do("owner")>> \o startStreamingResponse # <<>> /\ generateStreamingResponse \o completeStreamingResponse # <<>>
    <2>1. startStreamingResponse \in Seq(Ops) /\ generateStreamingResponse \in Seq(Ops) /\ completeStreamingResponse \in Seq(Ops)
      BY <1>4, <1>6
    <2>2. generateStreamingResponse # <<>>
      BY DEF generateStreamingResponse
    <2> QED
      BY <1>4, <1>5, <2>1, <2>2
  <1> HIDE DEF Good
  <1> QED
    BY <1>4, <1>5, <1>6, <1>7, LooseBegins, LooseConcat

LEMMA TerminateLists ==
  BeginsWell(terminateOps) /\ BeginsWell(<<InterruptStreams>> \o terminateOps \o <<Do("delActive")>>)
  <1>1. PICK a, b, c, d, e, f : /\ a = InterruptStreams /\ b = Do("find") /\ c = Do("del") /\ d = Do("sRem")
                                /\ e = Do("clear") /\ f = Do("delActive")
    OBVIOUS
  <1>2. a \in Ops /\ b \in Ops /\ c \in Ops /\ d \in Ops /\ e \in Ops /\ f \in Ops
    BY <1>1, DoOps DEF OpNames, InterruptStreams
  <1>3. a.op = "interruptStreams" /\ b.op = "find" /\ c.op = "del" /\ d.op = "sRem" /\ e.op = "clear" /\ f.op = "delActive"
    BY <1>1 DEF Do, InterruptStreams
  <1>4. terminateOps = <<b, c, d, e>>
    BY <1>1 DEF terminateOps
  <1>5. PICK q : q = <<a>> \o <<b, c, d, e>> \o <<f>>
    OBVIOUS
  <1>6. BeginsWell(<<b, c, d, e>>)
    BY <1>2, <1>3 DEF BeginsWell, Orderly, Loose
  <1>7. BeginsWell(q)
    <2>3. <<a>> \o <<b, c, d, e>> \in Seq(Ops) /\ Len(<<a>> \o <<b, c, d, e>>) = 5
      BY <1>2
    <2>4. q \in Seq(Ops) /\ Len(q) = 6
      BY <1>2, <1>5, <2>3
    <2>5. q[1] = a /\ q[2] = b /\ q[3] = c /\ q[4] = d /\ q[5] = e /\ q[6] = f
      BY <1>2, <1>5, <2>3
    <2>6. DOMAIN q = 1 .. 6 /\ q # <<>>
      BY <2>4
    <2>7. Orderly(q)
      BY <1>3, <2>5, <2>6 DEF Orderly
    <2> QED
      BY <1>3, <2>4, <2>5, <2>6, <2>7 DEF BeginsWell, Loose
  <1> QED
    BY <1>1, <1>4, <1>5, <1>6, <1>7

LEMMA RequestsKeep ==
  ASSUME KeyInv, MaxSessionsPerUser \in Nat,
         \/ \E u \in VoiceUsers :
              \/ \E s \in VoiceIds : handleConnection(u, s) \/ handleDisconnect(u, s)
              \/ \E owner \in VoiceUsers : createSessionRequest(u, owner)
              \/ handleMessage(u) \/ handleTerminate(u) \/ handlePing(u)
              \/ \E i \in StreamIds \cup {AllStreams} : handleInterrupt(u, i)
              \/ \E to \in ConversationStates :
                   handleSessionAction(u, <<>>, to) \/ handleSessionAction(u, <<InterruptStreams>>, to)
         \/ \E s \in VoiceIds : performCleanup(s)
  PROVE  KeyInv'
  <1> DEFINE Begins == \E u, s, i, todo : BeginsWell(todo) /\ StartOn(u, s, i, todo)
  <1>0. ASSUME NEW u, NEW s, NEW todo, BeginsWell(todo), Start(u, s, todo) PROVE Begins
    BY <1>0 DEF Start
  <1>1. ASSUME NEW u, \E s \in VoiceIds : handleConnection(u, s) \/ handleDisconnect(u, s) PROVE Begins
    BY <1>0, <1>1, LooseLists DEF handleConnection, handleDisconnect
  <1>2. ASSUME NEW u, NEW owner \in VoiceUsers, createSessionRequest(u, owner) PROVE Begins
    <2>1. PICK o, p, r : o = [op |-> "create", to |-> owner] /\ p = updateSessionSocket /\ r = Do("setActive")
      OBVIOUS
    <2>2. o \in Ops /\ o.op = "create"
      BY <2>1 DEF Ops, OpNames
    <2>3. p \in Ops /\ r \in Ops /\ p.op = "socket" /\ r.op = "setActive"
      BY <2>1, DoOps DEF OpNames, Writes, updateSessionSocket
    <2>4. BeginsWell(<<o, p, r>>)
      BY <2>2, <2>3 DEF BeginsWell, Orderly, Loose
    <2>5. \/ \E s : Start(u, s, <<updateSessionSocket, Do("setActive")>>)
          \/ Start(u, NoSession, <<o, p, r>>)
      BY <1>2, <2>1 DEF createSessionRequest
    <2> QED
      BY <1>0, <2>4, <2>5, LooseLists
  <1>3. ASSUME NEW u, handleMessage(u) \/ handleTerminate(u) \/ handlePing(u) PROVE Begins
    BY <1>0, <1>3, LooseLists, TerminateLists DEF handleMessage, handleTerminate, handlePing, WithActive
  <1>4. ASSUME NEW u, \E i \in StreamIds \cup {AllStreams} : handleInterrupt(u, i) PROVE Begins
    BY <1>4, LooseLists DEF handleInterrupt
  <1>5. ASSUME NEW u, NEW to \in ConversationStates, NEW first \in {<<>>, <<InterruptStreams>>},
               handleSessionAction(u, first, to)
        PROVE  Begins
    <2>1. PICK o, a : o = updateSessionState(to) /\ a = InterruptStreams
      OBVIOUS
    <2>2. o \in Ops /\ Loose(o.op) /\ a \in Ops /\ Loose(a.op)
      BY <2>1, LooseOps DEF InterruptStreams
    <2>4. BeginsWell(first \o <<o>>)
      <3>1. <<>> \in Seq(Ops) /\ <<a>> \in Seq(Ops) /\ <<o>> \in Seq(Ops)
        BY <2>2
      <3>2. AllLoose(<<>>) /\ AllLoose(<<a>>) /\ AllLoose(<<o>>)
        BY <2>2 DEF AllLoose
      <3>3. first \in Seq(Ops) /\ AllLoose(first)
        BY <2>1, <3>1, <3>2
      <3>4. PICK q : q = first \o <<o>>
        OBVIOUS
      <3>5. q \in Seq(Ops) /\ AllLoose(q)
        BY <3>1, <3>2, <3>3, <3>4, LooseConcat
      <3>6. q # <<>>
        BY <3>1, <3>3, <3>4
      <3> QED
        BY <3>4, <3>5, <3>6, LooseBegins
    <2>5. \E s : Start(u, s, first \o <<o>>)
      BY <1>5, <2>1 DEF handleSessionAction, WithActive
    <2> QED
      BY <1>0, <2>4, <2>5
  <1>6. ASSUME NEW s \in VoiceIds, performCleanup(s) PROVE Begins
    BY <1>0, <1>6, TerminateLists DEF performCleanup, cleanupStaleSessions, cleanupExpiredSessions
  <1>7. Begins
    BY <1>1, <1>2, <1>3, <1>4, <1>5, <1>6
  <1> QED
    BY <1>7, StartsAnew

\* The generation of an answer is a handler like the others.
LEMMA RegisterKeeps ==
  ASSUME KeyInv, MaxSessionsPerUser \in Nat, NEW t \in tasks, TaskOk(t), RegisterStream(t)
  PROVE  KeyInv'
  <1>1. sessions' = sessions /\ userSessions' = userSessions /\ t.todo # <<>> /\ Head(t.todo).op = "stream"
    BY DEF RegisterStream, keyVars, IsNext
  <1>2. Shrinks /\ KeepsIndex
    BY <1>1, SameKeys
  <1>3. PICK q : q = generateStreamingResponse \o completeStreamingResponse
    OBVIOUS
  <1>4. PICK x : x = Task(t.id, t.user, t.session, AllStreams, q)
    OBVIOUS
  <1>5. x.todo = q /\ x.copy = <<>>
    BY <1>4 DEF Task
  <1>6. BeginsWell(q)
    BY <1>3, LooseLists
  <1>7. \A y \in {x} : Harmless(y)
    BY <1>5, <1>6, LooseHarmless DEF BeginsWell
  <1>8. t.todo \in Seq(Ops) /\ Loose(t.todo[1].op)
    BY <1>1 DEF TaskOk, Loose
  <1>9. Leaves(t)
    BY <1>8, LooseHead, UncreatingLeaves
  <1>10. Replaces({t}, {x}) /\ \A y \in {t} : Leaves(y)
    BY <1>3, <1>4, <1>9 DEF Replaces, RegisterStream
  <1> QED
    BY <1>2, <1>7, <1>10, PassiveKeeps

LEMMA ExpiryKeeps ==
  ASSUME KeyInv, MaxSessionsPerUser \in Nat, ExpireKey, disturbed = {}, disturbed' = {}
  PROVE  KeyInv'
  <1>1. tasks' = tasks /\ userSessions' = userSessions
    BY DEF ExpireKey
  <1>2. sessions' = sessions \/ \E s \in DOMAIN sessions : sessions' = Drop(sessions, {s})
    BY DEF ExpireKey
  <1>3. DOMAIN sessions' \subseteq DOMAIN sessions /\ \A s \in DOMAIN sessions' : sessions'[s] = sessions[s]
    BY <1>2 DEF Drop
  <1>4. Shrinks /\ KeepsIndex
    BY <1>1, <1>3 DEF Shrinks, KeepsIndex, KeyInv, KeysTyped
  <1>5. Replaces({}, {}) /\ (\A y \in {} : Leaves(y)) /\ \A y \in {} : Harmless(y)
    BY <1>1 DEF Replaces
  <1> QED
    BY <1>4, <1>5, PassiveKeeps

\* Nothing takes back what disturbed the limit.
LEMMA DisturbanceStays ==
  ASSUME [VoiceNext]_voiceVars
  PROVE  disturbed \subseteq disturbed'
  BY DEF VoiceNext, voiceVars, ReadSession, saveSession, resumeSession, interruptSession, FindSession, DelSession,
         removeUserSession, clearUserActiveSessionIfMatches, deleteUserActiveSession, setUserActiveSession,
         createSession, addUserSession, RegisterStream, CheckStream, SendChunk, ForgetStream, interruptStream,
         CheckOwner, CallLlm, handleConnection, handleDisconnect, createSessionRequest, handleMessage, handleTerminate,
         handlePing, handleInterrupt, handleSessionAction, WithActive, Start, StartOn, performCleanup,
         cleanupStaleSessions, cleanupExpiredSessions, ExpireKey

\* The session limit holds as long as no two creations of a user overlap, no index
\* expires before its sessions and no stale save brings a session back: whatever
\* handlers, cleanups and expiries come between the check of the limit, the save
\* of the document and its entry in the index.
THEOREM SessionsWithinLimit ==
  ASSUME MaxCalls \in Nat, MaxSessionsPerUser \in Nat
  PROVE  VoiceSpec => []SessionLimit
  <1> DEFINE Inv == StreamInv /\ (disturbed = {} => KeyInv)
  <1>1. VoiceInit => Inv
    <2> SUFFICES ASSUME VoiceInit PROVE Inv
      OBVIOUS
    <2>1. StreamInv
      BY StreamsBegin
    <2>2. sessions = <<>> /\ userSessions = [u \in VoiceUsers |-> {}] /\ tasks = {}
      BY DEF VoiceInit
    <2>3. DOMAIN sessions = {}
      BY <2>2
    <2>4. KeysTyped
      BY <2>2, <2>3, FS_EmptySet DEF KeysTyped
    <2>5. OneCreator /\ TasksInStep
      BY <2>2 DEF OneCreator, TasksInStep
    <2>6. \A u : OwnedBy(u) = {}
      BY <2>3 DEF OwnedBy
    <2>7. Indexed
      BY <2>6 DEF Indexed
    <2>8. RoomLeft
      <3>1. Cardinality({}) = 0 /\ 0 <= MaxSessionsPerUser
        BY FS_EmptySet
      <3> QED
        BY <2>2, <2>6, <3>1 DEF RoomLeft, RoomFor
    <2> QED
      BY <2>1, <2>4, <2>5, <2>7, <2>8 DEF KeyInv
  <1>2. Inv /\ [VoiceNext]_voiceVars => Inv'
    <2> SUFFICES ASSUME Inv, [VoiceNext]_voiceVars, disturbed' = {} PROVE KeyInv'
      BY StreamsStep
    <2>1. disturbed = {}
      BY DisturbanceStays
    <2>2. KeyInv /\ StreamInv /\ TasksOk
      BY <2>1 DEF StreamInv
    <2>3. CASE UNCHANGED voiceVars
      BY <2>2, <2>3 DEF voiceVars, keyVars, KeyInv, KeysTyped, OneCreator, TasksInStep, InStep, Indexed, IsIndexed,
                        OwnedBy, RoomLeft, RoomFor
    <2>4. ASSUME NEW t \in tasks,
                 \/ ReadSession(t) \/ saveSession(t) \/ resumeSession(t) \/ interruptSession(t)
                 \/ FindSession(t) \/ DelSession(t) \/ removeUserSession(t) \/ clearUserActiveSessionIfMatches(t)
                 \/ deleteUserActiveSession(t) \/ setUserActiveSession(t) \/ createSession(t) \/ addUserSession(t)
                 \/ RegisterStream(t) \/ CheckStream(t) \/ SendChunk(t) \/ ForgetStream(t) \/ interruptStream(t)
                 \/ CheckOwner(t) \/ \E ok \in BOOLEAN : CallLlm(t, ok)
          PROVE  KeyInv'
      <3>1. TaskOk(t)
        BY <2>2 DEF TasksOk
      <3> QED
        BY <2>1, <2>2, <2>4, <3>1, ReadKeeps, SaveKeeps, LookingSteps, FindKeeps, DelKeeps, RemoveKeeps, CreateKeeps,
           AddKeeps, RegisterKeeps
    <2>5. CASE ExpireKey
      BY <2>1, <2>2, <2>5, ExpiryKeeps
    <2> QED
      BY <2>2, <2>3, <2>4, <2>5, RequestsKeep DEF VoiceNext
  <1>3. Inv => SessionLimit
    BY DEF KeyInv, RoomLeft, RoomFor, OwnedBy, SessionLimit
  <1> QED
    BY <1>1, <1>2, <1>3, PTL DEF VoiceSpec

-----------------------------------------------------------------------------
(* The job queue.  requeueFromDLQ copies letters by position and trims by   *)
(* count, while other jobs die.  Exact says what makes that right: the      *)
(* letters a request still has to add are those that follow the ones it     *)
(* added, and those are the front of the queue.                             *)

\* What the code's options and query parameters are.
QueueConstants ==
  /\ MaxJobs \in Nat /\ MaxRequests \in Nat /\ Limits \subseteq Nat
  /\ DeployAttempts \in Nat /\ TtsAttempts \in Nat /\ NewsAttempts \in Nat

Dead == {"failed", "removed"}
Injective(q) == \A i, k \in DOMAIN q : q[i] = q[k] => i = k

Holds(q, j) == \E i \in DOMAIN q : q[i] = j
\* Queue p has only elements of q;
From(p, q) == \A i \in DOMAIN p : \E k \in DOMAIN q : p[i] = q[k]
\* or those of q and j after them;
Grown(p, q, j) ==
  /\ DOMAIN p = DOMAIN q \cup {Len(q) + 1} /\ p[Len(q) + 1] = j
  /\ \A i \in DOMAIN q : p[i] = q[i]
\* or those of q that were not added again.
NotYetAdded(p, q, again) ==
  /\ \A i \in DOMAIN p : again[p[i]] = 0
  /\ \A k \in DOMAIN q : again[q[k]] = 1 \/ \E i \in DOMAIN p : p[i] = q[k]

\* Jobs are numbered in the order in which they were added.
JobsInv ==
  /\ \E n \in 0 .. MaxJobs : DOMAIN jobs = 1 .. n
  /\ \A j \in DOMAIN jobs : jobs[j] \in JobType

\* A job is pushed after its last attempt and never again.
LettersInv ==
  /\ pushing \subseteq DOMAIN jobs /\ letters \subseteq DOMAIN jobs
  /\ \A j \in pushing \cup letters : jobs[j].state \in Dead
  /\ \A j \in pushing : j \notin letters
  /\ dlq \in Seq(JobIds) /\ Injective(dlq)
  /\ \A i \in DOMAIN dlq : dlq[i] \in letters

\* A request that adds letters: those it added are the front of the queue, those
\* it still has to add come next.
Matches(q, x, again) ==
  /\ x.added + Len(x.rest) <= Len(q)
  /\ \A k \in 1 .. Len(x.rest) : x.rest[k] = q[x.added + k]
  /\ \A i \in DOMAIN q : again[q[i]] = (IF i <= x.added THEN 1 ELSE 0)

Exact(q, reqs, lets, again) ==
  /\ \A r, p \in RequestIds : reqs[r].pc = "adding" /\ reqs[p].pc = "adding" => r = p
  /\ \A r \in RequestIds : reqs[r].pc = "adding" => Matches(q, reqs[r], again)
  /\ (\A r \in RequestIds : reqs[r].pc # "adding") => \A i \in DOMAIN q : again[q[i]] = 0
  /\ \A j \in lets : (\E i \in DOMAIN q : q[i] = j) \/ again[j] = 1
  /\ \A j \in JobIds : j \notin lets => again[j] = 0

RequestsInv ==
  /\ requests \in [RequestIds -> RequestType] /\ requeued \in [JobIds -> Nat]
  /\ \A r \in RequestIds : \A k \in DOMAIN requests[r].rest : requests[r].rest[k] \in letters
  /\ ~addFailed /\ ~overlapped => Exact(dlq, requests, letters, requeued)

QueueInv == JobsInv /\ LettersInv /\ RequestsInv

-----------------------------------------------------------------------------
\* The promise follows.
LEMMA ExactIsOnce ==
  ASSUME QueueInv, QueueConstants PROVE LettersRequeuedOnce
  <1> SUFFICES ASSUME ~addFailed, ~overlapped, NEW j \in letters
               PROVE  (InQueue(j) \/ requeued[j] = 1) /\ requeued[j] <= 1
    BY DEF LettersRequeuedOnce
  <1>1. Exact(dlq, requests, letters, requeued)
    BY DEF QueueInv, RequestsInv
  <1>2. InQueue(j) \/ requeued[j] = 1
    BY <1>1 DEF Exact, InQueue
  <1>3. CASE InQueue(j)
    <2>1. PICK i \in DOMAIN dlq : dlq[i] = j
      BY <1>3 DEF InQueue
    <2>2. requeued[dlq[i]] \in {0, 1}
      <3>1. CASE \A r \in RequestIds : requests[r].pc # "adding"
        BY <1>1, <3>1 DEF Exact
      <3>2. CASE \E r \in RequestIds : requests[r].pc = "adding"
        BY <1>1, <3>2 DEF Exact, Matches
      <3> QED
        BY <3>1, <3>2
    <2> QED
      BY <1>3, <2>1, <2>2
  <1> QED
    BY <1>2, <1>3

\* queue.add gives a new number.
LEMMA NewJob ==
  ASSUME QueueConstants, JobsInv, NEW valid \in BOOLEAN, NEW attempts \in Nat,
         QueueAdd(valid, attempts)
  PROVE  /\ JobsInv'
         /\ DOMAIN jobs \subseteq DOMAIN jobs' /\ \A j \in DOMAIN jobs : jobs'[j] = jobs[j]
  <1>1. PICK n \in 0 .. MaxJobs : DOMAIN jobs = 1 .. n
    BY DEF JobsInv
  <1>2. n \in Nat /\ MaxJobs \in Nat
    BY <1>1 DEF QueueConstants
  <1>3. Cardinality(DOMAIN jobs) = n
    BY <1>1, <1>2, FS_Interval
  <1>4. NextId = n + 1 /\ n + 1 \in 1 .. MaxJobs
    BY <1>2, <1>3 DEF QueueAdd, NextId, JobIds
  <1>5. PICK new : new = [valid |-> valid, attempts |-> attempts, made |-> 0, state |-> "waiting"]
    OBVIOUS
  <1>6. new \in JobType
    BY <1>5 DEF JobType
  <1>7. jobs' = [j \in DOMAIN jobs \cup {n + 1} |-> IF j = n + 1 THEN new ELSE jobs[j]]
    BY <1>4, <1>5 DEF QueueAdd
  <1>8. DOMAIN jobs' = 1 .. (n + 1)
    BY <1>1, <1>2, <1>7
  <1>9. \A j \in DOMAIN jobs : jobs'[j] = jobs[j]
    BY <1>1, <1>2, <1>7
  <1>10. jobs'[n + 1] = new
    BY <1>7
  <1>11. \A j \in DOMAIN jobs' : jobs'[j] \in JobType
    BY <1>1, <1>2, <1>6, <1>8, <1>9, <1>10 DEF JobsInv
  <1> QED
    BY <1>1, <1>2, <1>4, <1>8, <1>9, <1>11 DEF JobsInv

-----------------------------------------------------------------------------
\* The steps of requeueFromDLQ and of the failed handler on the queue alone.

\* A request reads the front of the queue,
LEMMA ReadFront ==
  ASSUME NEW q \in Seq(JobIds), NEW again, NEW n \in 0 .. Len(q), NEW x,
         x = [pc |-> "adding", rest |-> SubSeq(q, 1, n), added |-> 0],
         \A i \in DOMAIN q : again[q[i]] = 0
  PROVE  x \in RequestType /\ Matches(q, x, again)
  <1>1. /\ x.rest = SubSeq(q, 1, n) /\ x.added = 0 /\ x.pc = "adding"
    OBVIOUS
  <1>2. /\ SubSeq(q, 1, n) \in Seq(JobIds) /\ Len(SubSeq(q, 1, n)) = n
        /\ \A k \in 1 .. n : SubSeq(q, 1, n)[k] = q[k]
    OBVIOUS
  <1>3. x \in RequestType
    BY <1>2 DEF RequestType
  <1>4. \A i \in DOMAIN q : ~(i <= 0)
    OBVIOUS
  <1> QED
    BY <1>1, <1>2, <1>3, <1>4 DEF Matches

\* adds the next letter, which no request added before,
AddsNext(x, again, y, j, more) ==
  /\ x \in RequestType /\ x.rest # <<>> /\ again \in [JobIds -> Nat]
  /\ y.rest = Tail(x.rest) /\ y.added = x.added + 1 /\ j = Head(x.rest)
  /\ more = [again EXCEPT ![j] = again[j] + 1]

LEMMA AddNext ==
  ASSUME NEW q \in Seq(JobIds), Injective(q), NEW x, NEW again, Matches(q, x, again),
         NEW y, NEW j, NEW more, AddsNext(x, again, y, j, more)
  PROVE  Matches(q, y, more) /\ Holds(q, j) /\ again[j] = 0
  <1>0. /\ x \in RequestType /\ x.rest # <<>> /\ again \in [JobIds -> Nat]
        /\ y.rest = Tail(x.rest) /\ y.added = x.added + 1 /\ j = Head(x.rest)
        /\ more = [again EXCEPT ![j] = again[j] + 1]
    BY DEF AddsNext
  <1>1. PICK rest, a : rest = x.rest /\ a = x.added
    OBVIOUS
  <1>2. rest \in Seq(JobIds) /\ a \in Nat /\ rest # <<>> /\ Len(rest) \in Nat \ {0} /\ Len(q) \in Nat
    BY <1>0, <1>1 DEF RequestType
  <1>3. /\ a + Len(rest) <= Len(q)
        /\ \A k \in 1 .. Len(rest) : rest[k] = q[a + k]
        /\ \A i \in DOMAIN q : again[q[i]] = (IF i <= a THEN 1 ELSE 0)
    BY <1>1 DEF Matches
  <1>4. j = q[a + 1] /\ a + 1 \in DOMAIN q
    <2>1. j = rest[1] /\ 1 \in 1 .. Len(rest)
      BY <1>0, <1>1, <1>2
    <2>2. a + 1 \in 1 .. Len(q)
      BY <1>2, <1>3
    <2> QED
      BY <1>3, <2>1, <2>2
  <1>5. again[j] = 0
    BY <1>2, <1>3, <1>4
  <1>6. j \in JobIds
    BY <1>4
  <1>7. /\ Len(Tail(rest)) = Len(rest) - 1
        /\ \A k \in 1 .. (Len(rest) - 1) : Tail(rest)[k] = rest[k + 1]
    BY <1>2
  <1>8. \A i \in DOMAIN q : more[q[i]] = (IF i <= a + 1 THEN 1 ELSE 0)
    <2>1. ASSUME NEW i \in DOMAIN q PROVE more[q[i]] = (IF i <= a + 1 THEN 1 ELSE 0)
      <3>1. q[i] \in JobIds /\ i \in Nat
        OBVIOUS
      <3>2. CASE i = a + 1
        BY <1>0, <1>2, <1>4, <1>5, <1>6, <3>2
      <3>3. CASE i # a + 1
        <4>1. q[i] # j
          BY <1>4, <3>3 DEF Injective
        <4>2. more[q[i]] = again[q[i]]
          BY <1>0, <3>1, <4>1
        <4> QED
          BY <1>2, <1>3, <3>1, <3>3, <4>2
      <3> QED
        BY <3>2, <3>3
    <2> QED
      BY <2>1
  <1>9. \A k \in 1 .. (Len(rest) - 1) : Tail(rest)[k] = q[a + 1 + k]
    BY <1>2, <1>3, <1>7
  <1>10. y.added + Len(y.rest) <= Len(q)
    BY <1>0, <1>1, <1>2, <1>3, <1>7
  <1>11. Matches(q, y, more)
    BY <1>0, <1>1, <1>7, <1>8, <1>9, <1>10 DEF Matches
  <1> QED
    BY <1>4, <1>5, <1>11 DEF Holds

\* What LTRIM leaves.
LEMMA Trimmed ==
  ASSUME NEW S, NEW q \in Seq(S), NEW a \in 0 .. Len(q), NEW p, p = lTrim(q, a)
  PROVE  /\ p \in Seq(S) /\ \A i \in DOMAIN p : a + i \in DOMAIN q /\ a + i > a /\ p[i] = q[a + i]
         /\ \A k \in DOMAIN q : k > a => k - a \in DOMAIN p /\ p[k - a] = q[k]
  <1>1. PICK b, l : b = a + 1 /\ l = Len(q)
    OBVIOUS
  <1>2. a \in Nat /\ b \in Nat /\ b >= 1 /\ b <= l + 1 /\ l \in Nat
    BY <1>1
  <1>3. /\ p \in Seq(S) /\ Len(p) = l - b + 1
        /\ \A i \in 1 .. (l - b + 1) : p[i] = q[b + i - 1]
    BY <1>1, <1>2 DEF lTrim
  <1>4. DOMAIN p = 1 .. Len(p) /\ DOMAIN q = 1 .. l
    BY <1>1, <1>3
  <1>5. \A i \in Int : b + i - 1 = a + i
    BY <1>1, <1>2
  <1>6. \A i \in DOMAIN p : a + i \in DOMAIN q /\ a + i > a
    BY <1>1, <1>2, <1>3, <1>4
  <1>7. \A i \in DOMAIN p : p[i] = q[a + i]
    <2>1. ASSUME NEW i \in DOMAIN p PROVE p[i] = q[a + i]
      <3>1. PICK k : k = b + i - 1
        OBVIOUS
      <3>2. p[i] = q[k] /\ i \in Int
        BY <1>3, <1>4, <3>1
      <3> QED
        BY <1>5, <3>1, <3>2
    <2> QED
      BY <2>1
  <1>8. ASSUME NEW k \in DOMAIN q, k > a PROVE k - a \in DOMAIN p /\ p[k - a] = q[k]
    <2>1. k - a \in DOMAIN p /\ a + (k - a) = k
      BY <1>1, <1>2, <1>3, <1>4, <1>8
    <2> QED
      BY <1>7, <2>1
  <1> QED
    BY <1>3, <1>6, <1>7, <1>8

\* Whatever is trimmed, the rest keeps its letters apart.
LEMMA SuffixKeeps ==
  ASSUME NEW q \in Seq(JobIds), Injective(q), NEW a \in Nat,
         NEW p, p = (IF a > 0 THEN lTrim(q, a) ELSE q)
  PROVE  p \in Seq(JobIds) /\ Injective(p) /\ From(p, q)
  <1>0. Len(q) \in Nat
    OBVIOUS
  <1>1. CASE a = 0
    <2>1. p = q
      BY <1>1
    <2> QED
      BY <2>1 DEF From
  <1>2. CASE a > 0 /\ a <= Len(q)
    <2>1. p = lTrim(q, a) /\ a \in 0 .. Len(q)
      BY <1>0, <1>2
    <2>2. /\ p \in Seq(JobIds)
          /\ \A i \in DOMAIN p : a + i \in DOMAIN q /\ a + i > a /\ p[i] = q[a + i]
      BY <2>1, Trimmed
    <2>3. ASSUME NEW i \in DOMAIN p, NEW k \in DOMAIN p, p[i] = p[k] PROVE i = k
      <3>1. q[a + i] = q[a + k] /\ a + i \in DOMAIN q /\ a + k \in DOMAIN q /\ i \in Nat /\ k \in Nat
        BY <2>2, <2>3
      <3>2. a + i = a + k
        BY <3>1 DEF Injective
      <3> QED
        BY <3>1, <3>2
    <2> QED
      BY <2>2, <2>3 DEF Injective, From
  <1>3. CASE a > Len(q)
    <2>1. p = SubSeq(q, a + 1, Len(q))
      BY <1>0, <1>3 DEF lTrim
    <2>2. p = <<>>
      BY <1>0, <1>3, <2>1
    <2>3. <<>> \in Seq(JobIds) /\ \A i \in DOMAIN <<>> : FALSE
      OBVIOUS
    <2> QED
      BY <2>2, <2>3 DEF Injective, From
  <1> QED
    BY <1>0, <1>1, <1>2, <1>3

\* and trims the letters it added and no others.
LEMMA TrimFront ==
  ASSUME NEW q \in Seq(JobIds), NEW x \in RequestType, x.rest = <<>>,
         NEW again, Matches(q, x, again),
         NEW p, p = (IF x.added > 0 THEN lTrim(q, x.added) ELSE q)
  PROVE  NotYetAdded(p, q, again)
  <1>1. PICK a : a = x.added
    OBVIOUS
  <1>2. /\ a \in 0 .. Len(q) /\ a \in Nat /\ DOMAIN q \subseteq Nat
        /\ \A i \in DOMAIN q : again[q[i]] = (IF i <= a THEN 1 ELSE 0)
    BY <1>1 DEF RequestType, Matches
  <1>3. /\ p \in Seq(JobIds)
        /\ \A i \in DOMAIN p : a + i \in DOMAIN q /\ a + i > a /\ p[i] = q[a + i]
        /\ \A k \in DOMAIN q : k > a => k - a \in DOMAIN p /\ p[k - a] = q[k]
    <2>1. CASE a = 0
      <3>1. p = q
        BY <1>1, <2>1
      <3> QED
        BY <1>2, <2>1, <3>1
    <2>2. CASE a > 0
      <3>1. p = lTrim(q, a)
        BY <1>1, <2>2
      <3> QED
        BY <1>2, <3>1, Trimmed
    <2> QED
      BY <1>2, <2>1, <2>2
  <1>4. DOMAIN p \subseteq Nat
    BY <1>3
  <1>5. ASSUME NEW i \in DOMAIN p PROVE again[p[i]] = 0
    <2>1. a + i \in DOMAIN q /\ a + i > a /\ p[i] = q[a + i]
      BY <1>3
    <2>2. ~(a + i <= a)
      BY <1>2, <1>4, <2>1
    <2> QED
      BY <1>2, <2>1, <2>2
  <1>6. ASSUME NEW k \in DOMAIN q PROVE again[q[k]] = 1 \/ \E i \in DOMAIN p : p[i] = q[k]
    <2>1. k <= a \/ k > a
      BY <1>2
    <2> QED
      BY <1>2, <1>3, <2>1
  <1> QED
    BY <1>5, <1>6 DEF NotYetAdded

\* A job that dies meanwhile goes to the end,
LEMMA PushAtEnd ==
  ASSUME NEW q \in Seq(JobIds), Injective(q), NEW j \in JobIds,
         \A i \in DOMAIN q : q[i] # j, NEW p, p = Append(q, j)
  PROVE  p \in Seq(JobIds) /\ Injective(p) /\ Grown(p, q, j)
  <1>1. /\ p \in Seq(JobIds) /\ Len(q) \in Nat /\ Len(p) = Len(q) + 1
        /\ DOMAIN p = DOMAIN q \cup {Len(q) + 1} /\ p[Len(q) + 1] = j
        /\ \A i \in DOMAIN q : p[i] = q[i]
    OBVIOUS
  <1>2. Injective(p)
    BY <1>1 DEF Injective
  <1> QED
    BY <1>1, <1>2 DEF Grown

\* where it disturbs no request.
LEMMA PushMatches ==
  ASSUME NEW q \in Seq(JobIds), NEW j \in JobIds, NEW p, p = Append(q, j),
         NEW x \in RequestType, NEW again, Matches(q, x, again), again[j] = 0
  PROVE  Matches(p, x, again)
  <1>1. /\ p \in Seq(JobIds) /\ Len(q) \in Nat /\ Len(p) = Len(q) + 1
        /\ DOMAIN p = DOMAIN q \cup {Len(q) + 1} /\ p[Len(q) + 1] = j
        /\ \A i \in DOMAIN q : p[i] = q[i]
    OBVIOUS
  <1>2. x.added \in Nat /\ Len(x.rest) \in Nat /\ x.added + Len(x.rest) <= Len(q)
    BY DEF RequestType, Matches
  <1>3. x.added + Len(x.rest) <= Len(p)
    BY <1>1, <1>2
  <1>4. \A k \in 1 .. Len(x.rest) : x.rest[k] = p[x.added + k]
    BY <1>1, <1>2 DEF Matches
  <1>5. \A i \in DOMAIN p : again[p[i]] = (IF i <= x.added THEN 1 ELSE 0)
    BY <1>1, <1>2 DEF Matches
  <1> QED
    BY <1>3, <1>4, <1>5 DEF Matches

-----------------------------------------------------------------------------
\* A job that died stays dead.
StayDead ==
  /\ DOMAIN jobs \subseteq DOMAIN jobs'
  /\ \A j \in DOMAIN jobs : jobs[j].state \in Dead => jobs'[j].state \in Dead

LEMMA JobChanges ==
  ASSUME JobsInv, NEW j \in DOMAIN jobs, jobs[j].state \notin Dead, NEW y \in JobType,
         jobs' = [jobs EXCEPT ![j] = y]
  PROVE  JobsInv' /\ StayDead /\ DOMAIN jobs' = DOMAIN jobs /\ jobs'[j] = y
  <1>1. DOMAIN jobs' = DOMAIN jobs /\ jobs'[j] = y /\ \A k \in DOMAIN jobs : k # j => jobs'[k] = jobs[k]
    OBVIOUS
  <1> QED
    BY <1>1 DEF JobsInv, StayDead

LEMMA StateChanges ==
  ASSUME JobsInv, NEW j \in DOMAIN jobs, jobs[j].state \notin Dead,
         NEW new \in {"waiting", "active", "delayed", "completed", "failed", "removed"},
         jobs' = [jobs EXCEPT ![j].state = new]
  PROVE  JobsInv' /\ StayDead
  <1>1. PICK y : y = [jobs[j] EXCEPT !.state = new]
    OBVIOUS
  <1>2. y \in JobType
    BY <1>1 DEF JobsInv, JobType
  <1>3. jobs' = [jobs EXCEPT ![j] = y]
    BY <1>1
  <1> QED
    BY <1>2, <1>3, JobChanges

\* Steps that leave the dead letters alone.
LEMMA JobsOnly ==
  ASSUME QueueInv, JobsInv', StayDead,
         UNCHANGED <<pushing, letters, dlq, requests, requeued, addFailed, overlapped>>
  PROVE  QueueInv'
  <1>1. LettersInv'
    BY DEF QueueInv, LettersInv, StayDead
  <1>2. RequestsInv'
    BY DEF QueueInv, RequestsInv
  <1> QED
    BY <1>1, <1>2 DEF QueueInv

\* An attempt fails: the job is dead exactly when it is pushed.
LEMMA FailureKeeps ==
  ASSUME QueueInv, NEW j \in DOMAIN jobs, jobs[j].state = "active", AttemptFails(j),
         UNCHANGED <<letters, dlq, requests, requeued, addFailed, overlapped>>
  PROVE  QueueInv'
  <1>1. PICK x, made : x = jobs[j] /\ made = x.made + 1
    OBVIOUS
  <1>2. x \in JobType /\ x.state \notin Dead /\ x.attempts \in Nat /\ made \in Nat
    BY <1>1 DEF QueueInv, JobsInv, JobType, Dead
  <1>3. PICK y : y = [x EXCEPT !.made = made, !.state = IF made < x.attempts THEN "delayed" ELSE "failed"]
    OBVIOUS
  <1>4. y \in JobType /\ (~(made < x.attempts) => y.state \in Dead)
    BY <1>2, <1>3 DEF JobType, Dead
  <1>5. jobs' = [jobs EXCEPT ![j] = y]
    BY <1>1, <1>3 DEF AttemptFails
  <1>6. /\ JobsInv' /\ StayDead /\ DOMAIN jobs' = DOMAIN jobs /\ jobs'[j] = y
    BY <1>1, <1>2, <1>4, <1>5, JobChanges DEF QueueInv
  <1>7. pushing' = pushing \/ (pushing' = pushing \cup {j} /\ ~(made < x.attempts))
    BY <1>1, <1>2 DEF AttemptFails, handleJobFailure
  <1>8. j \notin pushing /\ j \notin letters
    BY <1>1, <1>2 DEF QueueInv, LettersInv
  <1>9. LettersInv'
    BY <1>4, <1>6, <1>7, <1>8 DEF QueueInv, LettersInv, StayDead
  <1>10. RequestsInv'
    BY DEF QueueInv, RequestsInv
  <1> QED
    BY <1>6, <1>9, <1>10 DEF QueueInv

LEMMA PushKeeps ==
  ASSUME QueueConstants, QueueInv, NEW j \in JobIds, NEW ok \in BOOLEAN, PushDeadLetter(j, ok)
  PROVE  QueueInv'
  <1>1. /\ j \in pushing /\ pushing' = pushing \ {j}
        /\ UNCHANGED <<jobs, requests, requeued, addFailed, overlapped>>
    BY DEF PushDeadLetter, requestVars
  <1>2. j \notin letters /\ j \in DOMAIN jobs /\ jobs[j].state \in Dead
    BY <1>1 DEF QueueInv, LettersInv
  <1>3. JobsInv'
    BY <1>1 DEF QueueInv, JobsInv
  <1>4. CASE ~ok
    <2>1. UNCHANGED <<dlq, letters>>
      BY <1>4 DEF PushDeadLetter
    <2> QED
      BY <1>1, <1>3, <2>1 DEF QueueInv, LettersInv, RequestsInv
  <1>5. CASE ok
    <2>1. dlq' = Append(dlq, j) /\ letters' = letters \cup {j}
      BY <1>5 DEF PushDeadLetter
    <2>2. dlq \in Seq(JobIds) /\ Injective(dlq) /\ \A i \in DOMAIN dlq : dlq[i] # j
      BY <1>2 DEF QueueInv, LettersInv
    <2>3. /\ dlq' \in Seq(JobIds) /\ Injective(dlq')
          /\ DOMAIN dlq' = DOMAIN dlq \cup {Len(dlq) + 1} /\ dlq'[Len(dlq) + 1] = j
          /\ \A i \in DOMAIN dlq : dlq'[i] = dlq[i]
      <3>1. dlq' \in Seq(JobIds) /\ Injective(dlq') /\ Grown(dlq', dlq, j)
        BY <2>1, <2>2, PushAtEnd
      <3> QED
        BY <3>1 DEF Grown
    <2>4. LettersInv'
      <3>1. pushing' \subseteq DOMAIN jobs' /\ letters' \subseteq DOMAIN jobs'
        BY <1>1, <1>2, <2>1 DEF QueueInv, LettersInv
      <3>2. \A k \in pushing' \cup letters' : jobs'[k].state \in Dead
        BY <1>1, <1>2, <2>1 DEF QueueInv, LettersInv
      <3>3. \A k \in pushing' : k \notin letters'
        BY <1>1, <2>1 DEF QueueInv, LettersInv
      <3>4. \A i \in DOMAIN dlq' : dlq'[i] \in letters'
        BY <2>1, <2>3 DEF QueueInv, LettersInv
      <3> QED
        BY <2>3, <3>1, <3>2, <3>3, <3>4 DEF LettersInv
    <2>5. ASSUME ~addFailed', ~overlapped' PROVE Exact(dlq', requests', letters', requeued')
      <3>1. Exact(dlq, requests, letters, requeued) /\ requests \in [RequestIds -> RequestType]
        BY <1>1, <2>5 DEF QueueInv, RequestsInv
      <3>2. requeued[j] = 0
        BY <1>2, <3>1 DEF Exact
      <3>3. \A r \in RequestIds : requests[r].pc = "adding" => Matches(dlq', requests[r], requeued)
        BY <2>1, <2>2, <3>1, <3>2, PushMatches DEF Exact
      <3>4. (\A r \in RequestIds : requests[r].pc # "adding")
               => \A i \in DOMAIN dlq' : requeued[dlq'[i]] = 0
        BY <2>3, <3>1, <3>2 DEF Exact
      <3>5. \A k \in letters' : (\E i \in DOMAIN dlq' : dlq'[i] = k) \/ requeued[k] = 1
        BY <2>1, <2>3, <3>1 DEF Exact
      <3>6. \A k \in JobIds : k \notin letters' => requeued[k] = 0
        BY <2>1, <3>1 DEF Exact
      <3>7. Exact(dlq', requests, letters', requeued)
        BY <3>1, <3>3, <3>4, <3>5, <3>6 DEF Exact
      <3> QED
        BY <1>1, <3>7
    <2>6. RequestsInv'
      BY <1>1, <2>1, <2>5 DEF QueueInv, RequestsInv
    <2> QED
      BY <1>3, <2>4, <2>6 DEF QueueInv
  <1> QED
    BY <1>4, <1>5

LEMMA LetterReadKeeps ==
  ASSUME QueueConstants, QueueInv, NEW r \in RequestIds, NEW limit \in Limits,
         requeueFromDLQ(r, limit)
  PROVE  QueueInv'
  <1>1. UNCHANGED <<jobs, dlq, pushing, letters, requeued, addFailed>>
    BY DEF requeueFromDLQ
  <1>2. PICK n : n = (IF limit = 0 \/ Len(dlq) < limit THEN Len(dlq) ELSE limit)
    OBVIOUS
  <1>3. dlq \in Seq(JobIds) /\ Len(dlq) \in Nat /\ limit \in Nat
    <2>1. dlq \in Seq(JobIds)
      BY DEF QueueInv, LettersInv
    <2>2. limit \in Nat
      BY DEF QueueConstants
    <2> QED
      BY <2>1, <2>2
  <1>4. n \in 0 .. Len(dlq)
    BY <1>2, <1>3
  <1>5. PICK x : x = [pc |-> "adding", rest |-> SubSeq(dlq, 1, n), added |-> 0]
    OBVIOUS
  <1>6. requests' = [requests EXCEPT ![r] = x] /\ requests \in [RequestIds -> RequestType]
    BY <1>2, <1>5 DEF requeueFromDLQ, getDeadLetterQueue, QueueInv, RequestsInv
  <1>7. x \in RequestType
    <2>1. SubSeq(dlq, 1, n) \in Seq(JobIds)
      BY <1>3, <1>4
    <2> QED
      BY <1>5, <2>1 DEF RequestType
  <1>8. /\ requests' \in [RequestIds -> RequestType] /\ requests'[r] = x
        /\ \A p \in RequestIds : p # r => requests'[p] = requests[p]
    BY <1>6, <1>7
  <1>9. ASSUME ~addFailed', ~overlapped' PROVE Exact(dlq, requests', letters, requeued)
    <2>1. ~overlapped /\ \A p \in RequestIds : requests[p].pc # "adding"
      BY <1>9 DEF requeueFromDLQ
    <2>2. Exact(dlq, requests, letters, requeued)
      BY <1>1, <1>9, <2>1 DEF QueueInv, RequestsInv
    <2>3. \A i \in DOMAIN dlq : requeued[dlq[i]] = 0
      BY <2>1, <2>2 DEF Exact
    <2>4. Matches(dlq, x, requeued) /\ x.pc = "adding"
      BY <1>3, <1>4, <1>5, <2>3, ReadFront
    <2> QED
      BY <1>8, <2>1, <2>2, <2>4 DEF Exact
  <1>10. \A k \in DOMAIN x.rest : x.rest[k] \in letters
    <2>1. x.rest = SubSeq(dlq, 1, n)
      BY <1>5
    <2>2. \A k \in DOMAIN SubSeq(dlq, 1, n) : k \in DOMAIN dlq /\ SubSeq(dlq, 1, n)[k] = dlq[k]
      BY <1>3, <1>4
    <2> QED
      BY <2>1, <2>2 DEF QueueInv, LettersInv
  <1>11. RequestsInv'
    BY <1>1, <1>8, <1>9, <1>10 DEF QueueInv, RequestsInv
  <1> QED
    BY <1>1, <1>11 DEF QueueInv, JobsInv, LettersInv

LEMMA LetterAddKeeps ==
  ASSUME QueueConstants, QueueInv, NEW r \in RequestIds, NEW ok \in BOOLEAN, RequeueLetter(r, ok)
  PROVE  QueueInv'
  <1>1. PICK x, j : x = requests[r] /\ j = Head(x.rest)
    OBVIOUS
  <1>2. /\ x \in RequestType /\ x.pc = "adding" /\ x.rest # <<>> /\ x.rest \in Seq(JobIds)
        /\ requests \in [RequestIds -> RequestType] /\ x.added \in Nat
    BY <1>1 DEF RequeueLetter, QueueInv, RequestsInv, RequestType
  <1>3. UNCHANGED <<dlq, pushing, overlapped, letters>>
    BY DEF RequeueLetter
  <1>4. /\ Tail(x.rest) \in Seq(JobIds) /\ j \in letters /\ j \in JobIds
        /\ \A k \in DOMAIN Tail(x.rest) : Tail(x.rest)[k] \in letters
    <2>1. \A k \in DOMAIN x.rest : x.rest[k] \in letters
      BY <1>1 DEF QueueInv, RequestsInv
    <2>2. \A k \in DOMAIN Tail(x.rest) : k + 1 \in DOMAIN x.rest /\ Tail(x.rest)[k] = x.rest[k + 1]
      BY <1>2
    <2>3. 1 \in DOMAIN x.rest /\ j = x.rest[1]
      BY <1>1, <1>2
    <2> QED
      BY <1>2, <2>1, <2>2, <2>3
  <1>5. CASE ~ok
    <2>1. /\ requests' = [requests EXCEPT ![r].rest = Tail(x.rest)] /\ addFailed' /\ UNCHANGED <<jobs, requeued>>
      BY <1>1, <1>5 DEF RequeueLetter
    <2>2. PICK y : y = [x EXCEPT !.rest = Tail(x.rest)]
      OBVIOUS
    <2>3. y \in RequestType /\ y.rest = Tail(x.rest)
      BY <1>2, <1>4, <2>2 DEF RequestType
    <2>4. requests' = [requests EXCEPT ![r] = y]
      BY <1>1, <2>1, <2>2
    <2>5. /\ requests' \in [RequestIds -> RequestType] /\ requests'[r] = y
          /\ \A p \in RequestIds : p # r => requests'[p] = requests[p]
      BY <1>2, <2>3, <2>4
    <2>6. RequestsInv'
      BY <1>3, <1>4, <2>1, <2>3, <2>5 DEF QueueInv, RequestsInv
    <2> QED
      BY <1>3, <2>1, <2>6 DEF QueueInv, JobsInv, LettersInv
  <1>6. CASE ok
    <2>1. /\ QueueAdd(jobs[j].valid, jobs[j].attempts)
          /\ requeued' = [requeued EXCEPT ![j] = requeued[j] + 1]
          /\ requests' = [requests EXCEPT ![r].rest = Tail(x.rest), ![r].added = x.added + 1]
          /\ UNCHANGED addFailed
      BY <1>1, <1>6 DEF RequeueLetter
    <2>2. PICK y : y = [x EXCEPT !.rest = Tail(x.rest), !.added = x.added + 1]
      OBVIOUS
    <2>3. y \in RequestType /\ y.rest = Tail(x.rest) /\ y.added = x.added + 1 /\ y.pc = "adding"
      <3>1. PICK tail, n : tail = Tail(x.rest) /\ n = x.added + 1
        OBVIOUS
      <3>2. tail \in Seq(JobIds) /\ n \in Nat
        BY <1>2, <1>4, <3>1
      <3>3. y = [x EXCEPT !.rest = tail, !.added = n]
        BY <2>2, <3>1
      <3>4. y \in RequestType /\ y.rest = tail /\ y.added = n /\ y.pc = "adding"
        BY <1>2, <3>2, <3>3 DEF RequestType
      <3> QED
        BY <3>1, <3>4
    <2>4. requests' = [requests EXCEPT ![r] = y]
      BY <1>1, <2>1, <2>2
    <2>5. /\ requests' \in [RequestIds -> RequestType] /\ requests'[r] = y
          /\ \A p \in RequestIds : p # r => requests'[p] = requests[p]
      BY <1>2, <2>3, <2>4
    <2>6. j \in DOMAIN jobs /\ jobs[j] \in JobType
      BY <1>4 DEF QueueInv, LettersInv, JobsInv
    <2>7. jobs[j].valid \in BOOLEAN /\ jobs[j].attempts \in Nat
      BY <2>6 DEF JobType
    <2>8. JobsInv' /\ StayDead
      BY <2>1, <2>7, NewJob DEF QueueInv, StayDead
    <2>9. LettersInv'
      BY <1>3, <2>8 DEF QueueInv, LettersInv, StayDead
    <2>10. requeued \in [JobIds -> Nat] /\ requeued' \in [JobIds -> Nat]
           /\ \A k \in JobIds : k # j => requeued'[k] = requeued[k]
      BY <1>4, <2>1 DEF QueueInv, RequestsInv
    <2>11. ASSUME ~addFailed', ~overlapped' PROVE Exact(dlq, requests', letters, requeued')
      <3>1. Exact(dlq, requests, letters, requeued)
        BY <1>3, <2>1, <2>11 DEF QueueInv, RequestsInv
      <3>2. Matches(dlq, x, requeued) /\ dlq \in Seq(JobIds) /\ Injective(dlq)
        BY <1>1, <1>2, <3>1 DEF Exact, QueueInv, LettersInv
      <3>3. Matches(dlq, y, requeued') /\ \E i \in DOMAIN dlq : dlq[i] = j /\ requeued[j] = 0
        <4>1. AddsNext(x, requeued, y, j, requeued')
          BY <1>1, <1>2, <2>1, <2>3, <2>10 DEF AddsNext
        <4>2. Matches(dlq, y, requeued') /\ Holds(dlq, j) /\ requeued[j] = 0
          BY <3>2, <4>1, AddNext
        <4> QED
          BY <4>2 DEF Holds
      <3>4. \A p \in RequestIds : p # r => requests[p].pc # "adding"
        BY <1>1, <1>2, <3>1 DEF Exact
      <3>5. \A k \in letters : (\E i \in DOMAIN dlq : dlq[i] = k) \/ requeued'[k] = 1
        <4>1. ASSUME NEW k \in letters, k # j
              PROVE  (\E i \in DOMAIN dlq : dlq[i] = k) \/ requeued'[k] = 1
          <5>1. k \in JobIds
            <6>1. PICK n \in 0 .. MaxJobs : DOMAIN jobs = 1 .. n
              BY DEF QueueInv, JobsInv
            <6>2. k \in 1 .. n
              BY <6>1 DEF QueueInv, LettersInv
            <6> QED
              BY <6>1, <6>2 DEF JobIds, QueueConstants
          <5> QED
            BY <2>10, <3>1, <4>1, <5>1 DEF Exact
        <4> QED
          BY <3>3, <4>1
      <3>6. \A k \in JobIds : k \notin letters => requeued'[k] = 0
        BY <1>4, <2>10, <3>1 DEF Exact
      <3>7. \A p \in RequestIds : requests'[p].pc = "adding" => p = r
        BY <2>5, <3>4
      <3>8. requests'[r].pc = "adding"
        BY <2>3, <2>5
      <3> QED
        BY <2>5, <3>3, <3>5, <3>6, <3>7, <3>8 DEF Exact
    <2>12. RequestsInv'
      BY <1>3, <1>4, <2>3, <2>5, <2>10, <2>11 DEF QueueInv, RequestsInv
    <2> QED
      BY <2>8, <2>9, <2>12 DEF QueueInv
  <1> QED
    BY <1>5, <1>6

LEMMA TrimKeeps ==
  ASSUME QueueInv, NEW r \in RequestIds, TrimLetters(r)
  PROVE  QueueInv'
  <1>1. PICK x : x = requests[r]
    OBVIOUS
  <1>2. /\ x \in RequestType /\ x.pc = "adding" /\ x.rest = <<>>
        /\ requests \in [RequestIds -> RequestType]
        /\ dlq' = (IF x.added > 0 THEN lTrim(dlq, x.added) ELSE dlq)
    BY <1>1 DEF TrimLetters, QueueInv, RequestsInv
  <1>3. UNCHANGED <<jobs, pushing, requeued, addFailed, overlapped, letters>>
    BY DEF TrimLetters
  <1>4. PICK y : y = [x EXCEPT !.pc = "done"]
    OBVIOUS
  <1>5. y \in RequestType /\ y.rest = x.rest /\ y.pc # "adding"
    BY <1>2, <1>4 DEF RequestType
  <1>6. requests' = [requests EXCEPT ![r] = y]
    BY <1>1, <1>4 DEF TrimLetters
  <1>7. /\ requests' \in [RequestIds -> RequestType] /\ requests'[r] = y
        /\ \A p \in RequestIds : p # r => requests'[p] = requests[p]
    BY <1>2, <1>5, <1>6
  <1>8. dlq \in Seq(JobIds) /\ Injective(dlq) /\ \A i \in DOMAIN dlq : dlq[i] \in letters
    BY DEF QueueInv, LettersInv
  <1>9. /\ dlq' \in Seq(JobIds) /\ Injective(dlq')
        /\ \A i \in DOMAIN dlq' : \E k \in DOMAIN dlq : dlq'[i] = dlq[k]
    <2>1. x.added \in Nat
      BY <1>2 DEF RequestType
    <2> QED
      <3>1. dlq' \in Seq(JobIds) /\ Injective(dlq') /\ From(dlq', dlq)
        BY <1>2, <1>8, <2>1, SuffixKeeps
      <3> QED
        BY <3>1 DEF From
  <1>10. LettersInv'
    BY <1>3, <1>8, <1>9 DEF QueueInv, LettersInv
  <1>11. ASSUME ~addFailed', ~overlapped' PROVE Exact(dlq', requests', letters, requeued)
    <2>1. Exact(dlq, requests, letters, requeued)
      BY <1>3, <1>11 DEF QueueInv, RequestsInv
    <2>2. Matches(dlq, x, requeued)
      BY <1>1, <1>2, <2>1 DEF Exact
    <2>3. /\ \A i \in DOMAIN dlq' : requeued[dlq'[i]] = 0
          /\ \A k \in DOMAIN dlq : requeued[dlq[k]] = 1 \/ \E i \in DOMAIN dlq' : dlq'[i] = dlq[k]
      <3>1. NotYetAdded(dlq', dlq, requeued)
        BY <1>2, <1>8, <2>2, TrimFront
      <3> QED
        BY <3>1 DEF NotYetAdded
    <2>4. \A p \in RequestIds : requests'[p].pc # "adding"
      BY <1>1, <1>2, <1>5, <1>7, <2>1 DEF Exact
    <2>5. \A j \in letters : (\E i \in DOMAIN dlq' : dlq'[i] = j) \/ requeued[j] = 1
      BY <2>1, <2>3 DEF Exact
    <2>6. \A j \in JobIds : j \notin letters => requeued[j] = 0
      BY <2>1 DEF Exact
    <2> QED
      BY <2>3, <2>4, <2>5, <2>6 DEF Exact
  <1>12. RequestsInv'
    <2>1. \A p \in RequestIds : \A k \in DOMAIN requests'[p].rest : requests'[p].rest[k] \in letters
      BY <1>1, <1>5, <1>7 DEF QueueInv, RequestsInv
    <2> QED
      BY <1>3, <1>7, <1>11, <2>1 DEF QueueInv, RequestsInv
  <1> QED
    BY <1>3, <1>10, <1>12 DEF QueueInv, JobsInv

-----------------------------------------------------------------------------
\* A copy of a job waits at the end of the queue.
LEMMA AddedKeeps ==
  ASSUME QueueConstants, QueueInv, NEW valid \in BOOLEAN, NEW attempts \in Nat,
         QueueAdd(valid, attempts), UNCHANGED <<dlq, pushing, requestVars, letters>>
  PROVE  QueueInv'
  <1>1. JobsInv' /\ StayDead
    BY NewJob DEF QueueInv, StayDead
  <1> QED
    BY <1>1, JobsOnly DEF requestVars

LEMMA QueueStep ==
  ASSUME QueueConstants, QueueInv, [JobQueueNext]_queueVars
  PROVE  QueueInv'
  <1>1. CASE UNCHANGED queueVars
    BY <1>1 DEF queueVars, requestVars, QueueInv, JobsInv, LettersInv, RequestsInv
  <1>2. ASSUME NEW v \in BOOLEAN,
               queueContractDeployment(v) \/ queueTtsProcessing(v) \/ queueMarketNewsIndexing(v)
        PROVE  QueueInv'
    <2>1. PICK attempts \in Nat : QueueAdd(v, attempts) /\ UNCHANGED <<dlq, pushing, requestVars, letters>>
      BY <1>2 DEF queueContractDeployment, queueTtsProcessing, queueMarketNewsIndexing, addJob,
                  QueueConstants
    <2> QED
      BY <2>1, AddedKeeps
  <1>3. ASSUME NEW j \in JobIds, TakeJob(j) \/ Backoff(j)
        PROVE  QueueInv'
    <2>1. /\ j \in DOMAIN jobs /\ jobs[j].state \notin Dead
          /\ \E new \in {"waiting", "active", "delayed", "completed", "failed", "removed"} :
               jobs' = [jobs EXCEPT ![j].state = new]
          /\ UNCHANGED <<dlq, pushing, requestVars, letters>>
      BY <1>3 DEF TakeJob, Backoff, Dead
    <2>2. JobsInv' /\ StayDead
      BY <2>1, StateChanges DEF QueueInv
    <2> QED
      BY <2>1, <2>2, JobsOnly DEF requestVars
  <1>4. ASSUME NEW j \in JobIds,
               handleDeployContract(j) \/ handleProcessTts(j) \/ handleIndexMarketNews(j)
        PROVE  QueueInv'
    <2>1. j \in DOMAIN jobs /\ Process(j)
      BY <1>4 DEF handleDeployContract, handleProcessTts, handleIndexMarketNews
    <2>2. jobs[j].state = "active" /\ UNCHANGED <<dlq, requestVars, letters>>
      BY <2>1 DEF Process
    <2>3. CASE AttemptFails(j)
      BY <2>1, <2>2, <2>3, FailureKeeps DEF requestVars
    <2>4. CASE jobs' = [jobs EXCEPT ![j].state = "completed"] /\ UNCHANGED pushing
      <3>1. JobsInv' /\ StayDead
        BY <2>1, <2>2, <2>4, StateChanges DEF QueueInv, Dead
      <3> QED
        BY <2>2, <2>4, <3>1, JobsOnly DEF requestVars
    <2> QED
      BY <2>1, <2>3, <2>4 DEF Process
  <1>5. ASSUME NEW j \in JobIds, NEW ok \in BOOLEAN, PushDeadLetter(j, ok)
        PROVE  QueueInv'
    BY <1>5, PushKeeps
  <1>6. ASSUME NEW j \in JobIds, retryFailedJob(j) \/ PostRequeueJob(j)
        PROVE  QueueInv'
    <2>1. /\ j \in DOMAIN jobs /\ QueueAdd(jobs[j].valid, jobs[j].attempts)
          /\ UNCHANGED <<dlq, pushing, requestVars, letters>>
      BY <1>6 DEF retryFailedJob, PostRequeueJob, requeueJob, Exists
    <2>2. jobs[j].valid \in BOOLEAN /\ jobs[j].attempts \in Nat
      BY <2>1 DEF QueueInv, JobsInv, JobType
    <2> QED
      BY <2>1, <2>2, AddedKeeps
  <1>7. CASE GetJob(1) \/ monitorJobStatus(1) \/ AnswerJobInfo
    <2>1. UNCHANGED <<jobs, dlq, pushing, requestVars, letters>>
      BY <1>7 DEF GetJob, monitorJobStatus, getJobInfo, AnswerJobInfo
    <2> QED
      BY <2>1 DEF requestVars, QueueInv, JobsInv, LettersInv, RequestsInv
  <1>8. CASE PostPurge
    <2>1. /\ DOMAIN jobs' = DOMAIN jobs
          /\ \A j \in DOMAIN jobs : \/ jobs'[j] = jobs[j]
                                    \/ jobs'[j] = [jobs[j] EXCEPT !.state = "removed"]
          /\ UNCHANGED <<dlq, pushing, requestVars, letters>>
      BY <1>8 DEF PostPurge, purgeQueue
    <2>2. ASSUME NEW j \in DOMAIN jobs
          PROVE  jobs'[j] \in JobType /\ (jobs[j].state \in Dead => jobs'[j].state \in Dead)
      <3>1. jobs[j] \in JobType
        BY DEF QueueInv, JobsInv
      <3>2. CASE jobs'[j] = jobs[j]
        BY <3>1, <3>2
      <3>3. CASE jobs'[j] = [jobs[j] EXCEPT !.state = "removed"]
        BY <3>1, <3>3 DEF JobType, Dead
      <3> QED
        BY <2>1, <3>2, <3>3
    <2>3. JobsInv' /\ StayDead
      BY <2>1, <2>2 DEF QueueInv, JobsInv, StayDead
    <2> QED
      BY <2>1, <2>3, JobsOnly DEF requestVars
  <1>9. ASSUME NEW r \in RequestIds, NEW n \in Limits,
               processDeadLetterQueue(r, n) \/ PostRequeueFromDLQ(r, n)
        PROVE  QueueInv'
    BY <1>9, LetterReadKeeps DEF processDeadLetterQueue, PostRequeueFromDLQ
  <1>10. ASSUME NEW r \in RequestIds, NEW ok \in BOOLEAN, RequeueLetter(r, ok)
         PROVE  QueueInv'
    BY <1>10, LetterAddKeeps
  <1>11. ASSUME NEW r \in RequestIds, TrimLetters(r)
         PROVE  QueueInv'
    BY <1>11, TrimKeeps
  <1> QED
    BY <1>1, <1>2, <1>3, <1>4, <1>5, <1>6, <1>7, <1>8, <1>9, <1>10, <1>11 DEF JobQueueNext

\* The invariant holds in every state.
THEOREM QueueInvHolds ==
  ASSUME QueueConstants PROVE JobQueueSpec => []QueueInv
  <1>1. JobQueueInit => QueueInv
    <2> SUFFICES ASSUME JobQueueInit PROVE QueueInv
      OBVIOUS
    <2>1. JobsInv
      <3>1. DOMAIN jobs = 1 .. 0 /\ 0 \in 0 .. MaxJobs
        BY DEF JobQueueInit, QueueConstants
      <3>2. \A j \in DOMAIN jobs : FALSE
        BY <3>1
      <3> QED
        BY <3>1, <3>2 DEF JobsInv
    <2>2. LettersInv
      <3>1. dlq = <<>> /\ pushing = {} /\ letters = {}
        BY DEF JobQueueInit
      <3>2. <<>> \in Seq(JobIds) /\ \A i \in DOMAIN <<>> : FALSE
        OBVIOUS
      <3> QED
        BY <3>1, <3>2 DEF LettersInv, Injective
    <2>3. requests \in [RequestIds -> RequestType] /\ \A r \in RequestIds : requests[r].pc # "adding"
      <3>1. PICK x : x = [pc |-> "idle", rest |-> <<>>, added |-> 0]
        OBVIOUS
      <3>2. x \in RequestType /\ x.pc # "adding"
        BY <3>1 DEF RequestType
      <3>3. requests = [r \in RequestIds |-> x]
        BY <3>1 DEF JobQueueInit
      <3> QED
        BY <3>2, <3>3
    <2>4. /\ \A r \in RequestIds : \A k \in DOMAIN requests[r].rest : FALSE
          /\ requeued = [j \in JobIds |-> 0] /\ \A i \in DOMAIN dlq : FALSE
          /\ letters = {}
      BY DEF JobQueueInit
    <2>5. Exact(dlq, requests, letters, requeued)
      BY <2>3, <2>4 DEF Exact
    <2> QED
      BY <2>1, <2>2, <2>3, <2>4, <2>5 DEF QueueInv, RequestsInv
  <1>2. QueueInv /\ [JobQueueNext]_queueVars => QueueInv'
    BY QueueStep
  <1> QED
    BY <1>1, <1>2, PTL DEF JobQueueSpec

\* Dead letters are requeued exactly once, and kept until then, whatever jobs
\* fail, are copied or purged while requeueFromDLQ runs, as long as no add fails
\* and no two requests overlap.
THEOREM RequeueIsExact ==
  ASSUME QueueConstants PROVE JobQueueSpec => []LettersRequeuedOnce
  <1>1. QueueInv => LettersRequeuedOnce
    BY ExactIsOnce
  <1> QED
    BY <1>1, QueueInvHolds, PTL

-----------------------------------------------------------------------------
\* A completed job stays completed, so the second read of getJobInfo finds what
\* the first one saw.
StayCompleted ==
  /\ DOMAIN jobs \subseteq DOMAIN jobs'
  /\ \A j \in DOMAIN jobs : jobs[j].state = "completed" => jobs'[j].state = "completed"

FirstRead(s) == s.job \in DOMAIN jobs /\ (s.result => jobs[s.job].state = "completed")
PollInv ==
  /\ Len(poll) = 1 => FirstRead(poll[1])
  /\ Len(poll) = 2 => (poll[2].result => poll[2].status = "completed")

LEMMA CompletedStays ==
  ASSUME QueueConstants, QueueInv, [JobQueueNext]_queueVars
  PROVE  StayCompleted
  <1>1. ASSUME NEW valid \in BOOLEAN, NEW attempts \in Nat, QueueAdd(valid, attempts)
        PROVE  StayCompleted
    BY <1>1, NewJob DEF QueueInv, StayCompleted
  <1>2. ASSUME NEW j \in DOMAIN jobs, jobs[j].state # "completed", DOMAIN jobs' = DOMAIN jobs,
               \A k \in DOMAIN jobs : k # j => jobs'[k] = jobs[k]
        PROVE  StayCompleted
    BY <1>2 DEF StayCompleted
  <1>3. CASE jobs' = jobs
    BY <1>3 DEF StayCompleted
  <1>4. ASSUME NEW j \in JobIds,
               TakeJob(j) \/ Backoff(j) \/ handleDeployContract(j) \/ handleProcessTts(j)
                 \/ handleIndexMarketNews(j)
        PROVE  StayCompleted
    <2>1. /\ j \in DOMAIN jobs /\ jobs[j].state # "completed" /\ DOMAIN jobs' = DOMAIN jobs
          /\ \A k \in DOMAIN jobs : k # j => jobs'[k] = jobs[k]
      BY <1>4 DEF TakeJob, Backoff, handleDeployContract, handleProcessTts, handleIndexMarketNews,
                  Process, AttemptFails
    <2> QED
      BY <1>2, <2>1
  <1>5. ASSUME NEW v \in BOOLEAN,
               queueContractDeployment(v) \/ queueTtsProcessing(v) \/ queueMarketNewsIndexing(v)
        PROVE  StayCompleted
    BY <1>1, <1>5 DEF queueContractDeployment, queueTtsProcessing, queueMarketNewsIndexing, addJob,
                      QueueConstants
  <1>6. ASSUME NEW j \in DOMAIN jobs, QueueAdd(jobs[j].valid, jobs[j].attempts)
        PROVE  StayCompleted
    BY <1>1, <1>6 DEF QueueInv, JobsInv, JobType
  <1>7. ASSUME NEW j \in JobIds, retryFailedJob(j) \/ PostRequeueJob(j)
        PROVE  StayCompleted
    BY <1>6, <1>7 DEF retryFailedJob, PostRequeueJob, requeueJob, Exists
  <1>8. CASE PostPurge
    BY <1>8 DEF PostPurge, purgeQueue, StayCompleted
  <1>9. ASSUME NEW r \in RequestIds, NEW ok \in BOOLEAN, RequeueLetter(r, ok)
        PROVE  StayCompleted
    <2>1. PICK x, j : x = requests[r] /\ j = Head(x.rest)
      OBVIOUS
    <2>2. jobs' = jobs \/ QueueAdd(jobs[j].valid, jobs[j].attempts)
      BY <1>9, <2>1 DEF RequeueLetter
    <2>3. j \in DOMAIN jobs
      <3>1. x.rest \in Seq(JobIds) /\ x.rest # <<>>
        BY <1>9, <2>1 DEF RequeueLetter, QueueInv, RequestsInv, RequestType
      <3>2. 1 \in DOMAIN x.rest /\ j = x.rest[1]
        BY <2>1, <3>1
      <3> QED
        BY <2>1, <3>2 DEF QueueInv, RequestsInv, LettersInv
    <2> QED
      BY <1>3, <1>6, <2>2, <2>3
  <1>10. ASSUME NEW j \in JobIds, NEW ok \in BOOLEAN, PushDeadLetter(j, ok) PROVE jobs' = jobs
    BY <1>10 DEF PushDeadLetter
  <1>11. ASSUME NEW r \in RequestIds, NEW n \in Limits,
                processDeadLetterQueue(r, n) \/ PostRequeueFromDLQ(r, n) \/ TrimLetters(r)
         PROVE  jobs' = jobs
    BY <1>11 DEF processDeadLetterQueue, PostRequeueFromDLQ, requeueFromDLQ, TrimLetters
  <1>12. ASSUME NEW r \in RequestIds, TrimLetters(r) PROVE jobs' = jobs
    BY <1>12 DEF TrimLetters
  <1>13. CASE GetJob(1) \/ monitorJobStatus(1) \/ AnswerJobInfo \/ UNCHANGED queueVars
    BY <1>3, <1>13 DEF GetJob, monitorJobStatus, getJobInfo, AnswerJobInfo, queueVars
  <1> QED
    BY <1>3, <1>4, <1>5, <1>7, <1>8, <1>9, <1>10, <1>11, <1>12, <1>13 DEF JobQueueNext

LEMMA PollStep ==
  ASSUME QueueConstants, QueueInv, PollInv, [JobQueueNext]_queueVars
  PROVE  PollInv'
  <1>1. CASE poll' = poll
    BY <1>1, CompletedStays DEF PollInv, FirstRead, StayCompleted
  <1>2. CASE GetJob(1) \/ monitorJobStatus(1)
    <2>1. poll' = <<Snapshot(1)>> /\ jobs' = jobs /\ 1 \in DOMAIN jobs
      BY <1>2 DEF GetJob, monitorJobStatus, getJobInfo, Exists
    <2>2. Len(poll') = 1 /\ poll'[1] = Snapshot(1)
      BY <2>1
    <2>3. Snapshot(1).job = 1 /\ (Snapshot(1).result => jobs[1].state = "completed")
      BY DEF Snapshot
    <2> QED
      BY <2>1, <2>2, <2>3 DEF PollInv, FirstRead
  <1>3. CASE AnswerJobInfo
    <2>1. Len(poll) = 1 /\ poll' = <<"answer", JobState(poll[1])>>
      BY <1>3 DEF AnswerJobInfo
    <2>2. PICK a : a = JobState(poll[1])
      OBVIOUS
    <2>3. Len(poll') = 2 /\ poll'[2] = a
      BY <2>1, <2>2
    <2>4. a.status = mapJobState(jobs[poll[1].job].state) /\ (a.result => poll[1].result)
      BY <2>2 DEF JobState
    <2>5. a.result => a.status = "completed"
      BY <2>1, <2>4 DEF PollInv, FirstRead, mapJobState
    <2> QED
      BY <2>3, <2>5 DEF PollInv
  <1>4. poll' = poll \/ GetJob(1) \/ monitorJobStatus(1) \/ AnswerJobInfo
    BY DEF JobQueueNext, queueVars, queueContractDeployment, queueTtsProcessing,
           queueMarketNewsIndexing, addJob, TakeJob, Backoff, handleDeployContract,
           handleProcessTts, handleIndexMarketNews, Process, PushDeadLetter, retryFailedJob,
           PostRequeueJob, requeueJob, PostPurge, purgeQueue, processDeadLetterQueue,
           PostRequeueFromDLQ, requeueFromDLQ, RequeueLetter, TrimLetters
  <1> QED
    BY <1>1, <1>2, <1>3, <1>4

\* A client that is given a result is told the status completed, whatever
\* happens to the job between the two reads of getJobInfo.
THEOREM ResultsAreCompleted ==
  ASSUME QueueConstants PROVE JobQueueSpec => []ResultMeansCompleted
  <1>1. JobQueueInit => PollInv
    BY DEF JobQueueInit, NoPoll, PollInv
  <1>2. QueueInv /\ PollInv /\ [JobQueueNext]_queueVars => PollInv'
    BY PollStep
  <1>3. PollInv => ResultMeansCompleted
    BY DEF PollInv, ResultMeansCompleted, handleJobCompletion
  <1> QED
    BY <1>1, <1>2, <1>3, QueueInvHolds, PTL DEF JobQueueSpec

-----------------------------------------------------------------------------
(* The event monitor.  Until the first stop the service is in one of three  *)
(* phases, in each of which a kind of operation has at most one stream.     *)

Closed(k) == kindStreams[k].live = 0 /\ k \notin restarts /\ kindStreams[k].handle # "open"
Running(k) ==
  \/ kindStreams[k].live = 1 /\ k \notin restarts
  \/ kindStreams[k].live = 0 /\ k \in restarts /\ kindStreams[k].handle # "open"

Phases ==
  \/ ~isMonitoring /\ starting = 0 /\ \A k \in StreamKinds : Closed(k)
  \/ isMonitoring /\ starting = 1 /\ \A k \in StreamKinds : Closed(k)
  \/ isMonitoring /\ starting = 0 /\ \A k \in StreamKinds : Running(k)

MonitorInv ==
  /\ kindStreams \in [StreamKinds -> [live : Int, handle : {"none", "open", "failed"}]]
  /\ starting \in Nat /\ records \in Seq(Int)
  /\ ~stops => Phases /\ \A i \in DOMAIN records : records[i] = 1

\* Opening a stream.
LEMMA OpenedType ==
  ASSUME NEW x \in [live : Int, handle : {"none", "open", "failed"}]
  PROVE  /\ Opened(x) \in [live : Int, handle : {"none", "open", "failed"}]
         /\ Opened(x).live = x.live + 1
  BY DEF Opened

LEMMA MonitorStep ==
  ASSUME MonitorInv, [EventMonitorNext]_monitorVars
  PROVE  MonitorInv'
  <1>0. /\ kindStreams \in [StreamKinds -> [live : Int, handle : {"none", "open", "failed"}]]
        /\ starting \in Nat /\ records \in Seq(Int)
    BY DEF MonitorInv
  <1>1. CASE UNCHANGED monitorVars
    BY <1>1 DEF monitorVars, MonitorInv, Phases, Closed, Running
  <1>2. CASE startMonitoring
    <2>1. /\ ~isMonitoring /\ isMonitoring' /\ starting' = starting + 1
          /\ UNCHANGED <<kindStreams, restarts, records, stops>>
      BY <1>2 DEF startMonitoring
    <2>2. ASSUME ~stops PROVE Phases'
      <3>1. starting = 0 /\ \A k \in StreamKinds : Closed(k)
        BY <2>1, <2>2 DEF MonitorInv, Phases
      <3>2. \A k \in StreamKinds : Closed(k)'
        BY <2>1, <3>1 DEF Closed
      <3> QED
        BY <2>1, <3>1, <3>2 DEF Phases
    <2> QED
      BY <1>0, <2>1, <2>2 DEF MonitorInv
  <1>3. CASE stopMonitoring
    <2>1. stops' /\ UNCHANGED <<starting, records>>
      BY <1>3 DEF stopMonitoring
    <2>2. kindStreams' \in [StreamKinds -> [live : Int, handle : {"none", "open", "failed"}]]
      <3>1. \A k \in StreamKinds :
              [live |-> IF kindStreams[k].handle = "open" THEN kindStreams[k].live - 1 ELSE kindStreams[k].live,
               handle |-> "none"] \in [live : Int, handle : {"none", "open", "failed"}]
        BY <1>0
      <3> QED
        BY <1>3, <3>1 DEF stopMonitoring
    <2> QED
      BY <1>0, <2>1, <2>2 DEF MonitorInv
  <1>4. ASSUME NEW ok \in BOOLEAN, LedgerAnswered(ok)
        PROVE  MonitorInv'
    <2>1. /\ starting > 0 /\ starting' = starting - 1 /\ isMonitoring' = (ok /\ isMonitoring)
          /\ UNCHANGED <<restarts, records, stops>>
      BY <1>4 DEF LedgerAnswered
    <2>2. starting' \in Nat
      BY <1>0, <2>1
    <2>3. CASE ~ok
      <3>1. kindStreams' = kindStreams /\ ~isMonitoring'
        BY <1>4, <2>1, <2>3 DEF LedgerAnswered
      <3>2. ASSUME ~stops PROVE Phases'
        <4>1. starting = 1 /\ \A k \in StreamKinds : Closed(k)
          BY <1>0, <2>1, <3>2 DEF MonitorInv, Phases
        <4>2. \A k \in StreamKinds : Closed(k)'
          BY <2>1, <3>1, <4>1 DEF Closed
        <4> QED
          BY <2>1, <3>1, <4>1, <4>2 DEF Phases
      <3> QED
        BY <1>0, <2>1, <2>2, <3>1, <3>2 DEF MonitorInv
    <2>4. CASE ok
      <3>1. kindStreams' = startOfferStream(startPaymentStream(kindStreams))
        BY <1>4, <2>4 DEF LedgerAnswered
      <3>2. /\ DOMAIN kindStreams' = StreamKinds
            /\ \A k \in StreamKinds : kindStreams'[k] = Opened(kindStreams[k])
        BY <1>0, <3>1 DEF startOfferStream, startPaymentStream, StreamKinds
      <3>3. \A k \in StreamKinds :
              /\ kindStreams'[k] \in [live : Int, handle : {"none", "open", "failed"}]
              /\ kindStreams'[k].live = kindStreams[k].live + 1
        BY <1>0, <3>2, OpenedType
      <3>4. kindStreams' \in [StreamKinds -> [live : Int, handle : {"none", "open", "failed"}]]
        <4>1. kindStreams' = [k \in StreamKinds |-> kindStreams'[k]]
          BY <1>0, <3>1 DEF startOfferStream, startPaymentStream, StreamKinds
        <4> QED
          BY <3>3, <4>1
      <3>5. ASSUME ~stops PROVE Phases'
        <4>1. isMonitoring /\ starting = 1 /\ \A k \in StreamKinds : Closed(k)
          BY <1>0, <2>1, <3>5 DEF MonitorInv, Phases
        <4>2. ASSUME NEW k \in StreamKinds PROVE Running(k)'
          <5>1. kindStreams[k].live = 0 /\ k \notin restarts'
            BY <2>1, <4>1 DEF Closed
          <5>2. kindStreams'[k].live = 1
            BY <3>3, <5>1
          <5> QED
            BY <5>1, <5>2 DEF Running
        <4>3. starting' = 0
          BY <2>1, <4>1
        <4>4. isMonitoring'
          BY <2>1, <2>4, <4>1, Zenon
        <4> QED
          BY <4>2, <4>3, <4>4 DEF Phases
      <3> QED
        BY <1>0, <2>1, <2>2, <3>4, <3>5 DEF MonitorInv
    <2> QED
      BY <2>3, <2>4
  <1>5. ASSUME NEW k \in StreamKinds, StreamFails(k)
        PROVE  MonitorInv'
    <2>1. /\ kindStreams[k].handle = "open" /\ k \notin restarts /\ restarts' = restarts \cup {k}
          /\ UNCHANGED <<isMonitoring, starting, records, stops>>
      BY <1>5 DEF StreamFails
    <2>2. PICK x : x = [live |-> kindStreams[k].live - 1, handle |-> "failed"]
      OBVIOUS
    <2>3. /\ x \in [live : Int, handle : {"none", "open", "failed"}]
          /\ x.live = kindStreams[k].live - 1 /\ x.handle # "open"
      BY <1>0, <2>2
    <2>4. kindStreams' = [kindStreams EXCEPT ![k] = x]
      BY <1>5, <2>2 DEF StreamFails
    <2>5. /\ kindStreams' \in [StreamKinds -> [live : Int, handle : {"none", "open", "failed"}]]
          /\ kindStreams'[k] = x /\ \A j \in StreamKinds : j # k => kindStreams'[j] = kindStreams[j]
      BY <1>0, <2>3, <2>4
    <2>6. ASSUME ~stops PROVE Phases'
      <3>1. isMonitoring /\ starting = 0 /\ \A j \in StreamKinds : Running(j)
        BY <2>1, <2>6 DEF MonitorInv, Phases, Closed
      <3>2. \A j \in StreamKinds : Running(j)'
        BY <2>1, <2>3, <2>5, <3>1 DEF Running
      <3> QED
        BY <2>1, <3>1, <3>2 DEF Phases
    <2> QED
      BY <1>0, <2>1, <2>5, <2>6 DEF MonitorInv
  <1>6. ASSUME NEW k \in StreamKinds, RestartTimer(k)
        PROVE  MonitorInv'
    <2>1. /\ k \in restarts /\ restarts' = restarts \ {k}
          /\ UNCHANGED <<isMonitoring, starting, records, stops>>
      BY <1>6 DEF RestartTimer
    <2>2. ~isMonitoring => kindStreams' = kindStreams
      BY <1>6 DEF RestartTimer
    <2>3. isMonitoring => kindStreams' = [kindStreams EXCEPT ![k] = Opened(kindStreams[k])]
      BY <1>6 DEF RestartTimer, startPaymentStream, startOfferStream, StreamKinds
    <2>4. isMonitoring =>
            /\ kindStreams' \in [StreamKinds -> [live : Int, handle : {"none", "open", "failed"}]]
            /\ kindStreams'[k].live = kindStreams[k].live + 1
            /\ \A j \in StreamKinds : j # k => kindStreams'[j] = kindStreams[j]
      <3> SUFFICES ASSUME isMonitoring
                   PROVE  /\ kindStreams' \in [StreamKinds -> [live : Int, handle : {"none", "open", "failed"}]]
                          /\ kindStreams'[k].live = kindStreams[k].live + 1
                          /\ \A j \in StreamKinds : j # k => kindStreams'[j] = kindStreams[j]
        OBVIOUS
      <3>1. PICK x : x = Opened(kindStreams[k])
        OBVIOUS
      <3>2. /\ x \in [live : Int, handle : {"none", "open", "failed"}]
            /\ x.live = kindStreams[k].live + 1
        BY <1>0, <3>1, OpenedType
      <3>3. kindStreams' = [kindStreams EXCEPT ![k] = x]
        BY <2>3, <3>1
      <3>4. kindStreams'[k] = x
        BY <1>0, <3>3
      <3> QED
        BY <1>0, <3>2, <3>3, <3>4
    <2>5. ASSUME ~stops PROVE Phases'
      <3>1. isMonitoring /\ starting = 0 /\ \A j \in StreamKinds : Running(j)
        BY <2>1, <2>5 DEF MonitorInv, Phases, Closed
      <3>2. \A j \in StreamKinds : Running(j)'
        BY <2>1, <2>4, <3>1 DEF Running
      <3> QED
        BY <2>1, <3>1, <3>2 DEF Phases
    <2> QED
      BY <1>0, <2>1, <2>2, <2>4, <2>5 DEF MonitorInv
  <1>7. ASSUME NEW k \in StreamKinds, Operation(k)
        PROVE  MonitorInv'
    <2>1. /\ kindStreams[k].live > 0 /\ records' = Append(records, kindStreams[k].live)
          /\ UNCHANGED <<isMonitoring, starting, kindStreams, restarts, stops>>
      BY <1>7 DEF Operation
    <2>2. kindStreams[k].live \in Int
      BY <1>0
    <2>3. records' \in Seq(Int)
      BY <1>0, <2>1, <2>2
    <2>4. ASSUME ~stops PROVE Phases' /\ \A i \in DOMAIN records' : records'[i] = 1
      <3>1. kindStreams[k].live = 1 /\ Phases /\ \A i \in DOMAIN records : records[i] = 1
        BY <2>1, <2>4 DEF MonitorInv, Phases, Closed, Running
      <3>2. \A i \in DOMAIN records' : records'[i] = 1
        BY <1>0, <2>1, <3>1
      <3>3. Phases'
        BY <2>1, <3>1 DEF Phases, Closed, Running
      <3> QED
        BY <3>2, <3>3
    <2> QED
      BY <1>0, <2>1, <2>3, <2>4 DEF MonitorInv
  <1>8. CASE handlePaymentEvent \/ handleOfferEvent
    BY <1>7, <1>8 DEF handlePaymentEvent, handleOfferEvent, StreamKinds
  <1> QED
    BY <1>1, <1>2, <1>3, <1>4, <1>5, <1>6, <1>8 DEF EventMonitorNext

\* Whatever streams fail and are restarted, an operation is recorded once, until
\* somebody stops the monitor.
THEOREM OperationsRecordedOnce == EventMonitorSpec => []RecordedOnce
  <1>1. EventMonitorInit => MonitorInv
    <2> SUFFICES ASSUME EventMonitorInit PROVE MonitorInv
      OBVIOUS
    <2>1. NoStream \in [live : Int, handle : {"none", "open", "failed"}]
          /\ NoStream.live = 0 /\ NoStream.handle # "open"
      BY DEF NoStream
    <2>2. /\ kindStreams = [k \in StreamKinds |-> NoStream] /\ restarts = {} /\ records = <<>>
          /\ ~isMonitoring /\ starting = 0
      BY DEF EventMonitorInit
    <2>3. \A k \in StreamKinds : Closed(k)
      BY <2>1, <2>2 DEF Closed
    <2>4. records \in Seq(Int) /\ \A i \in DOMAIN records : FALSE
      BY <2>2
    <2> QED
      BY <2>1, <2>2, <2>3, <2>4 DEF MonitorInv, Phases
  <1>2. MonitorInv /\ [EventMonitorNext]_monitorVars => MonitorInv'
    BY MonitorStep
  <1>3. MonitorInv => RecordedOnce
    BY DEF MonitorInv, RecordedOnce
  <1> QED
    BY <1>1, <1>2, <1>3, PTL DEF EventMonitorSpec
-----------------------------------------------------------------------------
(* Webhook deliveries.  As long as neither row is deleted, an event is on    *)
(* its way to a consumer in at most one place: the queue, a delivery in      *)
(* progress or a retry's timer; and where it can still be posted nobody has  *)
(* answered for it.                                                          *)

DeliveryConstants ==
  /\ BatchSize \in Nat /\ MaxEvents \in Nat /\ Nobody \notin ConsumerIds /\ IsFiniteSet(ConsumerIds)
  /\ RetryLimits \subseteq Nat /\ \E m \in RetryLimits : \A n \in RetryLimits : n <= m

Of(item, e, c) == item.event = e /\ item.consumer = c
ItemQueued(e, c) == {i \in DOMAIN deliveryQueue : Of(deliveryQueue[i], e, c)}
InProgress(e, c) == {d \in deliveries : Of(d.item, e, c)}
InRetry(e, c) == {r \in retries : Of(r, e, c)}

\* The steps of a delivery after which the event may be posted, or posted again.
Unposted == {"check", "post", "failStats", "saveFailStats", "findFailed", "saveFailed"}

Lone(S) == \A x, y \in S : x = y
OnePlace(e, c) ==
  /\ Lone(ItemQueued(e, c)) /\ Lone(InProgress(e, c)) /\ Lone(InRetry(e, c))
  /\ ItemQueued(e, c) # {} => InProgress(e, c) = {} /\ InRetry(e, c) = {}
  /\ InProgress(e, c) # {} => InRetry(e, c) = {}
Unanswered(e, c) ==
  /\ ItemQueued(e, c) # {} => confirmed[<<e, c>>] = 0
  /\ InRetry(e, c) # {} => confirmed[<<e, c>>] = 0
  /\ \A d \in InProgress(e, c) : d.pc \in Unposted => confirmed[<<e, c>>] = 0
NotYet(e, c) ==
  e \in arrivals \/ e > saved =>
    ItemQueued(e, c) = {} /\ InProgress(e, c) = {} /\ InRetry(e, c) = {} /\ confirmed[<<e, c>>] = 0
RowsThere(e, c) ==
  /\ ItemQueued(e, c) # {} \/ InProgress(e, c) # {} \/ InRetry(e, c) # {} => c \in DOMAIN consumers
  /\ e <= saved => e \in DOMAIN events
PairOk(e, c) ==
  OnePlace(e, c) /\ Unanswered(e, c) /\ NotYet(e, c) /\ RowsThere(e, c) /\ confirmed[<<e, c>>] <= 1

Undeleted(e, c) == <<"event", e>> \notin erased /\ <<"consumer", c>> \notin erased
IsSequence(q) == \E S : q \in Seq(S)
QueueTyped ==
  /\ IsSequence(deliveryQueue) /\ saved \in Nat /\ arrivals \subseteq 1 .. saved
  /\ confirmed \in [EventIds \X ConsumerIds -> Nat] /\ IsFiniteSet(DOMAIN consumers)
DeliveryInv ==
  QueueTyped /\ \A e \in EventIds, c \in ConsumerIds : Undeleted(e, c) => PairOk(e, c)

LEMMA CapType ==
  ASSUME DeliveryConstants
  PROVE  PostCap \in Nat /\ PostCap >= 1
  <1> DEFINE top == CHOOSE m \in RetryLimits : \A n \in RetryLimits : n <= m
  <1>1. top \in RetryLimits
    BY DEF DeliveryConstants
  <1>2. top \in Nat
    BY <1>1 DEF DeliveryConstants
  <1> QED
    BY <1>2 DEF PostCap

\* Rows are added and changed but not taken away.
RowsKept == DOMAIN consumers \subseteq DOMAIN consumers' /\ DOMAIN events \subseteq DOMAIN events'

\* A delivery goes on to its next await.
LEMMA PairSteps ==
  ASSUME NEW e \in EventIds, NEW c \in ConsumerIds, PairOk(e, c), NEW d \in deliveries, NEW x, x.item = d.item,
         deliveries' = (deliveries \ {d}) \cup {x}, UNCHANGED <<deliveryQueue, retries, arrivals, saved>>,
         RowsKept,
         ~Of(d.item, e, c) => confirmed'[<<e, c>>] = confirmed[<<e, c>>],
         Of(d.item, e, c) => confirmed'[<<e, c>>] <= 1 /\ (x.pc \in Unposted => confirmed'[<<e, c>>] = 0)
  PROVE  PairOk(e, c)'
  <1>0. OnePlace(e, c) /\ Unanswered(e, c) /\ NotYet(e, c) /\ RowsThere(e, c) /\ confirmed[<<e, c>>] <= 1
    BY DEF PairOk
  <1>1. ItemQueued(e, c)' = ItemQueued(e, c) /\ InRetry(e, c)' = InRetry(e, c)
    BY DEF ItemQueued, InRetry
  <1>2. CASE ~Of(d.item, e, c)
    <2>1. InProgress(e, c)' = InProgress(e, c)
      BY <1>2 DEF InProgress, Of
    <2>2. confirmed'[<<e, c>>] = confirmed[<<e, c>>]
      BY <1>2
    <2>3. OnePlace(e, c)' /\ Unanswered(e, c)'
      BY <1>0, <1>1, <2>1, <2>2 DEF OnePlace, Unanswered
    <2>4. NotYet(e, c)' /\ RowsThere(e, c)'
      BY <1>0, <1>1, <2>1, <2>2 DEF NotYet, RowsThere, RowsKept
    <2> QED
      BY <1>0, <2>2, <2>3, <2>4 DEF PairOk
  <1>3. CASE Of(d.item, e, c)
    <2>1. d \in InProgress(e, c)
      BY <1>3 DEF InProgress
    <2>2. InProgress(e, c) = {d} /\ ItemQueued(e, c) = {} /\ InRetry(e, c) = {}
      BY <1>0, <2>1 DEF OnePlace, Lone
    <2>3. InProgress(e, c)' = {x}
      <3>1. \A y \in deliveries : y # d => ~Of(y.item, e, c)
        BY <2>2 DEF InProgress
      <3> QED
        BY <1>3, <3>1 DEF InProgress
    <2>4. ~(e \in arrivals \/ e > saved) /\ c \in DOMAIN consumers
      BY <1>0, <2>1 DEF NotYet, RowsThere
    <2>5. OnePlace(e, c)' /\ Unanswered(e, c)'
      BY <1>1, <1>3, <2>2, <2>3 DEF OnePlace, Unanswered, Lone
    <2>6. NotYet(e, c)' /\ RowsThere(e, c)'
      BY <1>0, <2>4 DEF NotYet, RowsThere, RowsKept
    <2> QED
      BY <1>3, <2>5, <2>6 DEF PairOk
  <1> QED
    BY <1>2, <1>3

\* A delivery ends, or ends with a retry of what was not answered.
LEMMA PairEnds ==
  ASSUME NEW e \in EventIds, NEW c \in ConsumerIds, PairOk(e, c), NEW d \in deliveries,
         deliveries' = deliveries \ {d}, UNCHANGED <<deliveryQueue, arrivals, saved, confirmed>>, RowsKept,
         retries' = retries \/ (retries' = retries \cup {d.item} /\ d.pc \in Unposted)
  PROVE  PairOk(e, c)'
  <1>0. OnePlace(e, c) /\ Unanswered(e, c) /\ NotYet(e, c) /\ RowsThere(e, c) /\ confirmed[<<e, c>>] <= 1
    BY DEF PairOk
  <1>1. ItemQueued(e, c)' = ItemQueued(e, c) /\ InProgress(e, c)' = InProgress(e, c) \ {d}
    BY DEF ItemQueued, InProgress
  <1>2. CASE ~Of(d.item, e, c) \/ retries' = retries
    <2>1. InRetry(e, c)' = InRetry(e, c)
      BY <1>2 DEF InRetry
    <2>2. OnePlace(e, c)' /\ Unanswered(e, c)'
      BY <1>0, <1>1, <2>1 DEF OnePlace, Unanswered, Lone
    <2>3. NotYet(e, c)' /\ RowsThere(e, c)'
      BY <1>0, <1>1, <2>1 DEF NotYet, RowsThere, RowsKept
    <2> QED
      BY <1>0, <2>2, <2>3 DEF PairOk
  <1>3. CASE Of(d.item, e, c) /\ retries' = retries \cup {d.item} /\ d.pc \in Unposted
    <2>1. d \in InProgress(e, c)
      BY <1>3 DEF InProgress
    <2>2. InProgress(e, c) = {d} /\ ItemQueued(e, c) = {} /\ InRetry(e, c) = {}
      BY <1>0, <2>1 DEF OnePlace, Lone
    <2>3. InRetry(e, c)' = {d.item} /\ InProgress(e, c)' = {}
      BY <1>1, <1>3, <2>2 DEF InRetry
    <2>4. confirmed[<<e, c>>] = 0 /\ ~(e \in arrivals \/ e > saved) /\ c \in DOMAIN consumers
      BY <1>0, <1>3, <2>1 DEF Unanswered, NotYet, RowsThere
    <2>5. OnePlace(e, c)' /\ Unanswered(e, c)'
      BY <1>1, <2>2, <2>3, <2>4 DEF OnePlace, Unanswered, Lone
    <2>6. NotYet(e, c)' /\ RowsThere(e, c)'
      BY <1>0, <2>4 DEF NotYet, RowsThere, RowsKept
    <2> QED
      BY <1>0, <2>5, <2>6 DEF PairOk
  <1> QED
    BY <1>2, <1>3

\* Nothing on the way changes.
LEMMA PairRests ==
  ASSUME NEW e \in EventIds, NEW c \in ConsumerIds, PairOk(e, c), saved' \in Nat, saved \in Nat,
         UNCHANGED <<deliveryQueue, deliveries, retries, confirmed>>,
         (e \in arrivals' \/ e > saved') => (e \in arrivals \/ e > saved),
         c \in DOMAIN consumers => c \in DOMAIN consumers', e <= saved' => e \in DOMAIN events'
  PROVE  PairOk(e, c)'
  <1>0. OnePlace(e, c) /\ Unanswered(e, c) /\ NotYet(e, c) /\ RowsThere(e, c) /\ confirmed[<<e, c>>] <= 1
    BY DEF PairOk
  <1>1. /\ ItemQueued(e, c)' = ItemQueued(e, c) /\ InProgress(e, c)' = InProgress(e, c)
        /\ InRetry(e, c)' = InRetry(e, c)
    BY DEF ItemQueued, InProgress, InRetry
  <1>2. OnePlace(e, c)' /\ Unanswered(e, c)'
    BY <1>0, <1>1 DEF OnePlace, Unanswered
  <1>3. NotYet(e, c)' /\ RowsThere(e, c)'
    BY <1>0, <1>1 DEF NotYet, RowsThere
  <1> QED
    BY <1>0, <1>2, <1>3 DEF PairOk
LEMMA RowAdded ==
  ASSUME NEW f, NEW k, NEW v
  PROVE  /\ DOMAIN f \subseteq DOMAIN With(f, k, v)
         /\ IsFiniteSet(DOMAIN f) => IsFiniteSet(DOMAIN With(f, k, v))
  <1>1. DOMAIN With(f, k, v) = DOMAIN f \cup {k}
    BY DEF With
  <1>2. IsFiniteSet(DOMAIN f) => IsFiniteSet(DOMAIN f \cup {k})
    BY FS_AddElement
  <1> QED
    BY <1>1, <1>2

LEMMA RowRemoved ==
  ASSUME NEW f, NEW k
  PROVE  /\ DOMAIN Minus(f, k) = DOMAIN f \ {k}
         /\ IsFiniteSet(DOMAIN f) => IsFiniteSet(DOMAIN Minus(f, k))
  <1>1. DOMAIN Minus(f, k) = DOMAIN f \ {k}
    BY DEF Minus
  <1>2. IsFiniteSet(DOMAIN f) => IsFiniteSet(DOMAIN f \ {k})
    BY FS_RemoveElement
  <1> QED
    BY <1>1, <1>2

\* What a delivery's step may do, in the two ways it can go on.
DeliveryMoves(d, x) ==
  /\ x.item = d.item /\ deliveries' = (deliveries \ {d}) \cup {x}
  /\ UNCHANGED <<deliveryQueue, retries, arrivals, saved, erased>> /\ RowsKept /\ IsFiniteSet(DOMAIN consumers')
DeliveryEnds(d) ==
  /\ deliveries' = deliveries \ {d}
  /\ UNCHANGED <<deliveryQueue, arrivals, saved, erased, confirmed>> /\ RowsKept /\ IsFiniteSet(DOMAIN consumers')
  /\ retries' = retries \/ (retries' = retries \cup {d.item} /\ d.pc \in Unposted)

LEMMA MovesKeep ==
  ASSUME DeliveryInv, NEW d \in deliveries, NEW x, DeliveryMoves(d, x), confirmed' = confirmed,
         \A e \in EventIds, c \in ConsumerIds :
           PairOk(e, c) /\ Of(d.item, e, c) /\ x.pc \in Unposted => confirmed[<<e, c>>] = 0
  PROVE  DeliveryInv'
  <1>1. QueueTyped'
    BY DEF DeliveryInv, QueueTyped, DeliveryMoves
  <1>2. ASSUME NEW e \in EventIds, NEW c \in ConsumerIds, Undeleted(e, c)' PROVE PairOk(e, c)'
    <2>1. PairOk(e, c)
      BY <1>2 DEF DeliveryInv, DeliveryMoves, Undeleted
    <2>2. confirmed[<<e, c>>] <= 1
      BY <2>1 DEF PairOk
    <2> QED
      BY <2>1, <2>2, PairSteps DEF DeliveryMoves
  <1> QED
    BY <1>1, <1>2 DEF DeliveryInv

LEMMA EndsKeep ==
  ASSUME DeliveryInv, NEW d \in deliveries, DeliveryEnds(d)
  PROVE  DeliveryInv'
  <1>1. QueueTyped'
    BY DEF DeliveryInv, QueueTyped, DeliveryEnds
  <1>2. ASSUME NEW e \in EventIds, NEW c \in ConsumerIds, Undeleted(e, c)' PROVE PairOk(e, c)'
    <2>1. PairOk(e, c)
      BY <1>2 DEF DeliveryInv, DeliveryEnds, Undeleted
    <2> QED
      BY <2>1, PairEnds DEF DeliveryEnds
  <1> QED
    BY <1>1, <1>2 DEF DeliveryInv

\* A delivery whose event may still be posted has not been answered, so one that
\* goes on to a step of the same sort keeps the invariant.
LEMMA UnpostedKeeps ==
  ASSUME DeliveryInv, NEW d \in deliveries, NEW x, DeliveryMoves(d, x), confirmed' = confirmed,
         d.pc \in Unposted \/ x.pc \notin Unposted
  PROVE  DeliveryInv'
  <1>1. ASSUME NEW e \in EventIds, NEW c \in ConsumerIds, PairOk(e, c), Of(d.item, e, c), x.pc \in Unposted
        PROVE  confirmed[<<e, c>>] = 0
    BY <1>1 DEF PairOk, Unanswered, InProgress
  <1> QED
    BY <1>1, MovesKeep

LEMMA DeliverySteps ==
  ASSUME DeliveryInv, DeliveryConstants, NEW d \in deliveries,
         \/ CheckConsumer(d) \/ (\E ok \in BOOLEAN : attemptDelivery(d, ok)) \/ FindEvent(d) \/ SaveEvent(d)
         \/ FindConsumer(d) \/ SaveStats(d) \/ MarkIfAll(d) \/ handleFailedDelivery(d)
  PROVE  DeliveryInv'
  <1>0. /\ QueueTyped /\ IsFiniteSet(DOMAIN consumers)
    BY DEF DeliveryInv, QueueTyped
  <1>1. ASSUME NEW pc, NEW row, Step(d, pc, row), UNCHANGED <<deliveryQueue, retries, arrivals, saved, erased>>,
               RowsKept, IsFiniteSet(DOMAIN consumers')
        PROVE  \E x : DeliveryMoves(d, x) /\ x.pc = pc
    <2>1. PICK x : x = Delivery(d.item, pc, row)
      OBVIOUS
    <2>2. x.item = d.item /\ x.pc = pc
      BY <2>1 DEF Delivery
    <2> QED
      BY <1>1, <2>1, <2>2 DEF Step, DeliveryMoves
  <1>2. ASSUME Finish(d) \/ Reject(d), UNCHANGED <<deliveryQueue, arrivals, saved, erased, confirmed>>,
               RowsKept, IsFiniteSet(DOMAIN consumers'),
               retries' = retries \/ (retries' = retries \cup {d.item} /\ d.pc \in Unposted)
        PROVE  DeliveryInv'
    <2>1. DeliveryEnds(d)
      BY <1>2 DEF Finish, Reject, DeliveryEnds
    <2> QED
      BY <2>1, EndsKeep
  <1>3. ASSUME NEW pc, NEW row, Step(d, pc, row), UNCHANGED <<deliveryQueue, retries, arrivals, saved, erased, confirmed>>,
               RowsKept, IsFiniteSet(DOMAIN consumers'), d.pc \in Unposted \/ pc \notin Unposted
        PROVE  DeliveryInv'
    <2>1. PICK x : DeliveryMoves(d, x) /\ x.pc = pc
      BY <1>1, <1>3
    <2> QED
      BY <1>3, <2>1, UnpostedKeeps
  \* A delivery that was answered is not posted again for want of a row.
  <1>4. ASSUME NEW pc, NEW row, Step(d, pc, row), UNCHANGED <<deliveryQueue, retries, arrivals, saved, erased, confirmed>>,
               RowsKept, IsFiniteSet(DOMAIN consumers'),
               d.item.event \notin DOMAIN events \/ d.item.consumer \notin DOMAIN consumers
        PROVE  DeliveryInv'
    <2>1. PICK x : DeliveryMoves(d, x) /\ x.pc = pc
      BY <1>1, <1>4
    <2>2. ASSUME NEW e \in EventIds, NEW c \in ConsumerIds, PairOk(e, c), Of(d.item, e, c) PROVE FALSE
      <3>1. d \in InProgress(e, c)
        BY <2>2 DEF InProgress
      <3>2. c \in DOMAIN consumers /\ ~(e > saved)
        BY <2>2, <3>1 DEF PairOk, RowsThere, NotYet
      <3>3. e <= saved
        BY <1>0, <3>2 DEF EventIds, QueueTyped, DeliveryConstants
      <3>4. e \in DOMAIN events
        BY <2>2, <3>3 DEF PairOk, RowsThere
      <3> QED
        BY <1>4, <2>2, <3>2, <3>4 DEF Of
    <2> QED
      BY <1>4, <2>1, <2>2, MovesKeep
  <1>5. CASE CheckConsumer(d)
    <2>1. /\ d.pc = "check" /\ UNCHANGED <<deliveryQueue, retries, arrivals, saved, erased, confirmed, consumers, events>>
          /\ Step(d, "failStats", Gone) \/ Step(d, "post", Gone) \/ Finish(d)
      BY <1>5 DEF CheckConsumer, QueueAlone, consumerVars
    <2>2. RowsKept /\ IsFiniteSet(DOMAIN consumers') /\ d.pc \in Unposted
      BY <1>0, <2>1 DEF RowsKept, Unposted
    <2> QED
      BY <1>2, <1>3, <2>1, <2>2
  <1>6. ASSUME NEW ok \in BOOLEAN, attemptDelivery(d, ok)
        PROVE  DeliveryInv'
    <2>1. /\ d.pc = "post" /\ UNCHANGED <<deliveryQueue, retries, arrivals, saved, erased, consumers, events>>
      BY <1>6 DEF attemptDelivery, QueueAlone, consumerVars
    <2>2. RowsKept /\ IsFiniteSet(DOMAIN consumers') /\ d.pc \in Unposted
      BY <1>0, <2>1 DEF RowsKept, Unposted
    <2>3. CASE ~ok
      <3>1. confirmed' = confirmed /\ Step(d, "failStats", Gone)
        BY <1>6, <2>3 DEF attemptDelivery
      <3> QED
        BY <1>3, <2>1, <2>2, <3>1
    <2>4. CASE ok
      <3>1. PICK p : p = <<d.item.event, d.item.consumer>>
        OBVIOUS
      <3>2. confirmed' = [confirmed EXCEPT ![p] = Capped(confirmed[p] + 1)] /\ Step(d, "findDelivered", Gone)
        BY <1>6, <2>4, <3>1 DEF attemptDelivery
      <3>3. PICK x : DeliveryMoves(d, x) /\ x.pc = "findDelivered"
        BY <1>1, <2>1, <2>2, <3>2
      <3>4. x.pc \notin Unposted
        BY <3>3 DEF Unposted
      <3>5. confirmed \in [EventIds \X ConsumerIds -> Nat]
        BY <1>0 DEF QueueTyped
      <3>6. \A q \in EventIds \X ConsumerIds : q # p => confirmed'[q] = confirmed[q]
        BY <3>2, <3>5
      <3>7. ASSUME p \in EventIds \X ConsumerIds
            PROVE  confirmed'[p] \in Nat /\ (confirmed[p] = 0 => confirmed'[p] <= 1)
        <4>1. PICK n \in Nat : n = confirmed[p]
          BY <3>5, <3>7
        <4>2. PICK cap \in Nat : cap = PostCap
          BY CapType
        <4>3. confirmed'[p] = Capped(n + 1)
          BY <3>2, <3>5, <3>7, <4>1
        <4>4. Capped(n + 1) \in Nat /\ (n = 0 => Capped(n + 1) <= 1)
          BY <4>2 DEF Capped
        <4> QED
          BY <4>1, <4>3, <4>4
      <3>8. confirmed' \in [EventIds \X ConsumerIds -> Nat]
        <4>1. confirmed' = [q \in EventIds \X ConsumerIds |-> confirmed'[q]]
          BY <3>2, <3>5
        <4>2. \A q \in EventIds \X ConsumerIds : confirmed'[q] \in Nat
          BY <3>5, <3>6, <3>7
        <4> QED
          BY <4>1, <4>2
      <3>9. QueueTyped'
        BY <1>0, <2>1, <2>2, <3>8 DEF QueueTyped
      <3>10. ASSUME NEW e \in EventIds, NEW c \in ConsumerIds, Undeleted(e, c)' PROVE PairOk(e, c)'
        <4>1. PairOk(e, c)
          BY <2>1, <3>10 DEF DeliveryInv, Undeleted
        <4>2. <<e, c>> \in EventIds \X ConsumerIds
          OBVIOUS
        <4>3. ~Of(d.item, e, c) => confirmed'[<<e, c>>] = confirmed[<<e, c>>]
          BY <3>1, <3>6, <4>2 DEF Of
        <4>4. Of(d.item, e, c) => confirmed'[<<e, c>>] <= 1
          <5> SUFFICES ASSUME Of(d.item, e, c) PROVE confirmed'[<<e, c>>] <= 1
            OBVIOUS
          <5>1. p = <<e, c>>
            BY <3>1 DEF Of
          <5>2. confirmed[<<e, c>>] = 0
            BY <2>2, <4>1 DEF PairOk, Unanswered, InProgress
          <5> QED
            BY <3>7, <4>2, <5>1, <5>2
        <4> QED
          BY <3>3, <3>4, <4>1, <4>3, <4>4, PairSteps DEF DeliveryMoves
      <3> QED
        BY <3>9, <3>10 DEF DeliveryInv
    <2> QED
      BY <2>3, <2>4
  <1>7. CASE FindEvent(d)
    <2>1. UNCHANGED <<deliveryQueue, retries, arrivals, saved, erased, confirmed, consumers, events>>
      BY <1>7 DEF FindEvent, QueueAlone, consumerVars
    <2>2. RowsKept /\ IsFiniteSet(DOMAIN consumers')
      BY <1>0, <2>1 DEF RowsKept
    <2>3. CASE d.item.event \notin DOMAIN events
      <3>1. Step(d, "failStats", Gone) \/ Finish(d) \/ Reject(d)
        BY <1>7, <2>3 DEF FindEvent
      <3> QED
        BY <1>2, <1>4, <2>1, <2>2, <2>3, <3>1
    <2>4. CASE d.item.event \in DOMAIN events /\ d.pc = "findDelivered"
      <3>1. \E row : Step(d, "saveDelivered", row)
        BY <1>7, <2>4 DEF FindEvent
      <3>2. "saveDelivered" \notin Unposted
        BY DEF Unposted
      <3> QED
        BY <1>3, <2>1, <2>2, <3>1, <3>2
    <2>5. CASE d.item.event \in DOMAIN events /\ d.pc = "findFailed"
      <3>1. \E row : Step(d, "saveFailed", row)
        BY <1>7, <2>5 DEF FindEvent
      <3>2. d.pc \in Unposted
        BY <2>5 DEF Unposted
      <3> QED
        BY <1>3, <2>1, <2>2, <3>1, <3>2
    <2>6. CASE d.item.event \in DOMAIN events /\ d.pc = "findDone"
      <3>1. \E row : Step(d, "saveDone", row)
        BY <1>7, <2>6 DEF FindEvent
      <3>2. "saveDone" \notin Unposted
        BY DEF Unposted
      <3> QED
        BY <1>3, <2>1, <2>2, <3>1, <3>2
    <2>7. d.pc \in {"findDelivered", "findFailed", "findDone"}
      BY <1>7 DEF FindEvent
    <2> QED
      BY <2>3, <2>4, <2>5, <2>6, <2>7
  <1>8. CASE SaveEvent(d)
    <2>1. /\ UNCHANGED <<deliveryQueue, retries, arrivals, saved, erased, confirmed, consumers>>
          /\ events' = With(events, d.item.event, d.row[1])
          /\ Step(d, "stats", Gone) \/ Finish(d)
      BY <1>8 DEF SaveEvent, QueueAlone, consumerVars
    <2>2. RowsKept /\ IsFiniteSet(DOMAIN consumers') /\ "stats" \notin Unposted
      BY <1>0, <2>1, RowAdded DEF RowsKept, Unposted
    <2> QED
      BY <1>2, <1>3, <2>1, <2>2
  <1>9. CASE FindConsumer(d)
    <2>1. /\ UNCHANGED <<deliveryQueue, retries, arrivals, saved, erased, confirmed, consumers, events>>
          /\ d.pc \in {"stats", "failStats"}
      BY <1>9 DEF FindConsumer, QueueAlone, consumerVars
    <2>2. RowsKept /\ IsFiniteSet(DOMAIN consumers')
      BY <1>0, <2>1 DEF RowsKept
    <2>3. CASE d.item.consumer \notin DOMAIN consumers
      <3>1. Step(d, "failStats", Gone) \/ Reject(d)
        BY <1>9, <2>1, <2>3 DEF FindConsumer
      <3> QED
        BY <1>2, <1>4, <2>1, <2>2, <2>3, <3>1
    <2>4. CASE d.item.consumer \in DOMAIN consumers /\ d.pc = "stats"
      <3>1. \E row : Step(d, "saveStats", row)
        BY <1>9, <2>4 DEF FindConsumer
      <3>2. "saveStats" \notin Unposted
        BY DEF Unposted
      <3> QED
        BY <1>3, <2>1, <2>2, <3>1, <3>2
    <2>5. CASE d.item.consumer \in DOMAIN consumers /\ d.pc = "failStats"
      <3>1. \E row : Step(d, "saveFailStats", row)
        BY <1>9, <2>5 DEF FindConsumer
      <3>2. d.pc \in Unposted
        BY <2>5 DEF Unposted
      <3> QED
        BY <1>3, <2>1, <2>2, <3>1, <3>2
    <2> QED
      BY <2>1, <2>3, <2>4, <2>5
  <1>10. CASE SaveStats(d)
    <2>1. /\ UNCHANGED <<deliveryQueue, retries, arrivals, saved, erased, confirmed, events>>
          /\ consumers' = With(consumers, d.item.consumer, d.row[1]) /\ Step(d, "active", Gone)
      BY <1>10 DEF SaveStats
    <2>2. RowsKept /\ IsFiniteSet(DOMAIN consumers') /\ "active" \notin Unposted
      BY <1>0, <2>1, RowAdded DEF RowsKept, Unposted
    <2> QED
      BY <1>3, <2>1, <2>2
  <1>11. CASE MarkIfAll(d)
    <2>1. /\ UNCHANGED <<deliveryQueue, retries, arrivals, saved, erased, confirmed, consumers, events>>
          /\ Step(d, "findDone", Gone) \/ Finish(d)
      BY <1>11 DEF MarkIfAll, QueueAlone, consumerVars
    <2>2. RowsKept /\ IsFiniteSet(DOMAIN consumers') /\ "findDone" \notin Unposted
      BY <1>0, <2>1 DEF RowsKept, Unposted
    <2> QED
      BY <1>2, <1>3, <2>1, <2>2
  <1>12. CASE handleFailedDelivery(d)
    <2>1. /\ d.pc = "saveFailStats" /\ UNCHANGED <<deliveryQueue, arrivals, saved, erased, confirmed, events>>
          /\ consumers' = With(consumers, d.item.consumer, d.row[1])
          /\ \/ Step(d, "findFailed", Gone) /\ retries' = retries
             \/ Finish(d) /\ retries' = retries \cup {d.item}
      BY <1>12 DEF handleFailedDelivery
    <2>2. RowsKept /\ IsFiniteSet(DOMAIN consumers') /\ d.pc \in Unposted
      BY <1>0, <2>1, RowAdded DEF RowsKept, Unposted
    <2> QED
      BY <1>2, <1>3, <2>1, <2>2
  <1> QED
    BY <1>5, <1>6, <1>7, <1>8, <1>9, <1>10, <1>11, <1>12
\* The retry's timer puts the item back.
LEMMA RetrySteps ==
  ASSUME DeliveryInv, NEW item \in retries, RetryTimer(item)
  PROVE  DeliveryInv'
  <1>0. QueueTyped
    BY DEF DeliveryInv
  <1>1. /\ retries' = retries \ {item} /\ deliveryQueue' = Append(deliveryQueue, item)
        /\ UNCHANGED <<consumers, events, deliveries, arrivals, saved, confirmed, erased>>
    BY DEF RetryTimer, consumerVars, postVars
  <1>2. PICK S : deliveryQueue \in Seq(S)
    BY <1>0 DEF QueueTyped, IsSequence
  <1>3. PICK q : q = deliveryQueue
    OBVIOUS
  <1>4. PICK n : n = Len(q)
    OBVIOUS
  <1>5. PICK T : T = S \cup {item}
    OBVIOUS
  <1>6. q \in Seq(T) /\ item \in T /\ n \in Nat /\ DOMAIN q = 1 .. n
    BY <1>2, <1>3, <1>4, <1>5
  <1>7. /\ deliveryQueue' \in Seq(T) /\ DOMAIN deliveryQueue' = 1 .. (n + 1) /\ deliveryQueue'[n + 1] = item
        /\ \A i \in 1 .. n : deliveryQueue'[i] = q[i]
    BY <1>1, <1>3, <1>4, <1>6
  <1>8. QueueTyped'
    BY <1>0, <1>1, <1>7 DEF QueueTyped, IsSequence
  <1>9. ASSUME NEW e \in EventIds, NEW c \in ConsumerIds, Undeleted(e, c)' PROVE PairOk(e, c)'
    <2>0. PairOk(e, c)
      BY <1>1, <1>9 DEF DeliveryInv, Undeleted
    <2>1. OnePlace(e, c) /\ Unanswered(e, c) /\ NotYet(e, c) /\ RowsThere(e, c) /\ confirmed[<<e, c>>] <= 1
      BY <2>0 DEF PairOk
    <2>2. InProgress(e, c)' = InProgress(e, c)
      BY <1>1 DEF InProgress
    <2>3. CASE ~Of(item, e, c)
      <3>1. InRetry(e, c)' = InRetry(e, c)
        BY <1>1, <2>3 DEF InRetry
      <3>2. ItemQueued(e, c)' = ItemQueued(e, c)
        BY <1>3, <1>6, <1>7, <2>3 DEF ItemQueued
      <3>3. OnePlace(e, c)' /\ Unanswered(e, c)'
        BY <1>1, <2>1, <2>2, <3>1, <3>2 DEF OnePlace, Unanswered
      <3>4. NotYet(e, c)' /\ RowsThere(e, c)'
        BY <1>1, <2>1, <2>2, <3>1, <3>2 DEF NotYet, RowsThere
      <3> QED
        BY <1>1, <2>1, <3>3, <3>4 DEF PairOk
    <2>4. CASE Of(item, e, c)
      <3>1. item \in InRetry(e, c)
        BY <2>4 DEF InRetry
      <3>2. InRetry(e, c) = {item} /\ ItemQueued(e, c) = {} /\ InProgress(e, c) = {}
        BY <2>1, <3>1 DEF OnePlace, Lone
      <3>3. InRetry(e, c)' = {}
        BY <1>1, <3>2 DEF InRetry
      <3>4. ItemQueued(e, c)' = {n + 1}
        BY <1>3, <1>6, <1>7, <2>4, <3>2 DEF ItemQueued
      <3>5. confirmed[<<e, c>>] = 0 /\ ~(e \in arrivals \/ e > saved) /\ c \in DOMAIN consumers
        BY <2>1, <3>1 DEF Unanswered, NotYet, RowsThere
      <3>6. OnePlace(e, c)' /\ Unanswered(e, c)'
        BY <1>1, <2>2, <3>2, <3>3, <3>4, <3>5 DEF OnePlace, Unanswered, Lone
      <3>7. NotYet(e, c)' /\ RowsThere(e, c)'
        BY <1>1, <2>1, <3>5 DEF NotYet, RowsThere
      <3> QED
        BY <1>1, <2>1, <3>6, <3>7 DEF PairOk
    <2> QED
      BY <2>3, <2>4
  <1> QED
    BY <1>8, <1>9 DEF DeliveryInv

\* The items of a batch leave the queue as they enter delivery.
LEMMA BatchSteps ==
  ASSUME DeliveryInv, DeliveryConstants, processQueue
  PROVE  DeliveryInv'
  <1>0. QueueTyped
    BY DEF DeliveryInv
  <1>1. UNCHANGED <<consumers, events, retries, arrivals, saved, confirmed, erased>>
    BY DEF processQueue, consumerVars, postVars
  <1>2. PICK S : deliveryQueue \in Seq(S)
    BY <1>0 DEF QueueTyped, IsSequence
  <1>3. PICK q : q = deliveryQueue
    OBVIOUS
  <1>4. PICK len : len = Len(q)
    OBVIOUS
  <1>5. q \in Seq(S) /\ len \in Nat /\ DOMAIN q = 1 .. len
    BY <1>2, <1>3, <1>4
  <1>6. PICK n : n = IF len < BatchSize THEN len ELSE BatchSize
    OBVIOUS
  <1>7. n \in Nat /\ n <= len
    BY <1>5, <1>6 DEF DeliveryConstants
  <1>8. /\ deliveryQueue' = SubSeq(q, n + 1, len)
        /\ deliveries' = deliveries \cup {Delivery(i, "check", Gone) : i \in {q[j] : j \in 1 .. n}}
    BY <1>3, <1>4, <1>6 DEF processQueue
  <1>9. /\ deliveryQueue' \in Seq(S) /\ DOMAIN deliveryQueue' = 1 .. (len - n)
        /\ \A i \in 1 .. (len - n) : deliveryQueue'[i] = q[i + n]
    BY <1>5, <1>7, <1>8
  <1>10. QueueTyped'
    BY <1>0, <1>1, <1>9 DEF QueueTyped, IsSequence
  <1>11. \A i : Delivery(i, "check", Gone).item = i
    BY DEF Delivery
  <1>12. ASSUME NEW e \in EventIds, NEW c \in ConsumerIds, Undeleted(e, c)' PROVE PairOk(e, c)'
    <2>0. PairOk(e, c)
      BY <1>1, <1>12 DEF DeliveryInv, Undeleted
    <2>1. OnePlace(e, c) /\ Unanswered(e, c) /\ NotYet(e, c) /\ RowsThere(e, c) /\ confirmed[<<e, c>>] <= 1
      BY <2>0 DEF PairOk
    <2>2. InRetry(e, c)' = InRetry(e, c)
      BY <1>1 DEF InRetry
    <2>3. CASE \E k \in 1 .. n : Of(q[k], e, c)
      <3>1. PICK k \in 1 .. n : Of(q[k], e, c)
        BY <2>3
      <3>2. k \in ItemQueued(e, c)
        BY <1>3, <1>5, <1>7, <3>1 DEF ItemQueued
      <3>3. ItemQueued(e, c) = {k} /\ InProgress(e, c) = {} /\ InRetry(e, c) = {}
        BY <2>1, <3>2 DEF OnePlace, Lone
      <3>4. \A i \in 1 .. len : Of(q[i], e, c) => i = k
        BY <1>3, <1>5, <3>3 DEF ItemQueued
      <3>5. ItemQueued(e, c)' = {}
        <4>1. \A i \in 1 .. (len - n) : i + n \in 1 .. len /\ i + n # k
          BY <1>5, <1>7
        <4> QED
          BY <1>9, <3>4, <4>1 DEF ItemQueued
      <3>6. PICK x : x = Delivery(q[k], "check", Gone)
        OBVIOUS
      <3>7. InProgress(e, c)' = {x}
        <4>1. x \in deliveries' /\ Of(x.item, e, c)
          BY <1>8, <1>11, <3>1, <3>6
        <4>2. ASSUME NEW y \in deliveries', Of(y.item, e, c) PROVE y = x
          <5>1. y \notin deliveries
            BY <3>3, <4>2 DEF InProgress
          <5>2. PICK j \in 1 .. n : y = Delivery(q[j], "check", Gone)
            BY <1>8, <4>2, <5>1
          <5>3. Of(q[j], e, c) /\ j \in 1 .. len
            BY <1>5, <1>7, <1>11, <4>2, <5>2
          <5> QED
            BY <3>4, <3>6, <5>2, <5>3
        <4> QED
          BY <4>1, <4>2 DEF InProgress
      <3>8. confirmed[<<e, c>>] = 0 /\ ~(e \in arrivals \/ e > saved) /\ c \in DOMAIN consumers
        BY <2>1, <3>2 DEF Unanswered, NotYet, RowsThere
      <3>9. OnePlace(e, c)' /\ Unanswered(e, c)'
        BY <1>1, <2>2, <3>3, <3>5, <3>7, <3>8 DEF OnePlace, Unanswered, Lone
      <3>10. NotYet(e, c)' /\ RowsThere(e, c)'
        BY <1>1, <2>1, <3>8 DEF NotYet, RowsThere
      <3> QED
        BY <1>1, <2>1, <3>9, <3>10 DEF PairOk
    <2>4. CASE \A k \in 1 .. n : ~Of(q[k], e, c)
      <3>1. InProgress(e, c)' = InProgress(e, c)
        <4>1. ASSUME NEW y \in deliveries', Of(y.item, e, c) PROVE y \in deliveries
          <5> SUFFICES ASSUME y \notin deliveries PROVE FALSE
            OBVIOUS
          <5>1. PICK j \in 1 .. n : y = Delivery(q[j], "check", Gone)
            BY <1>8
          <5> QED
            BY <1>11, <2>4, <4>1, <5>1
        <4>2. deliveries \subseteq deliveries'
          BY <1>8
        <4> QED
          BY <4>1, <4>2 DEF InProgress
      <3>2. Lone(ItemQueued(e, c)') /\ (ItemQueued(e, c)' # {} => ItemQueued(e, c) # {})
        <4>1. ASSUME NEW i \in ItemQueued(e, c)' PROVE i \in Nat /\ i + n \in ItemQueued(e, c)
          <5>1. i \in 1 .. (len - n) /\ Of(deliveryQueue'[i], e, c)
            BY <1>9, <4>1 DEF ItemQueued
          <5>2. i + n \in 1 .. len /\ Of(q[i + n], e, c)
            BY <1>5, <1>7, <1>9, <5>1
          <5> QED
            BY <1>3, <1>5, <5>1, <5>2 DEF ItemQueued
        <4>2. ASSUME NEW i \in ItemQueued(e, c)', NEW j \in ItemQueued(e, c)' PROVE i = j
          <5>1. i \in Nat /\ j \in Nat /\ i + n \in ItemQueued(e, c) /\ j + n \in ItemQueued(e, c)
            BY <4>1
          <5>2. i + n = j + n
            BY <2>1, <5>1 DEF OnePlace, Lone
          <5> QED
            BY <1>7, <5>1, <5>2
        <4> QED
          BY <4>1, <4>2 DEF Lone
      <3>3. OnePlace(e, c)' /\ Unanswered(e, c)'
        BY <1>1, <2>1, <2>2, <3>1, <3>2 DEF OnePlace, Unanswered
      <3>4. NotYet(e, c)' /\ RowsThere(e, c)'
        BY <1>1, <2>1, <2>2, <3>1, <3>2 DEF NotYet, RowsThere
      <3> QED
        BY <1>1, <2>1, <3>3, <3>4 DEF PairOk
    <2> QED
      BY <2>3, <2>4
  <1> QED
    BY <1>10, <1>12 DEF DeliveryInv

\* An event is queued once for every active consumer.
LEMMA QueueSteps ==
  ASSUME DeliveryInv, DeliveryConstants, NEW a \in arrivals, queueEventForDelivery(a)
  PROVE  DeliveryInv'
  <1>0. QueueTyped
    BY DEF DeliveryInv
  <1>1. arrivals' = arrivals \ {a} /\ UNCHANGED <<consumers, events, retries, saved, confirmed, erased>>
    BY DEF queueEventForDelivery, consumerVars, postVars
  <1>2. a <= saved /\ saved \in Nat /\ a \in Nat
    BY <1>0 DEF QueueTyped
  <1>3. CASE getActiveConsumers = {}
    <2>1. PICK x : x = Delivery(Marking(a), "findDone", Gone)
      OBVIOUS
    <2>2. x.item.consumer = Nobody
      BY <2>1 DEF Delivery, Marking
    <2>3. deliveries' = deliveries \cup {x} /\ deliveryQueue' = deliveryQueue
      BY <1>3, <2>1 DEF queueEventForDelivery
    <2>4. QueueTyped'
      BY <1>0, <1>1, <2>3 DEF QueueTyped
    <2>5. ASSUME NEW e \in EventIds, NEW c \in ConsumerIds, Undeleted(e, c)' PROVE PairOk(e, c)'
      <3>0. PairOk(e, c)
        BY <1>1, <2>5 DEF DeliveryInv, Undeleted
      <3>1. OnePlace(e, c) /\ Unanswered(e, c) /\ NotYet(e, c) /\ RowsThere(e, c) /\ confirmed[<<e, c>>] <= 1
        BY <3>0 DEF PairOk
      <3>2. ~Of(x.item, e, c)
        BY <2>2 DEF Of, DeliveryConstants
      <3>3. InProgress(e, c)' = InProgress(e, c) /\ ItemQueued(e, c)' = ItemQueued(e, c) /\ InRetry(e, c)' = InRetry(e, c)
        BY <1>1, <2>3, <3>2 DEF InProgress, ItemQueued, InRetry
      <3>4. OnePlace(e, c)' /\ Unanswered(e, c)'
        BY <1>1, <3>1, <3>3 DEF OnePlace, Unanswered
      <3>5. NotYet(e, c)' /\ RowsThere(e, c)'
        BY <1>1, <3>1, <3>3 DEF NotYet, RowsThere
      <3> QED
        BY <1>1, <3>1, <3>4, <3>5 DEF PairOk
    <2> QED
      BY <2>4, <2>5 DEF DeliveryInv
  <1>4. CASE getActiveConsumers # {}
    <2>1. PICK order \in SetToSeqs(getActiveConsumers) :
            deliveryQueue' = deliveryQueue \o [i \in DOMAIN order |-> Item(a, order[i])] /\ deliveries' = deliveries
      BY <1>4 DEF queueEventForDelivery
    <2>2. PICK m \in Nat : m = Cardinality(getActiveConsumers)
      <3>1. getActiveConsumers \subseteq DOMAIN consumers
        BY DEF getActiveConsumers
      <3>2. IsFiniteSet(getActiveConsumers)
        BY <1>0, <3>1, FS_Subset DEF QueueTyped
      <3> QED
        BY <3>2, FS_CardinalityType
    <2>3. /\ order \in [1 .. m -> getActiveConsumers] /\ DOMAIN order = 1 .. m
          /\ \A i, j \in 1 .. m : i # j => order[i] # order[j]
      BY <2>1, <2>2 DEF SetToSeqs
    <2>4. \A i \in 1 .. m : order[i] \in DOMAIN consumers
      BY <2>3 DEF getActiveConsumers
    <2>5. PICK new : new = [i \in 1 .. m |-> Item(a, order[i])]
      OBVIOUS
    <2>6. \A i \in 1 .. m : new[i].event = a /\ new[i].consumer = order[i]
      BY <2>5 DEF Item
    <2>7. PICK S : deliveryQueue \in Seq(S)
      BY <1>0 DEF QueueTyped, IsSequence
    <2>8. PICK T : T = S \cup {new[i] : i \in 1 .. m}
      OBVIOUS
    <2>9. PICK q : q = deliveryQueue
      OBVIOUS
    <2>10. PICK len : len = Len(q)
      OBVIOUS
    <2>11. q \in Seq(T) /\ len \in Nat /\ DOMAIN q = 1 .. len
      BY <2>7, <2>8, <2>9, <2>10
    <2>12. new \in Seq(T) /\ Len(new) = m
      <3>1. new \in [1 .. m -> T]
        BY <2>5, <2>8
      <3> QED
        BY <2>2, <3>1
    <2>13. deliveryQueue' = q \o new
      BY <2>1, <2>3, <2>5, <2>9
    <2>14. /\ deliveryQueue' \in Seq(T) /\ DOMAIN deliveryQueue' = 1 .. (len + m)
           /\ \A i \in 1 .. len : deliveryQueue'[i] = q[i]
           /\ \A i \in (len + 1) .. (len + m) : deliveryQueue'[i] = new[i - len]
      BY <2>2, <2>10, <2>11, <2>12, <2>13
    <2>15. QueueTyped'
      BY <1>0, <1>1, <2>14 DEF QueueTyped, IsSequence
    <2>16. ASSUME NEW i \in (len + 1) .. (len + m)
           PROVE  i - len \in 1 .. m /\ deliveryQueue'[i].event = a /\ deliveryQueue'[i].consumer = order[i - len]
      <3>1. i - len \in 1 .. m
        BY <2>2, <2>11
      <3> QED
        BY <2>6, <2>14, <3>1
    <2>17. ASSUME NEW e \in EventIds, NEW c \in ConsumerIds, Undeleted(e, c)' PROVE PairOk(e, c)'
      <3>0. PairOk(e, c)
        BY <1>1, <2>17 DEF DeliveryInv, Undeleted
      <3>1. OnePlace(e, c) /\ Unanswered(e, c) /\ NotYet(e, c) /\ RowsThere(e, c) /\ confirmed[<<e, c>>] <= 1
        BY <3>0 DEF PairOk
      <3>2. InProgress(e, c)' = InProgress(e, c) /\ InRetry(e, c)' = InRetry(e, c)
        BY <1>1, <2>1 DEF InProgress, InRetry
      <3>3. CASE e # a
        <4>1. \A i \in (len + 1) .. (len + m) : ~Of(deliveryQueue'[i], e, c)
          BY <2>16, <3>3 DEF Of
        <4>2. \A i \in 1 .. (len + m) : i \in 1 .. len \/ i \in (len + 1) .. (len + m)
          BY <2>2, <2>11
        <4>3. \A i \in 1 .. len : i \in 1 .. (len + m)
          BY <2>2, <2>11
        <4>4. ItemQueued(e, c)' = ItemQueued(e, c)
          BY <2>9, <2>11, <2>14, <4>1, <4>2, <4>3 DEF ItemQueued
        <4>5. OnePlace(e, c)' /\ Unanswered(e, c)'
          BY <1>1, <3>1, <3>2, <4>4 DEF OnePlace, Unanswered
        <4>6. NotYet(e, c)' /\ RowsThere(e, c)'
          BY <1>1, <3>1, <3>2, <3>3, <4>4 DEF NotYet, RowsThere
        <4> QED
          BY <1>1, <3>1, <4>5, <4>6 DEF PairOk
      <3>4. CASE e = a
        <4>1. ItemQueued(e, c) = {} /\ InProgress(e, c) = {} /\ InRetry(e, c) = {} /\ confirmed[<<e, c>>] = 0
          BY <3>1, <3>4 DEF NotYet
        <4>2. ASSUME NEW i \in ItemQueued(e, c)'
              PROVE  i \in (len + 1) .. (len + m) /\ i - len \in 1 .. m /\ order[i - len] = c
          <5>1. i \in 1 .. (len + m) /\ Of(deliveryQueue'[i], e, c)
            BY <2>14, <4>2 DEF ItemQueued
          <5>2. i \notin 1 .. len
            BY <2>9, <2>11, <2>14, <4>1, <5>1 DEF ItemQueued
          <5>3. i \in (len + 1) .. (len + m)
            BY <2>2, <2>11, <5>1, <5>2
          <5> QED
            BY <2>16, <5>1, <5>3 DEF Of
        <4>3. Lone(ItemQueued(e, c)')
          <5>1. ASSUME NEW i \in ItemQueued(e, c)', NEW j \in ItemQueued(e, c)' PROVE i = j
            <6>1. /\ i \in (len + 1) .. (len + m) /\ i - len \in 1 .. m /\ order[i - len] = c
                  /\ j \in (len + 1) .. (len + m) /\ j - len \in 1 .. m /\ order[j - len] = c
              BY <4>2
            <6>2. i - len = j - len
              BY <2>3, <6>1
            <6> QED
              BY <2>2, <2>11, <6>1, <6>2
          <5> QED
            BY <5>1 DEF Lone
        <4>4. ItemQueued(e, c)' # {} => c \in DOMAIN consumers
          BY <2>4, <4>2
        <4>5. OnePlace(e, c)' /\ Unanswered(e, c)'
          BY <1>1, <3>2, <4>1, <4>3 DEF OnePlace, Unanswered, Lone
        <4>6. NotYet(e, c)' /\ RowsThere(e, c)'
          BY <1>1, <1>2, <3>1, <3>2, <3>4, <4>1, <4>4 DEF NotYet, RowsThere
        <4> QED
          BY <1>1, <3>1, <4>5, <4>6 DEF PairOk
      <3> QED
        BY <3>3, <3>4
    <2> QED
      BY <2>15, <2>17 DEF DeliveryInv
  <1> QED
    BY <1>3, <1>4

\* Requests and the saves behind them: what is on its way stays where it is.
LEMMA RequestSteps ==
  ASSUME DeliveryInv, DeliveryConstants, Request \/ \E r \in adminSave : SaveRequest(r)
  PROVE  DeliveryInv'
  <1>0. /\ QueueTyped /\ saved \in Nat /\ IsFiniteSet(DOMAIN consumers)
    BY DEF DeliveryInv, QueueTyped
  <1>1. CASE saveEvent
    <2>1. /\ saved < MaxEvents /\ saved' = saved + 1 /\ events' = With(events, saved + 1, StellarEvent)
          /\ arrivals' = arrivals \cup {saved + 1}
          /\ UNCHANGED <<consumers, deliveryQueue, retries, deliveries, confirmed, erased>>
      BY <1>1 DEF saveEvent, consumerVars, deliveryVars
    <2>2. QueueTyped'
      BY <1>0, <2>1 DEF QueueTyped
    <2>3. DOMAIN events' = DOMAIN events \cup {saved + 1}
      BY <2>1 DEF With
    <2>4. ASSUME NEW e \in EventIds, NEW c \in ConsumerIds, Undeleted(e, c)' PROVE PairOk(e, c)'
      <3>1. PairOk(e, c)
        BY <2>1, <2>4 DEF DeliveryInv, Undeleted
      <3>2. e \in Nat /\ (e <= saved => e \in DOMAIN events)
        BY <3>1 DEF PairOk, RowsThere, EventIds
      <3>3. (e \in arrivals' \/ e > saved') => (e \in arrivals \/ e > saved)
        BY <1>0, <2>1, <3>2
      <3>4. e <= saved' => e \in DOMAIN events'
        BY <1>0, <2>1, <2>3, <3>2
      <3>5. saved' \in Nat /\ (c \in DOMAIN consumers => c \in DOMAIN consumers')
        BY <1>0, <2>1
      <3> QED
        BY <1>0, <2>1, <3>1, <3>3, <3>4, <3>5, PairRests
    <2> QED
      BY <2>2, <2>4 DEF DeliveryInv
  <1>2. ASSUME NEW k \in EventIds, cleanupOldEvents(k)
        PROVE  DeliveryInv'
    <2>1. /\ events' = Minus(events, k) /\ erased' = erased \cup {<<"event", k>>}
          /\ UNCHANGED <<consumers, deliveryQueue, retries, deliveries, arrivals, saved, confirmed>>
      BY <1>2 DEF cleanupOldEvents, consumerVars, deliveryVars
    <2>2. QueueTyped'
      BY <1>0, <2>1 DEF QueueTyped
    <2>3. DOMAIN events' = DOMAIN events \ {k}
      BY <2>1, RowRemoved
    <2>4. ASSUME NEW e \in EventIds, NEW c \in ConsumerIds, Undeleted(e, c)' PROVE PairOk(e, c)'
      <3>1. Undeleted(e, c) /\ e # k
        BY <2>1, <2>4 DEF Undeleted
      <3>2. PairOk(e, c)
        BY <3>1 DEF DeliveryInv
      <3>3. e <= saved' => e \in DOMAIN events'
        BY <2>1, <2>3, <3>1, <3>2 DEF PairOk, RowsThere
      <3> QED
        BY <1>0, <2>1, <3>2, <3>3, PairRests
    <2> QED
      BY <2>2, <2>4 DEF DeliveryInv
  \* Requests that only announce a change of the consumers.
  <1>3. ASSUME UNCHANGED <<consumers, events, deliveryQueue, retries, deliveries, arrivals, saved, confirmed, erased>>
        PROVE  DeliveryInv'
    <2>1. QueueTyped'
      BY <1>0, <1>3 DEF QueueTyped
    <2>2. ASSUME NEW e \in EventIds, NEW c \in ConsumerIds, Undeleted(e, c)' PROVE PairOk(e, c)'
      <3>1. PairOk(e, c)
        BY <1>3, <2>2 DEF DeliveryInv, Undeleted
      <3>2. e <= saved' => e \in DOMAIN events'
        BY <1>3, <3>1 DEF PairOk, RowsThere
      <3> QED
        BY <1>0, <1>3, <3>1, <3>2, PairRests
    <2> QED
      BY <2>1, <2>2 DEF DeliveryInv
  <1>4. ASSUME NEW c \in ConsumerIds,
               \/ PostConsumer(c) \/ PutConsumer(c) \/ DeleteConsumer(c)
               \/ PostActivate(c) \/ PostDeactivate(c) \/ suspendConsumer(c)
        PROVE  DeliveryInv'
    <2>1. \E row : Requested(c, row)
      BY <1>4 DEF PostConsumer, PutConsumer, DeleteConsumer, PostActivate, PostDeactivate, suspendConsumer,
                  createConsumer, updateConsumer, deleteConsumer, activateConsumer, deactivateConsumer
    <2>2. UNCHANGED <<consumers, events, deliveryQueue, retries, deliveries, arrivals, saved, confirmed, erased>>
      BY <2>1 DEF Requested, deliveryVars, postVars
    <2> QED
      BY <1>3, <2>2
  <1>5. ASSUME NEW r \in adminSave, SaveRequest(r)
        PROVE  DeliveryInv'
    <2>1. UNCHANGED <<events, deliveryQueue, retries, deliveries, arrivals, saved, confirmed>>
      BY <1>5 DEF SaveRequest, deliveryVars
    <2>2. /\ IsFiniteSet(DOMAIN consumers') /\ erased \subseteq erased'
          /\ \A c : <<"consumer", c>> \notin erased' /\ c \in DOMAIN consumers => c \in DOMAIN consumers'
      <3>1. CASE r[2] = Gone
        <4>1. consumers' = Minus(consumers, r[1]) /\ erased' = erased \cup {<<"consumer", r[1]>>}
          BY <1>5, <3>1 DEF SaveRequest
        <4>2. DOMAIN consumers' = DOMAIN consumers \ {r[1]} /\ IsFiniteSet(DOMAIN consumers')
          BY <1>0, <4>1, RowRemoved
        <4> QED
          BY <4>1, <4>2
      <3>2. CASE r[2] # Gone
        <4>1. consumers' = With(consumers, r[1], r[2][1]) /\ erased' = erased
          BY <1>5, <3>2 DEF SaveRequest
        <4>2. DOMAIN consumers \subseteq DOMAIN consumers' /\ IsFiniteSet(DOMAIN consumers')
          BY <1>0, <4>1, RowAdded
        <4> QED
          BY <4>1, <4>2
      <3> QED
        BY <3>1, <3>2
    <2>3. QueueTyped'
      BY <1>0, <2>1, <2>2 DEF QueueTyped
    <2>4. ASSUME NEW e \in EventIds, NEW c \in ConsumerIds, Undeleted(e, c)' PROVE PairOk(e, c)'
      <3>1. Undeleted(e, c) /\ (c \in DOMAIN consumers => c \in DOMAIN consumers')
        BY <2>2, <2>4 DEF Undeleted
      <3>2. PairOk(e, c)
        BY <3>1 DEF DeliveryInv
      <3>3. e <= saved' => e \in DOMAIN events'
        BY <2>1, <3>2 DEF PairOk, RowsThere
      <3> QED
        BY <1>0, <2>1, <3>1, <3>2, <3>3, PairRests
    <2> QED
      BY <2>3, <2>4 DEF DeliveryInv
  <1> QED
    BY <1>1, <1>2, <1>4, <1>5 DEF Request, simulatePaymentEvent, simulateOfferEvent

\* A consumer that has answered is not sent the event again, whatever batches,
\* retries and admin requests overlap, unless the event or the consumer is
\* deleted under a delivery.
THEOREM DeliveredOnce ==
  ASSUME DeliveryConstants
  PROVE  WebhookSpec => []ConfirmedOnce
  <1>1. WebhookInit => DeliveryInv
    <2> SUFFICES ASSUME WebhookInit PROVE DeliveryInv
      OBVIOUS
    <2>1. /\ deliveryQueue = <<>> /\ retries = {} /\ deliveries = {} /\ arrivals = {} /\ saved = 0
          /\ confirmed = [p \in EventIds \X ConsumerIds |-> 0]
      BY DEF WebhookInit
    <2>2. PICK old \in SUBSET ConsumerIds : DOMAIN consumers = old
      BY DEF WebhookInit
    <2>3. IsFiniteSet(DOMAIN consumers)
      BY <2>2, FS_Subset DEF DeliveryConstants
    <2>4. deliveryQueue \in Seq({}) /\ DOMAIN deliveryQueue = {}
      BY <2>1
    <2>5. QueueTyped
      BY <2>1, <2>3, <2>4 DEF QueueTyped, IsSequence
    <2>6. ASSUME NEW e \in EventIds, NEW c \in ConsumerIds PROVE PairOk(e, c)
      <3>1. ItemQueued(e, c) = {} /\ InProgress(e, c) = {} /\ InRetry(e, c) = {}
        BY <2>1, <2>4 DEF ItemQueued, InProgress, InRetry
      <3>2. confirmed[<<e, c>>] = 0
        BY <2>1
      <3>3. ~(e <= saved)
        BY <2>1 DEF EventIds
      <3>4. OnePlace(e, c) /\ Unanswered(e, c)
        BY <3>1 DEF OnePlace, Unanswered, Lone
      <3>5. NotYet(e, c) /\ RowsThere(e, c)
        BY <3>1, <3>2, <3>3 DEF NotYet, RowsThere
      <3> QED
        BY <3>2, <3>4, <3>5 DEF PairOk
    <2> QED
      BY <2>5, <2>6 DEF DeliveryInv
  <1>2. ASSUME DeliveryInv, [WebhookNext]_webhookVars PROVE DeliveryInv'
    <2>1. CASE UNCHANGED webhookVars
      <3>1. UNCHANGED <<consumers, events, deliveryQueue, retries, deliveries, arrivals, saved, confirmed, erased>>
        BY <2>1 DEF webhookVars, consumerVars, deliveryVars, postVars
      <3>2. QueueTyped /\ saved \in Nat
        BY <1>2 DEF DeliveryInv, QueueTyped
      <3>3. QueueTyped'
        BY <3>1, <3>2 DEF QueueTyped
      <3>4. ASSUME NEW e \in EventIds, NEW c \in ConsumerIds, Undeleted(e, c)' PROVE PairOk(e, c)'
        <4>1. PairOk(e, c)
          BY <1>2, <3>1, <3>4 DEF DeliveryInv, Undeleted
        <4>2. e <= saved' => e \in DOMAIN events'
          BY <3>1, <4>1 DEF PairOk, RowsThere
        <4> QED
          BY <3>1, <3>2, <4>1, <4>2, PairRests
      <3> QED
        BY <3>3, <3>4 DEF DeliveryInv
    <2>2. CASE Request \/ \E r \in adminSave : SaveRequest(r)
      BY <1>2, <2>2, RequestSteps
    <2>3. CASE \E a \in arrivals : queueEventForDelivery(a)
      BY <1>2, <2>3, QueueSteps
    <2>4. CASE processQueue
      BY <1>2, <2>4, BatchSteps
    <2>5. CASE \E i \in retries : RetryTimer(i)
      BY <1>2, <2>5, RetrySteps
    <2>6. ASSUME NEW d \in deliveries,
                 \/ CheckConsumer(d) \/ (\E ok \in BOOLEAN : attemptDelivery(d, ok)) \/ FindEvent(d) \/ SaveEvent(d)
                 \/ FindConsumer(d) \/ SaveStats(d) \/ MarkIfAll(d) \/ handleFailedDelivery(d)
          PROVE  DeliveryInv'
      BY <1>2, <2>6, DeliverySteps
    <2> QED
      BY <1>2, <2>1, <2>2, <2>3, <2>4, <2>5, <2>6 DEF WebhookNext, SystemStep
  <1>3. DeliveryInv => ConfirmedOnce
    BY DEF DeliveryInv, ConfirmedOnce, Undeleted, PairOk
  <1> QED
    BY <1>1, <1>2, <1>3, PTL DEF WebhookSpec
=============================================================================
