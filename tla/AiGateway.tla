------------------------------ MODULE AiGateway ------------------------------
(***************************************************************************)
(* The AI gateway (Backend/src/ai): AiService.handlePrompt with its cache  *)
(* and its quota, FallbackProvider and the circuit breaker OpenAiProvider  *)
(* keeps in memory.  Requests wait for the cache and for the provider and  *)
(* overlap while they do; the breaker is looked at when one is sent and    *)
(* changed when one is answered.                                           *)
(***************************************************************************)
EXTENDS Integers, FiniteSets

CONSTANTS
  AiPrompts,
  FailureThreshold, HalfOpenAfter,   \* 5 failures; 60 seconds, here in ticks
  MaxAiQuota,                        \* MAX_REQUESTS: 1000 a month
  MaxAiTime, MaxAiRequests           \* bounds of the exploration

VARIABLES
  aiTime,
  cb,          \* the breaker: [failures, openedAt, state]
  aiCache,     \* prompt -> "answer" or "degraded", under the key of gpt-4
  used,        \* requests charged to the user
  prompts,     \* requests in progress
  aiCalls,     \* requests so far
  failedInRow, lastFailure,   \* history: answers since the last success
  inProgress                  \* history: most requests at once

historyVars == <<failedInRow, lastFailure>>
aiVars == <<aiTime, cb, aiCache, used, prompts, aiCalls, historyVars, inProgress>>

AiTypeOK ==
  /\ cb \in [failures : 0 .. MaxAiRequests, openedAt : 0 .. MaxAiTime, state : {"closed", "open", "half-open"}]
  /\ DOMAIN aiCache \subseteq AiPrompts /\ \A p \in DOMAIN aiCache : aiCache[p] \in {"answer", "degraded"}
  /\ used \in 0 .. MaxAiRequests

AiInit ==
  /\ aiTime = 0 /\ cb = [failures |-> 0, openedAt |-> 0, state |-> "closed"]
  /\ aiCache = <<>> /\ used = 0 /\ prompts = {} /\ aiCalls = 0
  /\ failedInRow = 0 /\ lastFailure = 0 /\ inProgress = 0

Proceed(r, pc) == prompts' = (prompts \ {r}) \cup {[r EXCEPT !.pc = pc]}
End(r) == prompts' = prompts \ {r}

-----------------------------------------------------------------------------
\* handlePrompt: the quota of a known user ...
assertQuota == used < MaxAiQuota
handlePrompt(p, known) ==
  /\ aiCalls < MaxAiRequests /\ aiCalls' = aiCalls + 1
  /\ known => assertQuota
  /\ prompts' = prompts \cup {[id |-> aiCalls + 1, prompt |-> p, known |-> known, pc |-> "cache", answer |-> ""]}
  /\ inProgress' = IF Cardinality(prompts) + 1 > inProgress THEN Cardinality(prompts) + 1 ELSE inProgress
  /\ UNCHANGED <<aiTime, cb, aiCache, used, historyVars>>

\* A bug this module must not have: an open breaker lets a probe through at once.
checkCircuit_no_wait == cb' = [cb EXCEPT !.state = IF @ = "open" THEN "half-open" ELSE @]

\* ... the cache, and then OpenAiProvider.generate, unless checkCircuit throws.
checkCircuit ==
  /\ cb.state = "open" => aiTime - cb.openedAt >= HalfOpenAfter
  /\ cb' = [cb EXCEPT !.state = IF @ = "open" THEN "half-open" ELSE @]
CacheHit(r) ==
  /\ r.pc = "cache" /\ r.prompt \in DOMAIN aiCache /\ End(r)
  /\ UNCHANGED <<aiTime, cb, aiCache, used, aiCalls, historyVars, inProgress>>
generate(r) ==
  /\ r.pc = "cache" /\ r.prompt \notin DOMAIN aiCache
  /\ checkCircuit /\ Proceed(r, "sent")
  /\ UNCHANGED <<aiTime, aiCache, used, aiCalls, historyVars, inProgress>>

\* FallbackProvider: nothing is ever stored under its own key, so the static
\* message follows, which the caller caches and charges like an answer.
Fallback(r) == prompts' = (prompts \ {r}) \cup {[r EXCEPT !.pc = "set", !.answer = "degraded"]}
Refused(r) ==
  /\ r.pc = "cache" /\ r.prompt \notin DOMAIN aiCache
  /\ cb.state = "open" /\ aiTime - cb.openedAt < HalfOpenAfter
  /\ Fallback(r)
  /\ UNCHANGED <<aiTime, cb, aiCache, used, aiCalls, historyVars, inProgress>>

recordSuccess(r) ==
  /\ r.pc = "sent"
  /\ cb' = [failures |-> 0, openedAt |-> 0, state |-> "closed"]
  /\ prompts' = (prompts \ {r}) \cup {[r EXCEPT !.pc = "set", !.answer = "answer"]}
  /\ failedInRow' = 0
  /\ UNCHANGED <<aiTime, aiCache, used, aiCalls, lastFailure, inProgress>>

\* An error or a timeout; an answer of the wrong form is a success first.
recordFailure(r, before, row) ==
  /\ r.pc = "sent"
  /\ cb' = IF before.failures + 1 >= FailureThreshold
           THEN [failures |-> before.failures + 1, openedAt |-> aiTime, state |-> "open"]
           ELSE [before EXCEPT !.failures = @ + 1]
  /\ Fallback(r)
  /\ failedInRow' = row + 1 /\ lastFailure' = aiTime
  /\ UNCHANGED <<aiTime, aiCache, used, aiCalls, inProgress>>
BadAnswer(r) == recordFailure(r, [failures |-> 0, openedAt |-> 0, state |-> "closed"], 0)

CacheAnswer(r) ==
  /\ r.pc = "set"
  /\ aiCache' = [p \in DOMAIN aiCache \cup {r.prompt} |-> IF p = r.prompt THEN r.answer ELSE aiCache[p]]
  /\ IF r.known THEN Proceed(r, "record") ELSE End(r)
  /\ UNCHANGED <<aiTime, cb, used, aiCalls, historyVars, inProgress>>
recordUsage(r) ==
  /\ r.pc = "record" /\ End(r) /\ used' = used + 1
  /\ UNCHANGED <<aiTime, cb, aiCache, aiCalls, historyVars, inProgress>>

\* The entries live an hour.
AiEntryExpires(p) ==
  /\ aiCache' = [x \in DOMAIN aiCache \ {p} |-> aiCache[x]]
  /\ UNCHANGED <<aiTime, cb, used, prompts, aiCalls, historyVars, inProgress>>
AiTick ==
  /\ aiTime < MaxAiTime /\ aiTime' = aiTime + 1
  /\ UNCHANGED <<cb, aiCache, used, prompts, aiCalls, historyVars, inProgress>>

AiNext ==
  \/ \E p \in AiPrompts, known \in BOOLEAN : handlePrompt(p, known)
  \/ \E r \in prompts :
       \/ CacheHit(r) \/ generate(r) \/ Refused(r) \/ recordSuccess(r) \/ recordFailure(r, cb, failedInRow)
       \/ BadAnswer(r)
       \/ CacheAnswer(r) \/ recordUsage(r)
  \/ \E p \in DOMAIN aiCache : AiEntryExpires(p)
  \/ AiTick

AiSpec == AiInit /\ [][AiNext]_aiVars

-----------------------------------------------------------------------------
\* A provider that has failed FailureThreshold times in a row is spared: no
\* request is sent to it until HalfOpenAfter has passed since the last failure,
\* whatever requests of before are still answered meanwhile.
SparesProvider ==
  \A r \in prompts : r.pc = "cache" /\ (\E s \in prompts' : s.id = r.id /\ s.pc = "sent")
    => failedInRow < FailureThreshold \/ aiTime - lastFailure >= HalfOpenAfter
ProviderSpared == [][SparesProvider]_aiVars

\* The quota is overrun by no more than the requests that overlapped.
AiQuotaOverrun == used < MaxAiQuota + (IF inProgress > 1 THEN inProgress ELSE 1)
=============================================================================
