----------------------------- MODULE LlmService ------------------------------
(***************************************************************************)
(* The language-model service of the voice backend (Backend/src/voice):    *)
(* LlmService.generateResponse with the quotas of QuotaService and the     *)
(* answers LlmCacheService keeps.                                          *)
(*                                                                         *)
(* The three limits are read before the answer is produced and the three   *)
(* counters are raised after it, so requests overlap between the two.  A   *)
(* request is a task with one step per await.  A counter's key names its   *)
(* month or minute, and a task keeps the time its checks began with.       *)
(***************************************************************************)
EXTENDS Integers, FiniteSets

CONSTANTS
  LlmUsers, LlmSessions, Prompts, Models,
  MonthlyLimit, PerSessionLimit, RequestsPerMinute,   \* 1000, 100 and 20 in the code
  CustomLimits,                                       \* limits an administrator sets
  MinutesPerMonth, MaxMinutes, MaxLlmRequests, MaxLlmAdmin   \* bounds of the exploration

VARIABLES
  minute,                  \* the clock
  monthly, perMinute,      \* quota:monthly:<user>:<month>, quota:rpm:<user>:<minute>
  perSession,              \* quota:session:<session>
  limit,                   \* quota:monthly:<user>:limit, <<>> or <<n>>
  answers, created,        \* cached answers by key; keys whose stats are on record
  totals,                  \* llm:cache:total-entries and total-hits
  asks,                    \* requests in progress
  asked, adminCalls,       \* requests and administrator's calls so far
  peak, highest            \* history: most requests at once, highest limit in force

quotaVars == <<monthly, perMinute, perSession>>
answerVars == <<answers, created, totals>>
llmVars == <<minute, quotaVars, limit, answerVars, asks, asked, adminCalls, peak, highest>>

Fallback == "fallback"
Month(m) == m \div MinutesPerMonth
Larger(a, b) == IF a > b THEN a ELSE b

\* The key hashes the trimmed prompt in lower case and names the model.
normalizedPrompt(p) == IF p \in {"Hi", " hi"} THEN "hi" ELSE p
generateCacheKey(p, model) == <<normalizedPrompt(p), model>>
AnswerKeys == {generateCacheKey(p, model) : p \in Prompts, model \in Models}

LlmTypeOK ==
  /\ minute \in 0 .. MaxMinutes
  /\ monthly \in [LlmUsers -> [0 .. Month(MaxMinutes) -> 0 .. MaxLlmRequests]]
  /\ perMinute \in [LlmUsers -> [0 .. MaxMinutes -> 0 .. MaxLlmRequests]]
  /\ perSession \in [LlmSessions -> 0 .. MaxLlmRequests]
  /\ DOMAIN answers \subseteq AnswerKeys /\ created \subseteq AnswerKeys

LlmInit ==
  /\ minute = 0 /\ limit = [u \in LlmUsers |-> <<>>]
  /\ monthly = [u \in LlmUsers |-> [m \in 0 .. Month(MaxMinutes) |-> 0]]
  /\ perMinute = [u \in LlmUsers |-> [m \in 0 .. MaxMinutes |-> 0]]
  /\ perSession = [s \in LlmSessions |-> 0]
  /\ answers = <<>> /\ created = {} /\ totals = [entries |-> 0, hits |-> 0]
  /\ asks = {} /\ asked = 0 /\ adminCalls = 0
  /\ peak = 0 /\ highest = [u \in LlmUsers |-> MonthlyLimit]

-----------------------------------------------------------------------------
Step(t, next) == asks' = (asks \ {t}) \cup {next}
Goto(t, pc) == Step(t, [t EXCEPT !.pc = pc])
Leave(t) == asks' = asks \ {t}

\* generateResponse begins: enforceQuota takes the time its checks use.
generateResponse(u, s, p, model, useCache) ==
  /\ asked < MaxLlmRequests /\ asked' = asked + 1
  /\ asks' = asks \cup {[id |-> asked + 1, user |-> u, session |-> s, prompt |-> p, model |-> model,
                         cache |-> useCache, at |-> minute, pc |-> "limit", cap |-> 0, answer |-> ""]}
  /\ peak' = Larger(peak, Cardinality(asks) + 1)
  /\ UNCHANGED <<minute, quotaVars, limit, answerVars, adminCalls, highest>>

\* A check that fails, by its limit or by an error of Redis, ends the request:
\* generateResponse throws, generateResponseWithFallback answers with an excuse.
Check(t, usage, cap, next) ==
  /\ IF usage >= cap THEN Leave(t) ELSE Goto(t, next)
  /\ UNCHANGED <<minute, quotaVars, limit, answerVars, asked, adminCalls, peak, highest>>
enforceQuota(t) ==
  /\ t.pc \in {"limit", "usage", "session", "rpm"} /\ Leave(t)
  /\ UNCHANGED <<minute, quotaVars, limit, answerVars, asked, adminCalls, peak, highest>>

getUserMonthlyQuota(u) == IF limit[u] = <<>> THEN MonthlyLimit ELSE limit[u][1]
ReadLimit(t) ==
  /\ t.pc = "limit" /\ Step(t, [t EXCEPT !.pc = "usage", !.cap = getUserMonthlyQuota(t.user)])
  /\ UNCHANGED <<minute, quotaVars, limit, answerVars, asked, adminCalls, peak, highest>>

\* A bug this module must not have: the monthly limit is off by one.
checkMonthlyQuota_off_by_one(t) == t.pc = "usage" /\ Check(t, monthly[t.user][Month(t.at)], t.cap + 1, "session")

checkMonthlyQuota(t) == t.pc = "usage" /\ Check(t, monthly[t.user][Month(t.at)], t.cap, "session")
checkSessionQuota(t) == t.pc = "session" /\ Check(t, perSession[t.session], PerSessionLimit, "rpm")
checkRequestsPerMinute(t) ==
  t.pc = "rpm" /\ Check(t, perMinute[t.user][t.at], RequestsPerMinute, IF t.cache THEN "get" ELSE "llm")

\* LlmCacheService.get: a hit is counted and ends the request, uncharged; an
\* error of Redis is a miss.
get(t) ==
  /\ t.pc = "get"
  /\ LET key == generateCacheKey(t.prompt, t.model)
     IN  \/ key \in DOMAIN answers /\ Leave(t) /\ totals' = [totals EXCEPT !.hits = @ + 1]
         \/ Goto(t, "llm") /\ UNCHANGED totals
  /\ UNCHANGED <<minute, quotaVars, limit, answers, created, asked, adminCalls, peak, highest>>

\* A provider that fails yields the fallback message, which is cached and
\* charged like an answer.
callLlmWithFallback(t) ==
  /\ t.pc = "llm"
  /\ Step(t, [t EXCEPT !.pc = IF t.cache THEN "set" ELSE "record",
                       !.answer = IF t.prompt = "force-fail" THEN Fallback ELSE t.prompt])
  /\ UNCHANGED <<minute, quotaVars, limit, answerVars, asked, adminCalls, peak, highest>>

\* LlmCacheService.set: the answer, then its stats; either write can fail.
StoreAnswer(key, answer) == answers' = [k \in DOMAIN answers \cup {key} |-> IF k = key THEN answer ELSE answers[k]]
StoreStats(key) == created' = created \cup {key} /\ totals' = [totals EXCEPT !.entries = @ + 1]
set(t, ok) ==
  /\ t.pc = "set" /\ Goto(t, IF ok THEN "stats" ELSE "record")
  /\ IF ok THEN StoreAnswer(generateCacheKey(t.prompt, t.model), t.answer) ELSE UNCHANGED answers
  /\ UNCHANGED <<minute, quotaVars, limit, created, totals, asked, adminCalls, peak, highest>>
SetStats(t, ok) ==
  /\ t.pc = "stats" /\ Goto(t, "record")
  /\ IF ok THEN StoreStats(generateCacheKey(t.prompt, t.model)) ELSE UNCHANGED <<created, totals>>
  /\ UNCHANGED <<minute, quotaVars, limit, answers, asked, adminCalls, peak, highest>>

\* recordRequest at the present time, which may be a later month or minute than
\* that of the checks.  An INCR that fails is logged and forgotten.
incrementWithExpiry(counter, done) == IF done THEN counter + 1 ELSE counter
recordRequest(t, done) ==
  /\ t.pc = "record" /\ Leave(t)
  /\ monthly' = [monthly EXCEPT ![t.user][Month(minute)] = incrementWithExpiry(@, "month" \in done)]
  /\ perSession' = [perSession EXCEPT ![t.session] = incrementWithExpiry(@, "session" \in done)]
  /\ perMinute' = [perMinute EXCEPT ![t.user][minute] = incrementWithExpiry(@, "minute" \in done)]
  /\ UNCHANGED <<minute, limit, answerVars, asked, adminCalls, peak, highest>>

-----------------------------------------------------------------------------
\* Administration.
Admin == adminCalls < MaxLlmAdmin /\ adminCalls' = adminCalls + 1 /\ UNCHANGED <<minute, asks, asked, peak>>
\* The pattern <user>:* is that of the counters and of the custom limit.
resetUserQuota(u) ==
  /\ Admin /\ limit' = [limit EXCEPT ![u] = <<>>]
  /\ monthly' = [monthly EXCEPT ![u] = [m \in DOMAIN @ |-> 0]]
  /\ UNCHANGED <<perMinute, perSession, answerVars, highest>>
\* A limit below the present usage is warned about and set.
setUserMonthlyQuota(u, n) ==
  /\ Admin /\ limit' = [limit EXCEPT ![u] = <<n>>]
  /\ highest' = [highest EXCEPT ![u] = Larger(@, n)]
  /\ UNCHANGED <<quotaVars, answerVars>>
resetSessionQuota(s) ==
  /\ Admin /\ perSession' = [perSession EXCEPT ![s] = 0]
  /\ UNCHANGED <<monthly, perMinute, limit, answerVars, highest>>

DropAnswers(keys) == answers' = [k \in DOMAIN answers \ keys |-> answers[k]]
\* invalidate deletes <key>:stats, a name no stats are stored under; so does
\* pruneOldEntries, which finds the age of an answer in its stats.
invalidate(p, models) ==
  /\ Admin /\ DropAnswers({generateCacheKey(p, model) : model \in models})
  /\ UNCHANGED <<quotaVars, limit, created, totals, highest>>
pruneOldEntries(old) ==
  /\ Admin /\ old \subseteq DOMAIN answers \cap created /\ old # {} /\ DropAnswers(old)
  /\ UNCHANGED <<quotaVars, limit, created, totals, highest>>
\* The prefix is that of the answers, their stats and the totals.
invalidateAll ==
  /\ Admin /\ answers' = <<>> /\ created' = {} /\ totals' = [entries |-> 0, hits |-> 0]
  /\ UNCHANGED <<quotaVars, limit, highest>>
warmCache(p, model) ==
  /\ Admin /\ StoreAnswer(generateCacheKey(p, model), p) /\ StoreStats(generateCacheKey(p, model))
  /\ UNCHANGED <<quotaVars, limit, highest>>

\* Time passes: the keys of old months and minutes are out of use, and the
\* custom limit expires with the month.
getMonthExpiry ==
  /\ minute < MaxMinutes /\ minute' = minute + 1
  /\ limit' = IF Month(minute + 1) = Month(minute) THEN limit ELSE [u \in LlmUsers |-> <<>>]
  /\ UNCHANGED <<quotaVars, answerVars, asks, asked, adminCalls, peak, highest>>

LlmNext ==
  \/ \E u \in LlmUsers, s \in LlmSessions, p \in Prompts, model \in Models, c \in BOOLEAN : generateResponse(u, s, p, model, c)
  \/ \E t \in asks :
       \/ enforceQuota(t) \/ ReadLimit(t) \/ checkMonthlyQuota(t) \/ checkSessionQuota(t) \/ checkRequestsPerMinute(t)
       \/ get(t) \/ callLlmWithFallback(t)
       \/ \E ok \in BOOLEAN : set(t, ok) \/ SetStats(t, ok)
       \/ \E done \in SUBSET {"month", "session", "minute"} : recordRequest(t, done)
  \/ \E u \in LlmUsers : resetUserQuota(u) \/ \E n \in CustomLimits : setUserMonthlyQuota(u, n)
  \/ \E s \in LlmSessions : resetSessionQuota(s)
  \/ \E p \in Prompts : \/ \E models \in {Models} \cup {{model} : model \in Models} : invalidate(p, models)
                        \/ \E model \in Models : warmCache(p, model)
  \/ \E old \in SUBSET AnswerKeys : pruneOldEntries(old)
  \/ invalidateAll
  \/ getMonthExpiry

-----------------------------------------------------------------------------
\* The quotas are checked before the answer and charged after it, so they are
\* overrun, but only by the other requests that were in progress at the same
\* time: a counter never passes its limit by as many as ever overlapped.
OverrunBounded ==
  /\ \A u \in LlmUsers : /\ \A m \in DOMAIN monthly[u] : monthly[u][m] < highest[u] + Larger(peak, 1)
                         /\ \A m \in DOMAIN perMinute[u] : perMinute[u][m] < RequestsPerMinute + Larger(peak, 1)
  /\ \A s \in LlmSessions : perSession[s] < PerSessionLimit + Larger(peak, 1)
=============================================================================
