------------------------------ MODULE MCAccess ------------------------------
(***************************************************************************)
(* The services in front of the backend's data: sign-in with a wallet, the *)
(* tokens, the request limits, the two gateways to language models, the    *)
(* market data cache and the Stellar event monitor.  They share no tables  *)
(* or keys, so a behaviour is one of one service, chosen at the start.     *)
(***************************************************************************)
EXTENDS AiGateway, EventMonitor, TLC

CONSTANTS u1, k1, k2, v1, p1

VARIABLES
  nonces, users, wallets, authTasks, authCalls, admitted, repeated, owners, unbindsOverlapped,
  refreshTokens, apiTokens, rotations, tokenCalls, epoch, doubled,
  tick, window, rate, violations, banEnds, guarded, arrived, allowedAt, crashed, excused,
  minute, monthly, perMinute, perSession, limit, answers, created, totals, asks, asked,
  adminCalls, peak, highest,
  source, cache, lookups, invalidations, hits, misses, begun, ordered, handled,
  service  \* the service that is used

walletAuthVars ==
  <<nonces, users, wallets, authTasks, authCalls, admitted, repeated, owners, unbindsOverlapped>>
tokenVars == <<refreshTokens, apiTokens, rotations, tokenCalls, epoch, doubled>>
limitVars ==
  <<tick, window, rate, violations, banEnds, guarded, arrived, allowedAt, crashed, excused>>
llmVars ==
  <<minute, monthly, perMinute, perSession, limit, answers, created, totals, asks, asked,
    adminCalls, peak, highest>>
marketVars == <<source, cache, lookups, invalidations, hits, misses, begun, ordered, handled>>
accessVars ==
  <<service, walletAuthVars, tokenVars, limitVars, llmVars, aiVars, marketVars, monitorVars>>

SignIn == INSTANCE WalletAuth WITH PublicKeys <- {k1, k2}, MaxNonces <- 2, MaxAuthCalls <- 3

Tokens == INSTANCE AuthTokens WITH TokenUsers <- {u1}, MaxTokens <- 4, MaxTokenCalls <- 5

Limits == INSTANCE RequestLimits WITH
  WindowLimit <- 1, WindowLength <- 2, ThrottleLimit <- 1, ThrottleWindow <- 2,
  MaxViolations <- 2, BaseBan <- 1, ViolationTtl <- 3, MaxTicks <- 4, MaxGuarded <- 3

Llm == INSTANCE LlmService WITH
  LlmUsers <- {u1}, LlmSessions <- {v1}, Prompts <- {"Hi", "force-fail"}, Models <- {"gpt-4"},
  MonthlyLimit <- 1, PerSessionLimit <- 1, RequestsPerMinute <- 1, CustomLimits <- {0, 2},
  MinutesPerMonth <- 2, MaxMinutes <- 2, MaxLlmRequests <- 2, MaxLlmAdmin <- 1

Market == INSTANCE MarketCache WITH MaxVersions <- 1, MaxLookups <- 2, MaxInvalidations <- 2

-----------------------------------------------------------------------------
AccessInit ==
  /\ service \in {"signIn", "tokens", "limits", "llm", "ai", "market", "monitor"}
  /\ SignIn!WalletAuthInit /\ Tokens!TokensInit /\ Limits!LimitsInit /\ Llm!LlmInit
  /\ AiInit /\ Market!MarketInit /\ EventMonitorInit

\* What a call of one service leaves alone.
OthersUnchanged ==
  /\ UNCHANGED service
  /\ service # "signIn" => UNCHANGED walletAuthVars
  /\ service # "tokens" => UNCHANGED tokenVars
  /\ service # "limits" => UNCHANGED limitVars
  /\ service # "llm" => UNCHANGED llmVars
  /\ service # "ai" => UNCHANGED aiVars
  /\ service # "market" => UNCHANGED marketVars
  /\ service # "monitor" => UNCHANGED monitorVars

AccessNext ==
  \/ service = "signIn" /\ SignIn!WalletAuthNext /\ OthersUnchanged
  \/ service = "tokens" /\ Tokens!TokensNext /\ OthersUnchanged
  \/ service = "limits" /\ Limits!LimitsNext /\ OthersUnchanged
  \/ service = "llm" /\ Llm!LlmNext /\ OthersUnchanged
  \/ service = "ai" /\ AiNext /\ OthersUnchanged
  \/ service = "market" /\ Market!MarketNext /\ OthersUnchanged
  \/ service = "monitor" /\ EventMonitorNext /\ OthersUnchanged

AccessSpec == AccessInit /\ [][AccessNext]_accessVars

-----------------------------------------------------------------------------
\* Authentication holds when requests interleave: a nonce admits one request, and
\* more only as far as they arrive before the first has marked it; a user that
\* was bound has wallets and one primary wallet, unless unbinds of the user
\* overlap; a login has one live refresh token, and one more for every use that
\* began while another use of the same token had not revoked it; after a logout
\* a live token stems from a later login or from a refresh that was in progress.
SignInSafe ==
  SignIn!NonceOnce /\ SignIn!WalletsInOrder /\ Tokens!RotationKeepsOne /\ Tokens!LogoutEnds

\* Limits hold as far as requests do not overlap.  Checks that overlap neither one
\* another nor the expiry of the set let in at most WindowLimit requests in any
\* stretch of WindowLength ticks; a counter that stands has an expiry unless a
\* process stopped between INCR and EXPIRE; and the quotas, which are checked
\* before an answer and charged after it, are overrun only by requests that
\* were in progress together.
LimitsHold ==
  Limits!WindowHolds /\ Limits!KeysExpire /\ Llm!OverrunBounded /\ AiQuotaOverrun

\* After an update was handled the cache holds no snapshot or news of before it,
\* except what a request had fetched and not yet written, and the overall
\* statistics cover those of the namespaces whatever is reset meanwhile.
CacheFresh == Market!SnapshotsFresh /\ Market!CountersCovered
=============================================================================
