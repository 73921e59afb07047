----------------------------- MODULE MarketCache -----------------------------
(***************************************************************************)
(* The cache of market data and news (Backend/src/market-data): lookups    *)
(* that fetch and fill on a miss, the events that invalidate, the expiry   *)
(* of entries and the counters of hits and misses.                         *)
(*                                                                         *)
(* The data behind the cache is a version number of its subject, the       *)
(* assets or the news: what a lookup returns is a version.  Every call of  *)
(* Redis is a step.  A failed read is a miss, a failed write is ignored.   *)
(***************************************************************************)
EXTENDS Integers, FiniteSets

CONSTANTS MaxVersions, MaxLookups, MaxInvalidations   \* bounds of the exploration

VARIABLES
  source,         \* version of the data of each subject
  cache,          \* entries: key -> [version, late]
  lookups,        \* requests between the miss and the write
  invalidations,  \* deletions in progress
  hits, misses,   \* counters of a namespace and, under Total, of all
  begun, ordered, \* requests and invalidations so far
  handled         \* history: version whose update event has been handled

counterVars == <<hits, misses>>
marketVars == <<source, cache, lookups, invalidations, counterVars, begun, ordered, handled>>

Subjects == {"assets", "news"}
Namespaces == {"market:snapshot", "market:price", "market:news"}
Total == "market:cache:total"

\* The keys of the services: snapshots with and without a filter, a price, the
\* list of a category and an article.
Key(ns, name) == [ns |-> ns, name |-> name]
generateMarketSnapshotKey == {Key("market:snapshot", "all-assets"), Key("market:snapshot", "assets:XLM")}
priceKey == Key("market:price", "XLM:native")
generateNewsKey == {Key("market:news", "news:stellar")}
articleKey == Key("market:news", "article:1")
CacheKeys == generateMarketSnapshotKey \cup generateNewsKey \cup {priceKey, articleKey}
SubjectOf(k) == IF k.ns = "market:news" THEN "news" ELSE "assets"

MarketTypeOK ==
  /\ source \in [Subjects -> 0 .. MaxVersions] /\ handled \in [Subjects -> 0 .. MaxVersions]
  /\ DOMAIN cache \subseteq CacheKeys
  /\ \A k \in DOMAIN cache : cache[k] \in [version : 0 .. MaxVersions, late : BOOLEAN]
  /\ \A l \in lookups : l.key \in CacheKeys /\ l.pc \in {"fetch", "set"}
  /\ \A n \in invalidations : n.ns \in Namespaces /\ n.pc \in {"keys", "del", "reset"}

MarketInit ==
  /\ source = [s \in Subjects |-> 0] /\ handled = [s \in Subjects |-> 0]
  /\ cache = <<>> /\ lookups = {} /\ invalidations = {} /\ begun = 0 /\ ordered = 0
  /\ hits = [n \in Namespaces \cup {Total} |-> 0] /\ misses = [n \in Namespaces \cup {Total} |-> 0]

-----------------------------------------------------------------------------
\* MarketCacheService.get, of a lookup that does not bypass the cache.
Lookup(k, pc) == [id |-> begun + 1, key |-> k, pc |-> pc, version |-> 0, late |-> FALSE]
get(k) ==
  /\ IF k \in DOMAIN cache
     THEN /\ hits' = [hits EXCEPT ![k.ns] = @ + 1, ![Total] = @ + 1]
          /\ UNCHANGED <<misses, lookups>>
     ELSE /\ misses' = [misses EXCEPT ![k.ns] = @ + 1, ![Total] = @ + 1]
          /\ lookups' = lookups \cup {Lookup(k, "fetch")}
          /\ UNCHANGED hits
Begin == begun < MaxLookups /\ begun' = begun + 1 /\ UNCHANGED <<source, cache, invalidations, ordered, handled>>
\* A read that fails, or a request that bypasses the cache, goes to the source.
Bypass(k) == lookups' = lookups \cup {Lookup(k, "fetch")} /\ UNCHANGED counterVars

getMarketSnapshot(k, bypassCache) ==
  /\ k \in generateMarketSnapshotKey /\ Begin /\ IF bypassCache THEN Bypass(k) ELSE get(k)
getAssetPrice == Begin /\ get(priceKey)
getNews(k, bypassCache) ==
  /\ k \in generateNewsKey /\ Begin /\ IF bypassCache THEN Bypass(k) ELSE get(k)
getArticleById == Begin /\ get(articleKey)

\* The source answers, or (asked for one asset or article) has nothing to cache.
Fetched(l, found) ==
  /\ l.pc = "fetch"
  /\ lookups' = IF found THEN (lookups \ {l}) \cup {[l EXCEPT !.pc = "set", !.version = source[SubjectOf(l.key)]]}
                ELSE lookups \ {l}
  /\ UNCHANGED <<source, cache, invalidations, counterVars, begun, ordered, handled>>
fetchMarketSnapshot(l) == l.key \in generateMarketSnapshotKey /\ Fetched(l, TRUE)
fetchAssetPrice(l, found) == l.key = priceKey /\ Fetched(l, found)
fetchNews(l) == l.key \in generateNewsKey /\ Fetched(l, TRUE)
fetchArticleById(l, found) == l.key = articleKey /\ Fetched(l, found)

\* MarketCacheService.set; an error leaves the cache as it is.
set(l, ok) ==
  /\ l.pc = "set"
  /\ lookups' = lookups \ {l}
  /\ cache' = IF ok THEN [k \in DOMAIN cache \cup {l.key} |->
                            IF k = l.key THEN [version |-> l.version, late |-> l.late] ELSE cache[k]]
              ELSE cache
  /\ UNCHANGED <<source, invalidations, counterVars, begun, ordered, handled>>

Expire(k) ==
  /\ k \in DOMAIN cache
  /\ cache' = [x \in DOMAIN cache \ {k} |-> cache[x]]
  /\ UNCHANGED <<source, lookups, invalidations, counterVars, begun, ordered, handled>>

-----------------------------------------------------------------------------
\* A key in Redis is the namespace and a hash of the name; the pattern of
\* invalidateByPattern is compared with it, and never has the form of a hash.
generateCacheKey(k) == <<k.ns, "hash", k.name>>
invalidateByPattern(ns, pattern) == {k \in DOMAIN cache : generateCacheKey(k) = <<ns, "plain", pattern>>}

\* invalidateNamespace: KEYS, DEL, then the counters once more.  The reason is
\* the version of an update, or no update (version 0).  Keys that go by a
\* pattern go first.
Invalidation(ns, version) == [id |-> ordered + 1, ns |-> ns, pc |-> "keys", keys |-> {}, version |-> version]
Order(ns, version, gone) ==
  /\ ordered < MaxInvalidations /\ ordered' = ordered + 1
  /\ invalidations' = invalidations \cup {Invalidation(ns, version)}
  /\ cache' = [k \in DOMAIN cache \ gone |-> cache[k]]
  /\ UNCHANGED <<lookups, counterVars, begun>>

\* A bug this module must not have: an asset update leaves the snapshots alone.
handleAssetUpdate_price_only(version) == Order("market:price", version, {})

\* The price entries go by pattern, the snapshots all go.
handleAssetUpdate(version) == Order("market:snapshot", version, invalidateByPattern("market:price", "XLM"))
handleNewsPublished(version) == Order("market:news", version, {})

\* An asset or a news item changes and its event is emitted.
triggerAssetUpdate ==
  /\ source["assets"] < MaxVersions
  /\ source' = [source EXCEPT !["assets"] = @ + 1]
  /\ handleAssetUpdate(source["assets"] + 1)
  /\ UNCHANGED handled
triggerNewsPublished ==
  /\ source["news"] < MaxVersions
  /\ source' = [source EXCEPT !["news"] = @ + 1]
  /\ handleNewsPublished(source["news"] + 1)
  /\ UNCHANGED handled

\* Requests to invalidate everything of a service, or what a pattern matches.
DropMatching(ns, pattern) ==
  /\ cache' = [k \in DOMAIN cache \ invalidateByPattern(ns, pattern) |-> cache[k]]
  /\ UNCHANGED <<source, lookups, invalidations, counterVars, begun, ordered, handled>>
invalidateMarketCache == Order("market:snapshot", 0, {}) /\ UNCHANGED <<source, handled>>
invalidateNewsCache == Order("market:news", 0, {}) /\ UNCHANGED <<source, handled>>
PostInvalidateMarket == invalidateMarketCache
PostInvalidateNews == invalidateNewsCache
\* The pattern and the keys of the manual event are never reached: without a
\* namespace none of the three branches is taken.
handleManualInvalidation(ns) == Order(ns, 0, {}) /\ UNCHANGED <<source, handled>>
triggerManualInvalidation == \E ns \in Namespaces : handleManualInvalidation(ns)
invalidate(k) ==
  /\ k \in DOMAIN cache
  /\ cache' = [x \in DOMAIN cache \ {k} |-> cache[x]]
  /\ UNCHANGED <<source, lookups, invalidations, counterVars, begun, ordered, handled>>
\* The endpoint takes a namespace, or a pattern or keys of the snapshots.
PostInvalidate ==
  \/ \E ns \in Namespaces : Order(ns, 0, {}) /\ UNCHANGED <<source, handled>>
  \/ DropMatching("market:snapshot", "assets")
  \/ \E k \in generateMarketSnapshotKey : invalidate(k)

\* KEYS namespace:* finds the counters too.  What is being written by now is not
\* among the keys found; without any key there is nothing more to do.
StatsKeys(ns) == {k \in {Key(ns, "stats:hits"), Key(ns, "stats:misses")} :
                    IF k.name = "stats:hits" THEN hits[ns] > 0 ELSE misses[ns] > 0}
Handled(n) == IF n.version = 0 THEN handled
              ELSE [handled EXCEPT ![IF n.ns = "market:news" THEN "news" ELSE "assets"] =
                      IF n.version > @ THEN n.version ELSE @]
FindKeys(n) ==
  /\ n.pc = "keys"
  /\ LET found == {k \in DOMAIN cache : k.ns = n.ns} \cup StatsKeys(n.ns)
     IN  /\ invalidations' = (invalidations \ {n}) \cup
              (IF found = {} THEN {} ELSE {[n EXCEPT !.pc = "del", !.keys = found]})
         /\ handled' = IF found = {} THEN Handled(n) ELSE handled
  /\ lookups' = {IF l.pc = "set" /\ l.key.ns = n.ns /\ l.version < n.version THEN [l EXCEPT !.late = TRUE]
                 ELSE l : l \in lookups}
  /\ UNCHANGED <<source, cache, counterVars, begun, ordered>>
DelKeys(n) ==
  /\ n.pc = "del"
  /\ invalidations' = (invalidations \ {n}) \cup {[n EXCEPT !.pc = "reset"]}
  /\ cache' = [k \in DOMAIN cache \ n.keys |-> cache[k]]
  /\ hits' = IF Key(n.ns, "stats:hits") \in n.keys THEN [hits EXCEPT ![n.ns] = 0] ELSE hits
  /\ misses' = IF Key(n.ns, "stats:misses") \in n.keys THEN [misses EXCEPT ![n.ns] = 0] ELSE misses
  /\ handled' = Handled(n)
  /\ UNCHANGED <<source, lookups, begun, ordered>>

\* A bug this module must not have: the overall counters are reset too.
ResetCounters_all(n) ==
  /\ n.pc = "reset"
  /\ invalidations' = invalidations \ {n}
  /\ hits' = [hits EXCEPT ![n.ns] = 0, ![Total] = 0] /\ misses' = [misses EXCEPT ![n.ns] = 0, ![Total] = 0]
  /\ UNCHANGED <<source, cache, lookups, begun, ordered, handled>>

ResetCounters(n) ==
  /\ n.pc = "reset"
  /\ invalidations' = invalidations \ {n}
  /\ hits' = [hits EXCEPT ![n.ns] = 0] /\ misses' = [misses EXCEPT ![n.ns] = 0]
  /\ UNCHANGED <<source, cache, lookups, begun, ordered, handled>>

-----------------------------------------------------------------------------
\* getStats and getOverallStats, as a request would compute them.
getStats(ns) == [hits |-> hits[ns], misses |-> misses[ns]]
getOverallStats ==
  [totalHits |-> hits[Total], totalMisses |-> misses[Total], namespaces |-> [n \in Namespaces |-> getStats(n)]]

\* The endpoints of the controller.
GetSnapshot == \E k \in CacheKeys, b \in BOOLEAN : getMarketSnapshot(k, b)
GetNews == \E k \in CacheKeys, b \in BOOLEAN : getNews(k, b)

MarketNext ==
  \/ GetSnapshot \/ GetNews \/ getAssetPrice \/ getArticleById
  \/ \E k \in CacheKeys : Expire(k)
  \/ \E l \in lookups :
       \/ fetchMarketSnapshot(l) \/ fetchNews(l)
       \/ \E ok \in BOOLEAN : fetchAssetPrice(l, ok) \/ fetchArticleById(l, ok) \/ set(l, ok)
  \/ triggerAssetUpdate \/ triggerNewsPublished \/ triggerManualInvalidation
  \/ PostInvalidate \/ PostInvalidateMarket \/ PostInvalidateNews
  \/ \E n \in invalidations : FindKeys(n) \/ DelKeys(n) \/ ResetCounters(n)

-----------------------------------------------------------------------------
Fresh(k) == cache[k].late \/ cache[k].version >= handled[SubjectOf(k)]

\* Once an update has been handled, no snapshot or news of before it is in the
\* cache, except what a request had fetched and not yet written when the keys
\* were listed.
SnapshotsFresh == \A k \in DOMAIN cache : k # priceKey => Fresh(k)

\* The overall statistics cover those of the namespaces they are reported with,
\* whatever is invalidated and reset meanwhile.
CountersCovered ==
  LET all == getOverallStats
      n == all.namespaces
  IN  /\ n["market:snapshot"].hits + n["market:price"].hits + n["market:news"].hits <= all.totalHits
      /\ n["market:snapshot"].misses + n["market:price"].misses + n["market:news"].misses <= all.totalMisses

\* "Invalidate price data cache for the specific asset": after an update of the
\* asset its old price is not served.
PriceInvalidated == priceKey \in DOMAIN cache => Fresh(priceKey)
=============================================================================
