--------------------------- MODULE WebhookDelivery ---------------------------
(***************************************************************************)
(* Delivery of Stellar events to webhooks (Backend/src/stellar-monitor):   *)
(* the table of events, the table of webhook consumers and the in-memory   *)
(* delivery queue with its retries.  The streams the events come from are  *)
(* in module EventMonitor.                                                 *)
(*                                                                         *)
(* The services are asynchronous: every await is a point where other       *)
(* requests run.  An update of a row is a read, a change of the copy that  *)
(* was read and, after another await, a save of the whole copy (TypeORM    *)
(* writes every column that differs from the row, and inserts the row when *)
(* it is gone), so updates can be lost and deleted rows can come back.     *)
(*                                                                         *)
(* Statistics that nothing reads back (totals, dates, reasons, messages)   *)
(* and the contents of events are left out.  A database error is not       *)
(* modelled; the exceptions the services raise themselves are.             *)
(***************************************************************************)
EXTENDS Integers, Sequences, FiniteSets, SequencesExt, Functions

CONSTANTS
  ConsumerIds, Urls,
  RetryLimits,      \* values of maxRetries
  FailureLimit,     \* 10 in the code
  BatchSize,        \* 10 in the code
  MaxEvents, MaxAdmin   \* bounds of the exploration

VARIABLES
  consumers,        \* webhook_consumers: id -> row
  events,           \* stellar_events: id -> row
  deliveryQueue,    \* WebhookDeliveryService.deliveryQueue
  batch,            \* deliveries the running processQueue waits for
  isProcessingQueue,
  deliveries,       \* calls of deliverEventToConsumer in progress
  retries,          \* items whose setTimeout has not fired
  adminSave,        \* admin requests between the read and the save
  arrivals,         \* events saved whose queueEventForDelivery has not read the consumers
  admins, saved,    \* requests and events so far
  posts,            \* history: posts of an event to a consumer, counted up to PostCap
  confirmed,        \* history: posts that were answered
  erased            \* history: rows that were deleted

consumerVars == <<consumers, adminSave, admins>>
deliveryVars == <<deliveryQueue, batch, isProcessingQueue, retries>>
postVars == <<posts, confirmed, erased>>
webhookVars == <<consumerVars, events, deliveryVars, deliveries, arrivals, saved, postVars>>

EventIds == 1 .. MaxEvents
Gone == <<>>          \* no row; a row that was read is <<row>>
Nobody == "nobody"    \* of the call that marks an event without consumers
PostCap == 1 + CHOOSE m \in RetryLimits : \A n \in RetryLimits : n <= m

\* A new row of each table.
WebhookConsumer(url, max) ==
  [url |-> url, isActive |-> TRUE, maxRetries |-> max, failed |-> 0, status |-> "active"]
StellarEvent == [status |-> "pending", isProcessed |-> FALSE, deliveredTo |-> {}, failedDeliveries |-> {}]

\* The object saveEvent returned travels with the item; nothing updates it.
Item(e, c) == [event |-> e, consumer |-> c, maxRetries |-> consumers[c].maxRetries,
               deliveryAttempts |-> 0, deliveredTo |-> {}]
Marking(e) == [event |-> e, consumer |-> Nobody, maxRetries |-> 0, deliveryAttempts |-> 0, deliveredTo |-> {}]
Delivery(item, pc, row) == [item |-> item, pc |-> pc, row |-> row]
ItemType == [event : EventIds, consumer : ConsumerIds, maxRetries : RetryLimits,
             deliveryAttempts : {0}, deliveredTo : {{}}]

WebhookTypeOK ==
  /\ DOMAIN consumers \subseteq ConsumerIds /\ DOMAIN events \subseteq EventIds
  /\ \A c \in DOMAIN consumers :
       consumers[c] \in [url : Urls, isActive : BOOLEAN, maxRetries : RetryLimits, failed : Nat,
                         status : {"active", "inactive", "suspended"}]
  /\ \A e \in DOMAIN events :
       events[e] \in [status : {"pending", "delivered", "failed"}, isProcessed : BOOLEAN,
                      deliveredTo : SUBSET ConsumerIds, failedDeliveries : SUBSET ConsumerIds]
  /\ deliveryQueue \in Seq(ItemType) /\ retries \subseteq ItemType
  /\ \A d \in deliveries : d.item \in ItemType \/ d.item = Marking(d.item.event)
  /\ isProcessingQueue \in BOOLEAN /\ arrivals \subseteq EventIds

\* The tables may hold the consumers of an earlier run.
WebhookInit ==
  /\ \E m \in RetryLimits, u \in {f \in [ConsumerIds -> Urls] : IsInjective(f)}, old \in SUBSET ConsumerIds :
       consumers = [c \in old |-> WebhookConsumer(u[c], m)]
  /\ events = <<>> /\ adminSave = {} /\ admins = 0
  /\ deliveryQueue = <<>> /\ batch = {} /\ isProcessingQueue = FALSE /\ retries = {}
  /\ deliveries = {} /\ arrivals = {} /\ saved = 0
  /\ posts = [p \in EventIds \X ConsumerIds |-> 0]
  /\ confirmed = [p \in EventIds \X ConsumerIds |-> 0]
  /\ erased = {}

With(f, k, v) == [x \in DOMAIN f \cup {k} |-> IF x = k THEN v ELSE f[x]]
Minus(f, k) == [x \in DOMAIN f \ {k} |-> f[x]]
MaxOf(a, b) == IF a > b THEN a ELSE b
Capped(n) == IF n > PostCap THEN PostCap ELSE n

-----------------------------------------------------------------------------
\* Consumer management.
getActiveConsumers == {c \in DOMAIN consumers : consumers[c].isActive /\ consumers[c].status = "active"}

\* An admin request reads (and checks), then saves what it made of the copy.
Requested(id, row) ==
  /\ admins < MaxAdmin
  /\ admins' = admins + 1
  /\ adminSave' = adminSave \cup {<<id, row>>}
  /\ UNCHANGED <<consumers, events, deliveryVars, deliveries, arrivals, saved, postVars>>
SaveRequest(r) ==
  /\ adminSave' = adminSave \ {r}
  /\ consumers' = IF r[2] = Gone THEN Minus(consumers, r[1]) ELSE With(consumers, r[1], r[2][1])
  /\ erased' = IF r[2] = Gone THEN erased \cup {<<"consumer", r[1]>>} ELSE erased
  /\ UNCHANGED <<admins, events, deliveryVars, deliveries, arrivals, saved, posts, confirmed>>

UrlTaken(url) == \E c \in DOMAIN consumers : consumers[c].url = url

createConsumer(c, url, max) ==
  /\ c \notin DOMAIN consumers /\ \A r \in adminSave : r[1] # c
  /\ <<"consumer", c>> \notin erased
  /\ ~UrlTaken(url)
  /\ Requested(c, <<WebhookConsumer(url, max)>>)
\* isActive may be set without the status; url = "" leaves the address alone.
updateConsumer(c, url, active) ==
  /\ c \in DOMAIN consumers
  /\ (url # "" /\ url # consumers[c].url) => ~UrlTaken(url)
  /\ Requested(c, <<[consumers[c] EXCEPT !.url = IF url = "" THEN @ ELSE url, !.isActive = active]>>)
deleteConsumer(c) == c \in DOMAIN consumers /\ Requested(c, Gone)
activateConsumer(c) ==
  c \in DOMAIN consumers /\ Requested(c, <<[consumers[c] EXCEPT !.isActive = TRUE, !.status = "active"]>>)
deactivateConsumer(c) ==
  c \in DOMAIN consumers /\ Requested(c, <<[consumers[c] EXCEPT !.isActive = FALSE, !.status = "inactive"]>>)
suspendConsumer(c) ==
  c \in DOMAIN consumers /\ Requested(c, <<[consumers[c] EXCEPT !.isActive = FALSE, !.status = "suspended"]>>)

\* The endpoints of the controller.  A test delivery posts an event of its own
\* and writes nothing; suspendConsumer has no endpoint.
PostConsumer(c) == \E u \in Urls, m \in RetryLimits : createConsumer(c, u, m)
PutConsumer(c) == \E u \in Urls \cup {""}, a \in BOOLEAN : updateConsumer(c, u, a)
DeleteConsumer(c) == deleteConsumer(c)
PostActivate(c) == activateConsumer(c)
PostDeactivate(c) == deactivateConsumer(c)

\* A bug this module must not have: a consumer that keeps failing is never suspended.
DeliveryStats_no_suspension(row, success) ==
  IF success THEN [row EXCEPT !.failed = MaxOf(0, @ - 1)]
  ELSE [row EXCEPT !.failed = IF @ > FailureLimit THEN @ ELSE @ + 1]

\* The row updateDeliveryStats saves, made of the row it read.
DeliveryStats(row, success) ==
  IF success THEN [row EXCEPT !.failed = MaxOf(0, @ - 1)]
  ELSE LET n == row.failed + 1
       IN  IF n > FailureLimit
           THEN [row EXCEPT !.failed = n, !.isActive = FALSE, !.status = "suspended"]
           ELSE [row EXCEPT !.failed = n]

-----------------------------------------------------------------------------
\* Events.
\* An event is saved, then handed to the queue: by the handlers of the streams
\* (EventMonitor!Operation) and by the simulate requests.
saveEvent ==
  /\ saved < MaxEvents
  /\ saved' = saved + 1
  /\ events' = With(events, saved + 1, StellarEvent)
  /\ arrivals' = arrivals \cup {saved + 1}
  /\ UNCHANGED <<consumerVars, deliveryVars, deliveries, posts, confirmed, erased>>

simulatePaymentEvent == saveEvent
simulateOfferEvent == saveEvent

cleanupOldEvents(e) ==
  /\ e \in DOMAIN events
  /\ events' = Minus(events, e) /\ erased' = erased \cup {<<"event", e>>}
  /\ UNCHANGED <<consumerVars, deliveryVars, deliveries, arrivals, saved, posts, confirmed>>

-----------------------------------------------------------------------------
\* A bug this module must not have: an event is queued by its handler and once more.
queueEventForDelivery_twice(e) ==
  /\ e \in arrivals
  /\ arrivals' = arrivals \ {e}
  /\ LET active == getActiveConsumers
     IN  IF active = {}
         THEN /\ deliveries' = deliveries \cup {Delivery(Marking(e), "findDone", Gone)}
              /\ UNCHANGED deliveryQueue
         ELSE /\ \E order \in SetToSeqs(active) :
                   deliveryQueue' = deliveryQueue \o [i \in 1 .. 2 * Len(order) |-> Item(e, order[1 + ((i - 1) % Len(order))])]
              /\ UNCHANGED deliveries
  /\ UNCHANGED <<consumerVars, events, batch, isProcessingQueue, retries, saved, postVars>>

\* The queue.  markEventAsProcessed of an event without consumers is a delivery
\* of its own that only has the last step left.
queueEventForDelivery(e) ==
  /\ e \in arrivals
  /\ arrivals' = arrivals \ {e}
  /\ LET active == getActiveConsumers
     IN  IF active = {}
         THEN /\ deliveries' = deliveries \cup {Delivery(Marking(e), "findDone", Gone)}
              /\ UNCHANGED deliveryQueue
         ELSE /\ \E order \in SetToSeqs(active) :
                   deliveryQueue' = deliveryQueue \o [i \in DOMAIN order |-> Item(e, order[i])]
              /\ UNCHANGED deliveries
  /\ UNCHANGED <<consumerVars, events, batch, isProcessingQueue, retries, saved, postVars>>

\* Called by queueEventForDelivery, a retry's timer and the interval timer.
processQueue ==
  /\ ~isProcessingQueue /\ deliveryQueue # <<>>
  /\ LET n == IF Len(deliveryQueue) < BatchSize THEN Len(deliveryQueue) ELSE BatchSize
         taken == {deliveryQueue[i] : i \in 1 .. n}
     IN  /\ deliveryQueue' = SubSeq(deliveryQueue, n + 1, Len(deliveryQueue))
         /\ deliveries' = deliveries \cup {Delivery(i, "check", Gone) : i \in taken}
         /\ batch' = taken
  /\ isProcessingQueue' = TRUE
  /\ UNCHANGED <<consumerVars, events, retries, arrivals, saved, postVars>>

\* Steps of one deliverEventToConsumer: to the next await, to the end, or to a
\* rejection, which ends the wait of Promise.all while other deliveries go on.
Step(d, pc, row) ==
  /\ deliveries' = (deliveries \ {d}) \cup {Delivery(d.item, pc, row)}
  /\ UNCHANGED <<batch, isProcessingQueue>>
Finish(d) ==
  /\ deliveries' = deliveries \ {d}
  /\ batch' = batch \ {d.item}
  /\ isProcessingQueue' = (isProcessingQueue /\ (d.item \in batch => batch # {d.item}))
Reject(d) ==
  /\ deliveries' = deliveries \ {d}
  /\ batch' = IF d.item \in batch THEN {} ELSE batch
  /\ isProcessingQueue' = (isProcessingQueue /\ d.item \notin batch)
QueueAlone == UNCHANGED <<deliveryQueue, consumerVars, arrivals, saved, erased>>

\* getConsumerById: a consumer that is gone raises, which counts as a failure.
CheckConsumer(d) ==
  /\ d.pc = "check"
  /\ IF d.item.consumer \notin DOMAIN consumers THEN Step(d, "failStats", Gone)
     ELSE IF consumers[d.item.consumer].isActive THEN Step(d, "post", Gone) ELSE Finish(d)
  /\ UNCHANGED <<events, retries, posts, confirmed>> /\ QueueAlone

\* The consumer answers, or the call fails or times out; a consumer whose
\* answer is late has the event all the same.
attemptDelivery(d, success) ==
  /\ d.pc = "post"
  /\ LET p == <<d.item.event, d.item.consumer>>
     IN  /\ posts' = [posts EXCEPT ![p] = Capped(@ + 1)]
         /\ confirmed' = IF success THEN [confirmed EXCEPT ![p] = Capped(@ + 1)] ELSE confirmed
  /\ Step(d, IF success THEN "findDelivered" ELSE "failStats", Gone)
  /\ UNCHANGED <<events, retries>> /\ QueueAlone

\* updateEventStatus and markEventAsProcessed: find ...
FindEvent(d) ==
  /\ d.pc \in {"findDelivered", "findFailed", "findDone"}
  /\ LET e == d.item.event
     IN  CASE e \notin DOMAIN events /\ d.pc = "findDelivered" -> Step(d, "failStats", Gone)
           [] e \notin DOMAIN events /\ d.pc = "findFailed" -> Reject(d)
           [] e \notin DOMAIN events /\ d.pc = "findDone" ->
                IF d.item.consumer = Nobody THEN Finish(d) ELSE Step(d, "failStats", Gone)
           [] e \in DOMAIN events /\ d.pc = "findDelivered" ->
                Step(d, "saveDelivered", <<[events[e] EXCEPT !.status = "delivered",
                                                             !.deliveredTo = @ \cup {d.item.consumer}]>>)
           [] e \in DOMAIN events /\ d.pc = "findFailed" ->
                Step(d, "saveFailed", <<[events[e] EXCEPT !.status = "failed",
                                                          !.failedDeliveries = @ \cup {d.item.consumer}]>>)
           [] OTHER -> Step(d, "saveDone", <<[events[e] EXCEPT !.isProcessed = TRUE]>>)
  /\ UNCHANGED <<events, retries, posts, confirmed>> /\ QueueAlone
\* ... and save.
SaveEvent(d) ==
  /\ d.pc \in {"saveDelivered", "saveFailed", "saveDone"}
  /\ events' = With(events, d.item.event, d.row[1])
  /\ IF d.pc = "saveDelivered" THEN Step(d, "stats", Gone) ELSE Finish(d)
  /\ UNCHANGED <<retries, posts, confirmed>> /\ QueueAlone

\* updateDeliveryStats: a consumer that is gone raises; in handleFailedDelivery
\* there is nothing left to catch it.
FindConsumer(d) ==
  /\ d.pc \in {"stats", "failStats"}
  /\ LET c == d.item.consumer
     IN  CASE c \in DOMAIN consumers /\ d.pc = "stats" ->
                Step(d, "saveStats", <<DeliveryStats(consumers[c], TRUE)>>)
           [] c \in DOMAIN consumers /\ d.pc = "failStats" ->
                Step(d, "saveFailStats", <<DeliveryStats(consumers[c], FALSE)>>)
           [] c \notin DOMAIN consumers /\ d.pc = "stats" -> Step(d, "failStats", Gone)
           [] OTHER -> Reject(d)
  /\ UNCHANGED <<events, retries, posts, confirmed>> /\ QueueAlone

SaveStats(d) ==
  /\ d.pc = "saveStats"
  /\ consumers' = With(consumers, d.item.consumer, d.row[1])
  /\ Step(d, "active", Gone)
  /\ UNCHANGED <<events, retries, posts, confirmed, deliveryQueue, adminSave, admins, arrivals, saved, erased>>

\* The delivery that makes the count reach the number of active consumers marks
\* the event; the count is taken from the item, not from the table.
MarkIfAll(d) ==
  /\ d.pc = "active"
  /\ IF Cardinality(d.item.deliveredTo) + 1 >= Cardinality(getActiveConsumers)
     THEN Step(d, "findDone", Gone) ELSE Finish(d)
  /\ UNCHANGED <<events, retries, posts, confirmed>> /\ QueueAlone

\* handleFailedDelivery: the last attempt is recorded, another is scheduled.
handleFailedDelivery(d) ==
  /\ d.pc = "saveFailStats"
  /\ consumers' = With(consumers, d.item.consumer, d.row[1])
  /\ IF d.item.deliveryAttempts + 1 >= d.item.maxRetries
     THEN Step(d, "findFailed", Gone) /\ UNCHANGED retries
     ELSE Finish(d) /\ retries' = retries \cup {d.item}
  /\ UNCHANGED <<events, posts, confirmed, deliveryQueue, adminSave, admins, arrivals, saved, erased>>

RetryTimer(item) ==
  /\ item \in retries
  /\ retries' = retries \ {item}
  /\ deliveryQueue' = Append(deliveryQueue, item)
  /\ UNCHANGED <<consumerVars, events, batch, isProcessingQueue, deliveries, arrivals, saved, postVars>>

-----------------------------------------------------------------------------
\* What the event loop and the timers do by themselves.
SystemStep ==
  \/ \E r \in adminSave : SaveRequest(r)
  \/ \E e \in arrivals : queueEventForDelivery(e)
  \/ processQueue
  \/ \E i \in retries : RetryTimer(i)
  \/ \E d \in deliveries :
       \/ CheckConsumer(d)
       \/ \E ok \in BOOLEAN : attemptDelivery(d, ok)
       \/ FindEvent(d) \/ SaveEvent(d)
       \/ FindConsumer(d) \/ SaveStats(d) \/ MarkIfAll(d) \/ handleFailedDelivery(d)

Request ==
  \/ simulatePaymentEvent \/ simulateOfferEvent
  \/ \E e \in EventIds : cleanupOldEvents(e)
  \/ \E c \in ConsumerIds :
       \/ PostConsumer(c) \/ PutConsumer(c) \/ DeleteConsumer(c)
       \/ PostActivate(c) \/ PostDeactivate(c) \/ suspendConsumer(c)

WebhookNext == SystemStep \/ Request
WebhookFairness == WF_webhookVars(SystemStep)
WebhookSpec == WebhookInit /\ [][WebhookNext]_webhookVars /\ WebhookFairness

-----------------------------------------------------------------------------
\* A consumer that has answered is not sent the event again, whatever overlaps:
\* batches that run side by side after a rejection, retries, admin requests.
\* (Rows that are deleted under a delivery are the exception: the delivery then
\* ends in an exception and is repeated.)
ConfirmedOnce ==
  \A e \in EventIds, c \in ConsumerIds :
    <<"event", e>> \notin erased /\ <<"consumer", c>> \notin erased => confirmed[<<e, c>>] <= 1

\* Retries come to an end: an event is delivered, given up, or its consumer is
\* suspended, although the count of attempts is never advanced.
DeliveriesSettle ==
  <>[](deliveryQueue = <<>> /\ deliveries = {} /\ retries = {} /\ ~isProcessingQueue)

\* "Max retries reached - mark as failed": no more posts than maxRetries.
RetriesBounded ==
  \A e \in EventIds, c \in DOMAIN consumers : posts[<<e, c>>] <= MaxOf(1, consumers[c].maxRetries)
=============================================================================
