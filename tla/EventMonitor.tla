----------------------------- MODULE EventMonitor -----------------------------
(***************************************************************************)
(* The Horizon streams of the Stellar event monitor (Backend/src/stellar-  *)
(* monitor/services/stellar-event-monitor.service.ts).  startMonitoring    *)
(* awaits the latest ledger before it opens the streams; a stream that     *)
(* fails is opened again by a timer; stopMonitoring closes the streams the *)
(* service has a handle of, and neither waits for a start in progress nor  *)
(* clears the timers.  Every open stream records each operation it sees.   *)
(* The Horizon client is external: a stream that reported an error sends   *)
(* nothing more, which is what the restart timer takes for granted.        *)
(***************************************************************************)
EXTENDS Integers, Sequences

CONSTANTS MaxStarts, MaxOperations   \* bounds of the exploration

VARIABLES
  isMonitoring,
  starting,     \* calls of startMonitoring that await the ledger
  kindStreams,  \* for each kind: the open streams, and what the field of the service holds
  restarts,     \* kinds whose restart timer runs
  starts,       \* calls of startMonitoring so far
  records,      \* history: rows written for each operation seen
  stops         \* history: stopMonitoring has closed the streams

monitorVars == <<isMonitoring, starting, kindStreams, restarts, starts, records, stops>>

StreamKinds == {"payment", "offer"}
NoStream == [live |-> 0, handle |-> "none"]

EventMonitorTypeOK ==
  /\ isMonitoring \in BOOLEAN /\ starting \in 0 .. MaxStarts /\ starts \in 0 .. MaxStarts
  /\ kindStreams \in [StreamKinds -> [live : 0 .. 2 * MaxStarts, handle : {"none", "open", "failed"}]]
  /\ restarts \subseteq StreamKinds /\ stops \in BOOLEAN

EventMonitorInit ==
  /\ isMonitoring = FALSE /\ starting = 0 /\ starts = 0
  /\ kindStreams = [k \in StreamKinds |-> NoStream]
  /\ restarts = {} /\ records = <<>> /\ stops = FALSE

\* The handle of an earlier stream is overwritten; the stream stays open.
Opened(stream) == [live |-> stream.live + 1, handle |-> "open"]
startPaymentStream(s) == [s EXCEPT !["payment"] = Opened(@)]
startOfferStream(s) == [s EXCEPT !["offer"] = Opened(@)]

\* A bug this module must not have: a second start is not refused.
startMonitoring_again ==
  /\ starts < MaxStarts
  /\ isMonitoring' = TRUE /\ starting' = starting + 1 /\ starts' = starts + 1
  /\ UNCHANGED <<kindStreams, restarts, records, stops>>

startMonitoring ==
  /\ ~isMonitoring
  /\ starts < MaxStarts
  /\ isMonitoring' = TRUE /\ starting' = starting + 1 /\ starts' = starts + 1
  /\ UNCHANGED <<kindStreams, restarts, records, stops>>

\* The ledger has arrived, or the call failed.
LedgerAnswered(ok) ==
  /\ starting > 0
  /\ starting' = starting - 1
  /\ kindStreams' = IF ok THEN startOfferStream(startPaymentStream(kindStreams)) ELSE kindStreams
  /\ isMonitoring' = (ok /\ isMonitoring)
  /\ UNCHANGED <<restarts, starts, records, stops>>

\* Also onModuleDestroy.
stopMonitoring ==
  /\ isMonitoring
  /\ kindStreams' = [k \in StreamKinds |->
       [live |-> IF kindStreams[k].handle = "open" THEN kindStreams[k].live - 1 ELSE kindStreams[k].live, handle |-> "none"]]
  /\ isMonitoring' = FALSE /\ stops' = TRUE
  /\ UNCHANGED <<starting, restarts, starts, records>>

\* onerror of the stream the service holds.
StreamFails(kind) ==
  /\ kindStreams[kind].handle = "open" /\ kind \notin restarts
  /\ kindStreams' = [kindStreams EXCEPT ![kind] = [live |-> @.live - 1, handle |-> "failed"]]
  /\ restarts' = restarts \cup {kind}
  /\ UNCHANGED <<isMonitoring, starting, starts, records, stops>>

RestartTimer(kind) ==
  /\ kind \in restarts
  /\ restarts' = restarts \ {kind}
  /\ kindStreams' = IF ~isMonitoring THEN kindStreams
                ELSE IF kind = "payment" THEN startPaymentStream(kindStreams) ELSE startOfferStream(kindStreams)
  /\ UNCHANGED <<isMonitoring, starting, starts, records, stops>>

\* An operation of the network reaches onmessage of every open stream of its
\* kind, and each call saves a row of its own (see WebhookDelivery!saveEvent).
Operation(kind) ==
  /\ kindStreams[kind].live > 0 /\ Len(records) < MaxOperations
  /\ records' = Append(records, kindStreams[kind].live)
  /\ UNCHANGED <<isMonitoring, starting, kindStreams, restarts, starts, stops>>
handlePaymentEvent == Operation("payment")
handleOfferEvent == Operation("offer")

EventMonitorNext ==
  \/ startMonitoring \/ stopMonitoring
  \/ \E ok \in BOOLEAN : LedgerAnswered(ok)
  \/ \E k \in StreamKinds : StreamFails(k) \/ RestartTimer(k)
  \/ handlePaymentEvent \/ handleOfferEvent

EventMonitorSpec == EventMonitorInit /\ [][EventMonitorNext]_monitorVars

-----------------------------------------------------------------------------
\* Failures and restarts never make the service record an operation twice; a
\* second record needs a stop that overtook a start or a restart timer.
RecordedOnce == ~stops => \A i \in DOMAIN records : records[i] = 1
=============================================================================
