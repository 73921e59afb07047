------------------------------- MODULE MCJobs -------------------------------
(***************************************************************************)
(* The services that keep work in queues and sessions: the job queue, the  *)
(* voice sessions with their streams, and the speech jobs.  They share no  *)
(* keys, tables or queues, so a behaviour is one of one service, chosen at *)
(* the start.                                                              *)
(***************************************************************************)
EXTENDS JobQueue, VoiceSessions, VoiceJobs, TLC

CONSTANTS u1, s1, s2, c1

VARIABLE service  \* the service that is used

jobsVars == <<service, queueVars, voiceVars, speechVars>>

-----------------------------------------------------------------------------
JobsInit ==
  /\ service \in {"queue", "voice", "speech"}
  /\ JobQueueInit /\ VoiceInit /\ VoiceJobsInit
  /\ service # "queue" => queueName = "deploy-contract"

\* What a call of one service leaves alone.
OthersUnchanged ==
  /\ UNCHANGED service
  /\ service # "queue" => UNCHANGED queueVars
  /\ service # "voice" => UNCHANGED voiceVars
  /\ service # "speech" => UNCHANGED speechVars

JobsNext ==
  \/ service = "queue" /\ JobQueueNext /\ OthersUnchanged
  \/ service = "voice" /\ VoiceNext /\ OthersUnchanged
  \/ service = "speech" /\ VoiceJobsNext /\ OthersUnchanged

JobsSpec == JobsInit /\ [][JobsNext]_jobsVars

\* Bound: three jobs and overlapping requests are explored on one queue (the
\* queues run the same code), and a poll, which only reads jobs, without requests.
FewAtOnce ==
  /\ queueName # "deploy-contract" => Cardinality(DOMAIN jobs) <= 2 /\ requests[2].pc = "idle"
  /\ poll # NoPoll => \A r \in DOMAIN requests : requests[r].pc = "idle"

\* Session ids are interchangeable.
Symmetry == Permutations(VoiceIds)
=============================================================================
