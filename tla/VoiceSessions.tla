---------------------------- MODULE VoiceSessions ----------------------------
(***************************************************************************)
(* Voice sessions (Backend/src/voice): session documents, the per-user     *)
(* index and the active-session pointer in Redis, the websocket gateway's  *)
(* handlers, the cleanup jobs and the streams of answers.                  *)
(*                                                                         *)
(* A handler is the list of operations it awaits, its todo list; between   *)
(* any two of them other handlers run.  A change of a document is a read   *)
(* of the whole document and, one await later, a save of the whole copy,   *)
(* which brings a document back that was deleted meanwhile.  Messages,     *)
(* sockets and times are abstracted; their saves are not.  A session is    *)
(* stale or expired whenever the cleanup finds it so, and every key can    *)
(* expire.                                                                 *)
(***************************************************************************)
EXTENDS Integers, Sequences, FiniteSets

CONSTANTS
  VoiceUsers,
  MaxSessionsPerUser,       \* 3 in the code
  VoiceIds, MaxCalls        \* session ids and bound on the requests explored

VARIABLES
  sessions,      \* voice:session:<id> -> document
  userSessions,  \* voice:user:sessions:<user>
  active,        \* voice:usersession:<user>, <<>> or <<id>>
  streams,       \* activeStreams: stream id -> session
  tasks,         \* handlers in progress
  calls,         \* requests so far
  chunks,        \* history: chunks sent of each stream
  interrupted,   \* history: streams interruptStream ended
  disturbed      \* history: what excuses the session limit

keyVars == <<sessions, userSessions, active>>
streamVars == <<streams, chunks, interrupted>>
voiceVars == <<keyVars, streamVars, tasks, calls, disturbed>>

ConversationStates == {"IDLE", "LISTENING", "THINKING", "RESPONDING", "INTERRUPTED", "STALE", "TERMINATED"}
StreamIds == 1 .. MaxCalls
AllStreams == 0
NoSession == "none"
Words == 2     \* of an answer: the first chunk and the last

validTransitions ==
  [s \in ConversationStates |->
     CASE s = "IDLE" -> {"LISTENING"}
       [] s = "LISTENING" -> {"THINKING", "INTERRUPTED"}
       [] s = "THINKING" -> {"RESPONDING", "INTERRUPTED"}
       [] s = "RESPONDING" -> {"LISTENING", "INTERRUPTED", "IDLE"}
       [] s = "INTERRUPTED" -> {"LISTENING", "IDLE"}
       [] OTHER -> {}]
canTransition(from, to) == to \in validTransitions[from]
isInterruptible(state) == state \in {"THINKING", "RESPONDING"}

Do(op) == [op |-> op, to |-> ""]
\* Operations that change a document: read it, then save the copy.
updateSessionState(to) == [op |-> "state", to |-> to]
addMessage == Do("message")
updateSessionSocket == Do("socket")
updateLastPingAt == Do("ping")
Writes == {"state", "message", "socket", "ping", "save"}

VoiceTypeOK ==
  /\ DOMAIN sessions \subseteq VoiceIds
  /\ \A s \in DOMAIN sessions : sessions[s] \in [user : VoiceUsers, state : ConversationStates]
  /\ userSessions \in [VoiceUsers -> SUBSET VoiceIds]
  /\ \A u \in VoiceUsers : active[u] = <<>> \/ (Len(active[u]) = 1 /\ active[u][1] \in VoiceIds)
  /\ DOMAIN streams \subseteq StreamIds /\ \A i \in DOMAIN streams : streams[i] \in VoiceIds
  /\ chunks \in [StreamIds -> 0 .. Words] /\ interrupted \subseteq StreamIds

VoiceInit ==
  /\ sessions = <<>> /\ userSessions = [u \in VoiceUsers |-> {}] /\ active = [u \in VoiceUsers |-> <<>>]
  /\ streams = <<>> /\ tasks = {} /\ calls = 0
  /\ chunks = [i \in StreamIds |-> 0] /\ interrupted = {} /\ disturbed = {}

Put(f, k, v) == [x \in DOMAIN f \cup {k} |-> IF x = k THEN v ELSE f[x]]
Drop(f, ks) == [x \in DOMAIN f \ ks |-> f[x]]

-----------------------------------------------------------------------------
\* A task works for a user on a session; an interrupt may name a stream.
Task(id, user, session, stream, todo) ==
  [id |-> id, user |-> user, session |-> session, stream |-> stream, todo |-> todo, copy |-> <<>>]
StartOn(user, session, stream, todo) ==
  /\ calls < MaxCalls /\ calls' = calls + 1
  /\ tasks' = tasks \cup {Task(calls + 1, user, session, stream, todo)}
  /\ UNCHANGED <<keyVars, streamVars, disturbed>>
Start(user, session, todo) == StartOn(user, session, AllStreams, todo)
Rest(t, todo) == IF todo = <<>> THEN tasks \ {t} ELSE (tasks \ {t}) \cup {[t EXCEPT !.todo = todo, !.copy = <<>>]}
Continue(t, todo) == tasks' = Rest(t, todo)
IsNext(t, op) == t.todo # <<>> /\ Head(t.todo).op = op

-----------------------------------------------------------------------------
\* Operations of VoiceSessionService.

\* getSession, and the change of the copy; without a document, or a valid
\* transition, the operation ends.
ReadSession(t) ==
  /\ t.todo # <<>> /\ Head(t.todo).op \in Writes /\ t.copy = <<>>
  /\ LET op == Head(t.todo)
     IN  IF t.session \notin DOMAIN sessions
            \/ (op.op = "state" /\ ~canTransition(sessions[t.session].state, op.to))
         THEN Continue(t, Tail(t.todo))
         ELSE tasks' = (tasks \ {t}) \cup
                {[t EXCEPT !.copy = <<IF op.op = "state" THEN [sessions[t.session] EXCEPT !.state = op.to]
                                      ELSE sessions[t.session]>>]}
  /\ UNCHANGED <<keyVars, streamVars, calls, disturbed>>
saveSession(t) ==
  /\ t.copy # <<>>
  /\ sessions' = Put(sessions, t.session, t.copy[1])
  /\ disturbed' = IF t.session \in DOMAIN sessions \/ Head(t.todo).op = "save" THEN disturbed
                  ELSE disturbed \cup {"revived"}
  /\ Continue(t, Tail(t.todo))
  /\ UNCHANGED <<userSessions, active, streamVars, calls>>

\* resumeSession and interruptSession read the state that decides the update.
resumeSession(t) ==
  /\ IsNext(t, "resume")
  /\ Continue(t, IF t.session \notin DOMAIN sessions THEN Tail(t.todo)
                 ELSE IF sessions[t.session].state = "INTERRUPTED"
                 THEN <<updateSessionState("LISTENING")>> \o Tail(t.todo)
                 ELSE <<updateSessionState("IDLE")>> \o Tail(t.todo))
  /\ UNCHANGED <<keyVars, streamVars, calls, disturbed>>
interruptSession(t) ==
  /\ IsNext(t, "interrupt")
  /\ Continue(t, IF t.session \in DOMAIN sessions /\ isInterruptible(sessions[t.session].state)
                 THEN <<updateSessionState("INTERRUPTED")>> \o Tail(t.todo)
                 ELSE Tail(t.todo))
  /\ UNCHANGED <<keyVars, streamVars, calls, disturbed>>

\* terminateSession: the document, then the index, then the pointer if it is
\* this session's.
terminateOps == <<Do("find"), Do("del"), Do("sRem"), Do("clear")>>
FindSession(t) ==
  /\ IsNext(t, "find")
  /\ IF t.session \in DOMAIN sessions
     THEN tasks' = (tasks \ {t}) \cup {[t EXCEPT !.user = sessions[t.session].user, !.todo = Tail(@)]}
     ELSE Continue(t, <<>>)
  /\ UNCHANGED <<keyVars, streamVars, calls, disturbed>>
DelSession(t) ==
  /\ IsNext(t, "del")
  /\ sessions' = Drop(sessions, {t.session})
  /\ Continue(t, Tail(t.todo))
  /\ UNCHANGED <<userSessions, active, streamVars, calls, disturbed>>
removeUserSession(t) ==
  /\ IsNext(t, "sRem")
  /\ userSessions' = [userSessions EXCEPT ![t.user] = @ \ {t.session}]
  /\ Continue(t, Tail(t.todo))
  /\ UNCHANGED <<sessions, active, streamVars, calls, disturbed>>
clearUserActiveSessionIfMatches(t) ==
  /\ IsNext(t, "clear")
  /\ Continue(t, IF active[t.user] = <<t.session>> THEN <<Do("delActive")>> \o Tail(t.todo) ELSE Tail(t.todo))
  /\ UNCHANGED <<keyVars, streamVars, calls, disturbed>>
deleteUserActiveSession(t) ==
  /\ IsNext(t, "delActive")
  /\ active' = [active EXCEPT ![t.user] = <<>>]
  /\ Continue(t, Tail(t.todo))
  /\ UNCHANGED <<sessions, userSessions, streamVars, calls, disturbed>>
setUserActiveSession(t) ==
  /\ IsNext(t, "setActive")
  /\ active' = [active EXCEPT ![t.user] = <<t.session>>]
  /\ Continue(t, Tail(t.todo))
  /\ UNCHANGED <<sessions, userSessions, streamVars, calls, disturbed>>

getUserActiveSession(u) == active[u]
getUserActiveSessions(u) == {s \in userSessions[u] : s \in DOMAIN sessions}

\* A bug this module must not have: the limit is off by one.
LimitReached_off_by_one(owner) == Cardinality(getUserActiveSessions(owner)) > MaxSessionsPerUser

\* createSession of the service: the limit is checked ...
LimitReached(owner) == Cardinality(getUserActiveSessions(owner)) >= MaxSessionsPerUser
Creating(owner) == {t \in tasks : \E i \in DOMAIN t.todo : t.todo[i] = [op |-> "sAdd", to |-> owner]}
VoiceSession(owner) == [user |-> owner, state |-> "IDLE"]
createSession(t) ==
  /\ IsNext(t, "create")
  /\ LET owner == Head(t.todo).to
     IN  IF LimitReached(owner)
         THEN Continue(t, <<>>) /\ UNCHANGED disturbed
         ELSE /\ \E s \in VoiceIds :
                   /\ \A p \in tasks : p.session # s
                   /\ s \notin DOMAIN sessions /\ \A u \in VoiceUsers : s \notin userSessions[u]
                   /\ tasks' = (tasks \ {t}) \cup
                        {[t EXCEPT !.session = s, !.copy = <<VoiceSession(owner)>>,
                                   !.todo = <<Do("save"), [op |-> "sAdd", to |-> owner]>> \o Tail(t.todo)]}
              /\ disturbed' = IF Creating(owner) = {} THEN disturbed ELSE disturbed \cup {"raced"}
  /\ UNCHANGED <<keyVars, streamVars, calls>>
\* ... then, the document being saved, the index is extended.
addUserSession(t) ==
  /\ IsNext(t, "sAdd")
  /\ userSessions' = [userSessions EXCEPT ![Head(t.todo).to] = @ \cup {t.session}]
  /\ Continue(t, Tail(t.todo))
  /\ UNCHANGED <<sessions, active, streamVars, calls, disturbed>>

-----------------------------------------------------------------------------
\* StreamingResponseService.
startStreamingResponse == <<addMessage, updateSessionState("THINKING"), Do("stream")>>
generateStreamingResponse ==
  <<Do("generate"), updateSessionState("RESPONDING"), Do("llm"), Do("chunk"), Do("chunk")>>
completeStreamingResponse == <<Do("complete"), addMessage, updateSessionState("LISTENING"), Do("forget")>>

\* The end of startStreamingResponse: the stream exists, and a timer will generate
\* the answer.  (Its id is that of the request.)
RegisterStream(t) ==
  /\ IsNext(t, "stream")
  /\ streams' = Put(streams, t.id, t.session)
  /\ tasks' = (tasks \ {t}) \cup
       {Task(t.id, t.user, t.session, AllStreams, generateStreamingResponse \o completeStreamingResponse)}
  /\ UNCHANGED <<keyVars, chunks, interrupted, calls, disturbed>>
\* Both checks of generateStreamingResponse and completeStreamingResponse: the
\* session and the stream are there.  A stream of a lost session stays behind.
CheckStream(t) ==
  /\ IsNext(t, "generate") \/ IsNext(t, "complete")
  /\ Continue(t, IF t.session \in DOMAIN sessions /\ t.id \in DOMAIN streams THEN Tail(t.todo) ELSE <<>>)
  /\ UNCHANGED <<keyVars, streamVars, calls, disturbed>>
\* llmService.generateResponse answers or throws; then nobody ends the stream.
CallLlm(t, ok) ==
  /\ IsNext(t, "llm")
  /\ Continue(t, IF ok THEN Tail(t.todo) ELSE <<>>)
  /\ UNCHANGED <<keyVars, streamVars, calls, disturbed>>

\* A bug this module must not have: the loop does not look at the stream.
StreamEnded_unchecked(t) == FALSE

\* The check before every chunk.
StreamEnded(t) == t.id \notin DOMAIN streams
SendChunk(t) ==
  /\ IsNext(t, "chunk")
  /\ IF StreamEnded(t) THEN Continue(t, <<>>) /\ UNCHANGED chunks
     ELSE Continue(t, Tail(t.todo)) /\ chunks' = [chunks EXCEPT ![t.id] = @ + 1]
  /\ UNCHANGED <<keyVars, streams, interrupted, calls, disturbed>>
ForgetStream(t) ==
  /\ IsNext(t, "forget")
  /\ streams' = Drop(streams, {t.id})
  /\ Continue(t, Tail(t.todo))
  /\ UNCHANGED <<keyVars, chunks, interrupted, calls, disturbed>>

\* interruptStream of one stream or of all of the session; then the session.
interruptStream(t) ==
  /\ IsNext(t, "interruptStreams")
  /\ LET hit == IF t.session \notin DOMAIN sessions THEN {}
                ELSE IF t.stream = AllStreams THEN {i \in DOMAIN streams : streams[i] = t.session}
                ELSE {i \in DOMAIN streams : i = t.stream}
     IN  streams' = Drop(streams, hit) /\ interrupted' = interrupted \cup hit
  /\ Continue(t, IF t.session \in DOMAIN sessions THEN <<Do("interrupt")>> \o Tail(t.todo) ELSE Tail(t.todo))
  /\ UNCHANGED <<keyVars, chunks, calls, disturbed>>
InterruptStreams == Do("interruptStreams")

-----------------------------------------------------------------------------
\* Handlers of the gateway; the first read is made when the request arrives,
\* and a request it refuses changes nothing.
handleConnection(u, s) ==
  /\ s \in DOMAIN sessions /\ sessions[s].user = u
  /\ Start(u, s, <<updateSessionSocket, Do("resume"), Do("setActive")>>)
\* Nothing asks whether the session is the user's, or another socket's by now.
handleDisconnect(u, s) == Start(u, s, <<updateSessionState("IDLE"), Do("delActive")>>)
\* A session of the socket's user is taken over; a new one belongs to the user
\* the message names.
createSessionRequest(u, owner) ==
  IF getUserActiveSessions(u) # {}
  THEN \E s \in getUserActiveSessions(u) : Start(u, s, <<updateSessionSocket, Do("setActive")>>)
  ELSE Start(u, NoSession, <<[op |-> "create", to |-> owner], updateSessionSocket, Do("setActive")>>)
WithActive(u, todo) == getUserActiveSession(u) # <<>> /\ Start(u, getUserActiveSession(u)[1], todo)
handleMessage(u) == WithActive(u, <<Do("owner")>> \o startStreamingResponse)
CheckOwner(t) ==
  /\ IsNext(t, "owner")
  /\ Continue(t, IF t.session \in DOMAIN sessions /\ sessions[t.session].user = t.user THEN Tail(t.todo) ELSE <<>>)
  /\ UNCHANGED <<keyVars, streamVars, calls, disturbed>>
handleInterrupt(u, stream) ==
  getUserActiveSession(u) # <<>> /\ StartOn(u, getUserActiveSession(u)[1], stream, <<InterruptStreams>>)
handleSessionAction(u, first, to) == WithActive(u, first \o <<updateSessionState(to)>>)
handleTerminate(u) == WithActive(u, <<InterruptStreams>> \o terminateOps \o <<Do("delActive")>>)
handlePing(u) == WithActive(u, <<updateSessionSocket, updateLastPingAt>>)

\* Both cleanups have read a session that is too old and terminate it, whatever
\* happened since.
cleanupStaleSessions(s) ==
  /\ s \in DOMAIN sessions /\ sessions[s].state \notin {"TERMINATED", "STALE"}
  /\ Start(sessions[s].user, s, terminateOps)
cleanupExpiredSessions(s) == s \in DOMAIN sessions /\ Start(sessions[s].user, s, terminateOps)
performCleanup(s) == cleanupStaleSessions(s) \/ cleanupExpiredSessions(s)

\* Redis drops keys whose time is over (external).
ExpireKey ==
  /\ \/ \E s \in DOMAIN sessions : sessions' = Drop(sessions, {s}) /\ UNCHANGED <<userSessions, active, disturbed>>
     \/ \E u \in VoiceUsers :
          \/ active[u] # <<>> /\ active' = [active EXCEPT ![u] = <<>>]
             /\ UNCHANGED <<sessions, userSessions, disturbed>>
          \/ userSessions[u] # {} /\ userSessions' = [userSessions EXCEPT ![u] = {}]
             /\ disturbed' = disturbed \cup {"expired"} /\ UNCHANGED <<sessions, active>>
  /\ UNCHANGED <<streamVars, tasks, calls>>

-----------------------------------------------------------------------------
VoiceNext ==
  \/ \E t \in tasks :
       \/ ReadSession(t) \/ saveSession(t) \/ resumeSession(t) \/ interruptSession(t)
       \/ FindSession(t) \/ DelSession(t) \/ removeUserSession(t) \/ clearUserActiveSessionIfMatches(t)
       \/ deleteUserActiveSession(t) \/ setUserActiveSession(t) \/ createSession(t) \/ addUserSession(t)
       \/ RegisterStream(t) \/ CheckStream(t) \/ SendChunk(t) \/ ForgetStream(t) \/ interruptStream(t)
       \/ CheckOwner(t) \/ \E ok \in BOOLEAN : CallLlm(t, ok)
  \/ \E u \in VoiceUsers :
       \/ \E s \in VoiceIds : handleConnection(u, s) \/ handleDisconnect(u, s)
       \/ \E owner \in VoiceUsers : createSessionRequest(u, owner)
       \/ handleMessage(u) \/ handleTerminate(u) \/ handlePing(u)
       \/ \E i \in StreamIds \cup {AllStreams} : handleInterrupt(u, i)
       \/ \E to \in ConversationStates : handleSessionAction(u, <<>>, to) \/ handleSessionAction(u, <<InterruptStreams>>, to)
  \/ \E s \in VoiceIds : performCleanup(s)
  \/ ExpireKey

VoiceSpec == VoiceInit /\ [][VoiceNext]_voiceVars

-----------------------------------------------------------------------------
\* AC-4, as far as the code goes: a user has no more sessions than the limit
\* unless two creations overlapped, the index expired before its sessions, or a
\* stale save brought a session back.
SessionLimit ==
  disturbed = {} => \A u \in VoiceUsers : Cardinality({s \in DOMAIN sessions : sessions[s].user = u}) <= MaxSessionsPerUser

\* A stream that interruptStream ended sends no further chunk, although the
\* generation it interrupts is suspended at an await.
KeepsSilent == \A i \in interrupted : chunks'[i] = chunks[i]
InterruptSilences == [][KeepsSilent]_voiceVars
=============================================================================
