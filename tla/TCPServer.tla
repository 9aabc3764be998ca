----------------------------- MODULE TCPServer -----------------------------
(***************************************************************************)
(* Start, stop and restart of a server while clients come and go           *)
(* (source/server/asio/tcp_server.cpp; ssl_server.cpp has the same shape), *)
(* with the connection half of TCPSession and the stop of the Asio service *)
(* (service.cpp).  The application thread posts handlers; the one IO       *)
(* thread runs them in order, together with the completions of accepts and *)
(* the ends of connections.  A session is numbered as it is created.       *)
(***************************************************************************)
EXTENDS Naturals, Sequences, SequencesExt

CONSTANTS MaxSessions,   \* bound: sessions created
          MaxCalls,      \* bound: Start, Stop and Restart calls
          BindMayFail,   \* whether opening the acceptor may throw
          ServiceStops   \* whether the application stops the service

ASSUME ServerAssumption ==
    /\ MaxSessions \in Nat
    /\ MaxCalls \in Nat
    /\ {BindMayFail, ServiceStops} \subseteq BOOLEAN

VARIABLES
    app,        \* the application thread: "running", or where a call of it waits
    calls,      \* calls made so far
    io,         \* the IO thread: "running", "blocked" on g_mtx, or "ended"
    serving,    \* Service::IsStarted()
    started,    \* TCPServer::IsStarted()
    created,    \* sessions created; the last of them is _session
    accepting,  \* the session an async_accept waits for, or 0
    serverless, \* sessions that ResetServer took the server from
    connected,  \* sessions with IsConnected()
    sessions,   \* _sessions
    posted,     \* handlers the IO thread has still to run, oldest first
    fault       \* a null pointer was followed: the process is gone

vars == <<app, calls, io, serving, started, created, accepting, serverless, connected,
          sessions, posted, fault>>

appVars     == <<app, calls>>
serverVars  == <<started, created, accepting, serverless>>
sessionVars == <<connected, sessions>>

Ids == 1..MaxSessions

Start       == [op |-> "start"]
Stop        == [op |-> "stop"]
ServiceStop == [op |-> "service stop"]
Accepted(ok) == [op |-> "accepted", ok |-> ok]
Closed(s)    == [op |-> "closed", session |-> s]

\* Service::Start has returned, and no server was started yet.
Init ==
    /\ app = "running" /\ calls = 0
    /\ io = "running"
    /\ serving = TRUE
    /\ started = FALSE
    /\ created = 0
    /\ accepting = 0
    /\ serverless = {}
    /\ connected = {}
    /\ sessions = {}
    /\ posted = <<>>
    /\ fault = FALSE

Pending(h) == \E i \in DOMAIN posted : posted[i] = h

\* The bound on sessions leaves room for what is already under way.
Creating == {i \in DOMAIN posted : posted[i].op \in {"start", "accepted"}}
Spare    == created + Cardinality(Creating) + 1 < MaxSessions

-----------------------------------------------------------------------------
(* The application thread *)

Call ==
    /\ ~fault
    /\ app = "running"
    /\ calls < MaxCalls
    /\ calls' = calls + 1

CallStart ==
    /\ Call
    /\ ~started
    /\ Spare
    /\ posted' = Append(posted, Start)
    /\ UNCHANGED <<app, io, serving, serverVars, sessionVars, fault>>

CallStop ==
    /\ Call
    /\ started
    /\ posted' = Append(posted, Stop)
    /\ UNCHANGED <<app, io, serving, serverVars, sessionVars, fault>>

\* Restart is Stop, a wait in a loop, and Start.
CallRestart ==
    /\ Call
    /\ started
    /\ Spare
    /\ posted' = Append(posted, Stop)
    /\ app' = "restarting"
    /\ UNCHANGED <<io, serving, serverVars, sessionVars, fault>>

\* Mutant: Restart does not wait for the stop handler.
RestartAtOnce ==
    /\ ~fault
    /\ app = "restarting"
    /\ app' = "running"
    /\ posted' = Append(posted, Start)
    /\ UNCHANGED <<calls, io, serving, serverVars, sessionVars, fault>>

RestartStopped ==
    /\ ~fault
    /\ app = "restarting"
    /\ ~started
    /\ app' = "running"
    /\ posted' = Append(posted, Start)
    /\ UNCHANGED <<calls, io, serving, serverVars, sessionVars, fault>>

CallServiceStop ==
    /\ ServiceStops
    /\ ~fault
    /\ app = "running"
    /\ app' = "joining"
    /\ posted' = Append(posted, ServiceStop)
    /\ UNCHANGED <<calls, io, serving, serverVars, sessionVars, fault>>

Joined ==
    /\ ~fault
    /\ app = "joining"
    /\ io = "ended"
    /\ app' = "waiting"
    /\ UNCHANGED <<calls, io, serving, serverVars, sessionVars, posted, fault>>

ServiceStopped ==
    /\ ~fault
    /\ app = "waiting"
    /\ ~serving
    /\ app' = "over"
    /\ UNCHANGED <<calls, io, serving, serverVars, sessionVars, posted, fault>>

AppStep == RestartStopped \/ Joined \/ ServiceStopped

-----------------------------------------------------------------------------
(* Clients *)

\* A client completes the pending accept.
ClientConnects ==
    /\ ~fault
    /\ accepting # 0
    /\ Spare
    /\ accepting' = 0
    /\ posted' = Append(posted, Accepted(TRUE))
    /\ UNCHANGED <<appVars, io, serving, started, created, serverless, sessionVars, fault>>

\* The receive of a session completes with an error.
ClientLeaves(s) ==
    /\ ~fault
    /\ s \in connected
    /\ ~Pending(Closed(s))
    /\ posted' = Append(posted, Closed(s))
    /\ UNCHANGED <<appVars, io, serving, serverVars, sessionVars, fault>>

-----------------------------------------------------------------------------
(* Handlers, on the IO thread *)

Take(h) ==
    /\ ~fault
    /\ io = "running"
    /\ posted # <<>>
    /\ Head(posted) = h

\* Mutant: the new session is not stored in _session.
AcceptUnstored(running) ==
    IF running
      THEN accepting' = created + 1 /\ UNCHANGED created
      ELSE UNCHANGED <<created, accepting>>

\* Mutant: a stopped server goes on accepting.
AcceptAlways(running) == created' = created + 1 /\ accepting' = created + 1

\* Accept() makes the next session and waits for its client; a server that is
\* stopped accepts no more.
Accept(running) ==
    IF running
      THEN created' = created + 1 /\ accepting' = created + 1
      ELSE UNCHANGED <<created, accepting>>

StartHandler ==
    /\ Take(Start)
    /\ posted' = Tail(posted)
    /\ \/ /\ started
          /\ UNCHANGED <<io, started, created, accepting>>
       \/ /\ ~started
          /\ started' = TRUE
          /\ Accept(TRUE)
          /\ UNCHANGED io
       \/ /\ ~started          \* the exception ends ServiceThread
          /\ BindMayFail
          /\ io' = "ended"
          /\ UNCHANGED <<started, created, accepting>>
    /\ UNCHANGED <<appVars, serving, serverless, sessionVars, fault>>

\* Closing the acceptor completes a pending accept with an error;
\* DisconnectAll posts a disconnect for every session.
StopHandler ==
    /\ Take(Stop)
    /\ \/ /\ ~started
          /\ posted' = Tail(posted)
          /\ UNCHANGED serverVars
       \/ /\ started
          /\ posted' = Tail(posted)
                         \o (IF accepting # 0 THEN <<Accepted(FALSE)>> ELSE <<>>)
                         \o [i \in 1..Cardinality(sessions) |-> Closed(SetToSeq(sessions)[i])]
          /\ accepting' = 0
          /\ serverless' = serverless \cup {created}
          /\ started' = FALSE
          /\ UNCHANGED created
    /\ UNCHANGED <<appVars, io, serving, sessionVars, fault>>

\* The handler of an accept connects _session, whatever happened to it since
\* the client came; Connect() follows its pointer to the server.
AcceptedHandler ==
    /\ \/ /\ Take(Accepted(TRUE))
          /\ sessions' = sessions \cup {created}
          /\ \/ /\ created \in serverless
                /\ fault' = TRUE
                /\ UNCHANGED <<connected, created, accepting>>
             \/ /\ created \notin serverless
                /\ connected' = connected \cup {created}
                /\ Accept(started)
                /\ UNCHANGED fault
       \/ /\ Take(Accepted(FALSE))
          /\ Accept(started)
          /\ UNCHANGED <<sessionVars, fault>>
    /\ posted' = Tail(posted)
    /\ UNCHANGED <<appVars, io, serving, started, serverless>>


\* Disconnect, and the unregistering that it dispatches.
ClosedHandler(s) ==
    /\ Take(Closed(s))
    /\ posted' = Tail(posted)
    /\ connected' = connected \ {s}
    /\ sessions' = IF s \in connected THEN sessions \ {s} ELSE sessions
    /\ UNCHANGED <<appVars, io, serving, serverVars, fault>>

ServiceStopHandler ==
    /\ Take(ServiceStop)
    /\ posted' = Tail(posted)
    /\ io' = "ended"
    /\ serving' = FALSE
    /\ UNCHANGED <<appVars, serverVars, sessionVars, fault>>

\* The handler of a GetMap request waits for g_mtx.
Blocks ==
    /\ ~fault
    /\ io = "running"
    /\ connected # {}
    /\ io' = "blocked"
    /\ UNCHANGED <<appVars, serving, serverVars, sessionVars, posted, fault>>

\* It gets the mutex when the main loop gives it up, which a Restart does not
\* while it waits: its only caller, the command "!", holds the mutex.
Released ==
    /\ ~fault
    /\ io = "blocked"
    /\ app # "restarting"
    /\ io' = "running"
    /\ UNCHANGED <<appVars, serving, serverVars, sessionVars, posted, fault>>

Handler ==
    \/ StartHandler \/ StopHandler \/ AcceptedHandler \/ ServiceStopHandler
    \/ \E s \in Ids : ClosedHandler(s)

Next ==
    \/ CallStart \/ CallStop \/ CallRestart \/ CallServiceStop \/ AppStep
    \/ ClientConnects \/ \E s \in Ids : ClientLeaves(s)
    \/ Handler \/ Blocks \/ Released

Spec == Init /\ [][Next]_vars

\* The IO thread runs its handlers in turn, also between requests that wait
\* for the mutex; the main loop gives the mutex up outside a restart; a call
\* that waits goes on.
FairSpec == Spec /\ SF_vars(Handler) /\ WF_vars(Released) /\ WF_vars(AppStep)

-----------------------------------------------------------------------------
(* Properties *)

Handlers == {Start, Stop, ServiceStop, Accepted(TRUE), Accepted(FALSE)} \cup {Closed(s) : s \in Ids}

TypeOK ==
    /\ app \in {"running", "restarting", "joining", "waiting", "over"}
    /\ calls \in 0..MaxCalls
    /\ io \in {"running", "blocked", "ended"}
    /\ {serving, started, fault} \subseteq BOOLEAN
    /\ created \in 0..MaxSessions
    /\ accepting \in {0, created}
    /\ serverless \subseteq Ids
    /\ connected \subseteq Ids
    /\ sessions \subseteq Ids
    /\ posted \in Seq(Handlers)

Accepts == {i \in DOMAIN posted : posted[i].op = "accepted"}

\* However starts, stops and accepts interleave, there is one chain of accepts:
\* while the server is started either an accept is pending or its completion
\* is queued, never both and never two.
OneAcceptChain ==
    /\ Cardinality(Accepts) + (IF accepting = 0 THEN 0 ELSE 1) <= 1
    /\ started /\ ~fault => Cardinality(Accepts) + (IF accepting = 0 THEN 0 ELSE 1) = 1

L == INSTANCE Listener WITH Sessions <- Ids, up <- started

\* Sessions connect to a started server only, and a restarted server begins
\* without the sessions it had before.
ImplementsListener == L!Spec

=============================================================================
