------------------------------- MODULE Backend -------------------------------
(***************************************************************************)
(* backend/internal/tcp/server.go and backend/internal/state/store.go: the *)
(* accept loop, one handleConnection goroutine per connection, the session *)
(* store behind the status API, and Shutdown as cmd/server/main.go calls   *)
(* it.  A member of Conns is a connection id, used once.                   *)
(*                                                                         *)
(* The model runs until Shutdown returns and the goroutines come to rest;  *)
(* the process exits some time after that and takes with it what is left.  *)
(***************************************************************************)
EXTENDS Naturals, FiniteSets, Protocol

CONSTANTS Conns,        \* connection ids
          Lines,        \* the lines a peer may write: messages and Garbage
          Garbage,      \* a line that is not a JSON message
          MaxTelemetry  \* bound on telemetry_count

ASSUME ConnsAssumption == IsFiniteSet(Conns)
ASSUME LinesAssumption == Lines \subseteq Message \union {Garbage}
ASSUME GarbageAssumption == Garbage \notin Message
ASSUME MaxTelemetryAssumption == MaxTelemetry \in Nat

VARIABLES
  loop,        \* the next step of Serve
  incoming,    \* its conn: the set of the connection being set up, or {}
  registered,  \* s.listener is set
  listening,   \* the listener is open
  conns,       \* s.conns, the tracked connections
  wg,          \* the counter of s.wg
  shutdown,    \* the step of Shutdown, or how it returned
  toClose,     \* its activeConns still to be closed
  sawListener, \* its listener is not nil
  pc,          \* the next step of each handleConnection goroutine
  exit,        \* by which return it left the read loop
  started,     \* the goroutines whose sessionStarted is true
  sockClosed,  \* the connections the server has closed
  peerGone,    \* the connections whose peer has closed or vanished
  sessions,    \* store.sessions
  accepted,    \* counters.TotalConnectionsAccepted
  completed,   \* counters.TotalSessionsCompleted
  errors       \* counters.ProtocolErrors

serveVars == <<loop, incoming, registered, listening>>
shutVars == <<shutdown, toClose, sawListener>>
handlerVars == <<pc, exit, started>>
counters == <<accepted, completed, errors>>
store == <<sessions, counters>>
vars == <<serveVars, shutVars, handlerVars, conns, wg, sockClosed, peerGone, store>>

(* The sessions that Status counts and Machines copies out.                *)
Listed == DOMAIN sessions
Without(f, c) == [x \in DOMAIN f \ {c} |-> f[x]]
With(f, c, v) == [x \in DOMAIN f \union {c} |-> IF x = c THEN v ELSE f[x]]

Init == /\ loop = "start" /\ incoming = {}
        /\ registered = FALSE /\ listening = TRUE
        /\ conns = {} /\ wg = 0
        /\ shutdown = "none" /\ toClose = {} /\ sawListener = FALSE
        /\ pc = [c \in Conns |-> "new"]
        /\ exit = [c \in Conns |-> "none"]
        /\ started = {} /\ sockClosed = {} /\ peerGone = {}
        /\ sessions = [c \in {} |-> {}]
        /\ accepted = 0 /\ completed = 0 /\ errors = 0

-----------------------------------------------------------------------------
(* Serve.  Temporary accept errors only delay the loop.                    *)

Register == /\ loop = "start" /\ loop' = "accept"
            /\ registered' = TRUE
            /\ UNCHANGED <<incoming, listening, shutVars, handlerVars, conns, wg,
                           sockClosed, peerGone, store>>

Accept(c) == /\ loop = "accept" /\ listening
             /\ pc[c] = "new"
             /\ loop' = "open"
             /\ incoming' = {c}
             /\ pc' = [pc EXCEPT ![c] = "incoming"]
             /\ UNCHANGED <<registered, listening, shutVars, exit, started, conns, wg,
                            sockClosed, peerGone, store>>

AcceptClosed == /\ loop = "accept" /\ ~listening
                /\ loop' = "returned"
                /\ UNCHANGED <<incoming, registered, listening, shutVars, handlerVars,
                               conns, wg, sockClosed, peerGone, store>>

OpenConnection == /\ loop = "open" /\ loop' = "track"
                  /\ accepted' = accepted + 1
                  /\ UNCHANGED <<incoming, registered, listening, shutVars, handlerVars,
                                 conns, wg, sockClosed, peerGone, sessions, completed, errors>>

TrackConnection == /\ loop = "track" /\ loop' = "spawn"
                   /\ conns' = conns \union incoming
                   /\ UNCHANGED <<incoming, registered, listening, shutVars, handlerVars,
                                  wg, sockClosed, peerGone, store>>

(* Wrong: wg.Add(1) forgotten.                                             *)
SpawnUncounted == /\ loop = "spawn" /\ loop' = "accept"
                  /\ incoming' = {}
                  /\ pc' = [c \in Conns |-> IF c \in incoming THEN "read" ELSE pc[c]]
                  /\ UNCHANGED <<registered, listening, shutVars, exit, started, conns, wg,
                                 sockClosed, peerGone, store>>

(* wg.Add(1) and the go statement.                                         *)
Spawn == /\ loop = "spawn" /\ loop' = "accept"
         /\ wg' = wg + 1
         /\ incoming' = {}
         /\ pc' = [c \in Conns |-> IF c \in incoming THEN "read" ELSE pc[c]]
         /\ UNCHANGED <<registered, listening, shutVars, exit, started, conns,
                        sockClosed, peerGone, store>>

-----------------------------------------------------------------------------
(* Shutdown, after a signal.                                               *)

(* The critical section that copies the listener and the connections.      *)
Snapshot == /\ shutdown = "none" /\ shutdown' = "closeListener"
            /\ sawListener' = registered
            /\ toClose' = conns
            /\ UNCHANGED <<serveVars, handlerVars, conns, wg, sockClosed, peerGone, store>>

CloseListener == /\ shutdown = "closeListener" /\ shutdown' = "closeConns"
                 /\ listening' = (listening /\ ~sawListener)
                 /\ UNCHANGED <<loop, incoming, registered, toClose, sawListener, handlerVars,
                                conns, wg, sockClosed, peerGone, store>>

CloseConn(c) == /\ shutdown = "closeConns"
                /\ c \in toClose
                /\ toClose' = toClose \ {c}
                /\ sockClosed' = sockClosed \union {c}
                /\ UNCHANGED <<serveVars, shutdown, sawListener, handlerVars, conns, wg,
                               peerGone, store>>

AllClosed == /\ shutdown = "closeConns" /\ toClose = {}
             /\ shutdown' = "waiting"
             /\ UNCHANGED <<serveVars, toClose, sawListener, handlerVars, conns, wg,
                            sockClosed, peerGone, store>>

(* s.wg.Wait() is over and Shutdown returns nil.                           *)
ShutdownClean == /\ shutdown = "waiting" /\ wg = 0
                 /\ shutdown' = "clean"
                 /\ UNCHANGED <<serveVars, toClose, sawListener, handlerVars, conns, wg,
                                sockClosed, peerGone, store>>

(* The five seconds of main.go are over first.                             *)
ShutdownExpired == /\ shutdown = "waiting"
                   /\ shutdown' = "expired"
                   /\ UNCHANGED <<serveVars, toClose, sawListener, handlerVars, conns, wg,
                                  sockClosed, peerGone, store>>

-----------------------------------------------------------------------------
(* handleConnection.  A line is read and its one call of the store made in *)
(* a single step; blank lines are skipped and change nothing.  Lines that  *)
(* the scanner already holds are still handled after the socket is closed. *)

Leave(c, why) == /\ pc' = [pc EXCEPT ![c] = "untrack"]
                 /\ exit' = [exit EXCEPT ![c] = why]

BeginSession(c, m) ==
  /\ pc[c] = "read" /\ m # Garbage /\ Valid(m)
  /\ m.event = "hello" /\ c \notin started
  /\ c \notin Listed
  /\ sessions' = With(sessions, c, [machine |-> m.machine, reporter |-> m.machine,
                                    status |-> "connected", telemetry |-> 0])
  /\ started' = started \union {c}
  /\ UNCHANGED <<serveVars, shutVars, pc, exit, conns, wg, sockClosed, peerGone, counters>>

(* MaxTelemetry bounds the count.                                          *)
UpdateTelemetry(c, m) ==
  /\ pc[c] = "read" /\ m # Garbage /\ Valid(m)
  /\ m.event = "telemetry" /\ c \in started
  /\ c \in Listed
  /\ sessions[c].telemetry < MaxTelemetry
  /\ sessions' = [sessions EXCEPT ![c].reporter = m.machine,
                                  ![c].status = "running",
                                  ![c].telemetry = @ + 1]
  /\ UNCHANGED <<serveVars, shutVars, handlerVars, conns, wg, sockClosed, peerGone, counters>>

(* Wrong: no return after the session is completed.                        *)
CompleteAndGoOn(c, m) ==
  /\ pc[c] = "read" /\ m # Garbage /\ Valid(m)
  /\ m.event = "done" /\ c \in started
  /\ c \in Listed
  /\ sessions' = Without(sessions, c)
  /\ completed' = completed + 1
  /\ exit' = [exit EXCEPT ![c] = "done"]
  /\ UNCHANGED <<serveVars, shutVars, pc, started, conns, wg, sockClosed, peerGone,
                 accepted, errors>>

CompleteSession(c, m) ==
  /\ pc[c] = "read" /\ m # Garbage /\ Valid(m)
  /\ m.event = "done" /\ c \in started
  /\ c \in Listed
  /\ sessions' = Without(sessions, c)
  /\ completed' = completed + 1
  /\ Leave(c, "done")
  /\ UNCHANGED <<serveVars, shutVars, started, conns, wg, sockClosed, peerGone,
                 accepted, errors>>

(* Wrong: the error is recorded and the loop goes on with the next line.   *)
RejectAndGoOn(c, m) ==
  /\ pc[c] = "read"
  /\ m # Garbage /\ Valid(m) => (m.event = "hello" <=> c \in started)
  /\ errors < Cardinality(Conns) + 1
  /\ errors' = errors + 1
  /\ exit' = [exit EXCEPT ![c] = "error"]
  /\ UNCHANGED <<serveVars, shutVars, pc, started, conns, wg, sockClosed, peerGone,
                 sessions, accepted, completed>>

(* A line that is no message, an invalid message, a second hello, or       *)
(* telemetry or done before hello: recordProtocolError and return.         *)
Reject(c, m) ==
  /\ pc[c] = "read"
  /\ m # Garbage /\ Valid(m) => (m.event = "hello" <=> c \in started)
  /\ errors' = errors + 1
  /\ Leave(c, "error")
  /\ UNCHANGED <<serveVars, shutVars, started, conns, wg, sockClosed, peerGone,
                 sessions, accepted, completed>>

(* Wrong: a read goes on when the server closes the socket under it.       *)
EndWithPeer(c) == /\ pc[c] = "read" /\ c \in peerGone
                  /\ Leave(c, "eof")
                  /\ UNCHANGED <<serveVars, shutVars, started, conns, wg, sockClosed,
                                 peerGone, store>>

(* Scan is over: end of stream, reset, a closed socket or an oversize line. *)
EndOfInput(c) == /\ pc[c] = "read"
                 /\ Leave(c, "eof")
                 /\ UNCHANGED <<serveVars, shutVars, started, conns, wg, sockClosed,
                                peerGone, store>>

Untrack(c) == /\ pc[c] = "untrack"
              /\ pc' = [pc EXCEPT ![c] = "remove"]
              /\ conns' = conns \ {c}
              /\ UNCHANGED <<serveVars, shutVars, exit, started, wg, sockClosed, peerGone, store>>

(* Wrong: no RemoveConnection on the way out.                              *)
RemoveNothing(c) == /\ pc[c] = "remove"
                    /\ pc' = [pc EXCEPT ![c] = "close"]
                    /\ UNCHANGED <<serveVars, shutVars, exit, started, conns, wg, sockClosed,
                                   peerGone, store>>

RemoveConnection(c) == /\ pc[c] = "remove"
                       /\ pc' = [pc EXCEPT ![c] = "close"]
                       /\ sessions' = Without(sessions, c)
                       /\ UNCHANGED <<serveVars, shutVars, exit, started, conns, wg,
                                      sockClosed, peerGone, counters>>

Close(c) == /\ pc[c] = "close"
            /\ pc' = [pc EXCEPT ![c] = "leave"]
            /\ sockClosed' = sockClosed \union {c}
            /\ UNCHANGED <<serveVars, shutVars, exit, started, conns, wg, peerGone, store>>

Done(c) == /\ pc[c] = "leave"
           /\ pc' = [pc EXCEPT ![c] = "gone"]
           /\ wg' = wg - 1
           /\ UNCHANGED <<serveVars, shutVars, exit, started, conns, sockClosed, peerGone, store>>

(* The peer closes or resets its end, or its host disappears and the       *)
(* kernel's keep-alive notices.                                            *)
PeerLeaves(c) == /\ pc[c] = "read" /\ c \notin peerGone
                 /\ peerGone' = peerGone \union {c}
                 /\ UNCHANGED <<serveVars, shutVars, handlerVars, conns, wg, sockClosed, store>>

Resting == /\ shutdown \in {"clean", "expired"}
           /\ \A c \in Conns : pc[c] \in {"new", "gone"}

Terminating == Resting /\ UNCHANGED vars

HandlerEnd(c) == Untrack(c) \/ RemoveConnection(c) \/ Close(c) \/ Done(c)

ServeStep == Register \/ AcceptClosed \/ OpenConnection \/ TrackConnection \/ Spawn

ShutdownStep == CloseListener \/ (\E c \in Conns : CloseConn(c)) \/ AllClosed
                \/ ShutdownClean

Next == \/ ServeStep \/ Snapshot \/ ShutdownStep \/ ShutdownExpired \/ Terminating
        \/ \E c \in Conns :
             \/ Accept(c) \/ PeerLeaves(c) \/ EndOfInput(c) \/ HandlerEnd(c)
             \/ \E m \in Lines : \/ BeginSession(c, m) \/ UpdateTelemetry(c, m)
                                 \/ CompleteSession(c, m) \/ Reject(c, m)

(* Goroutines that can run do run.  The input of a connection comes to an  *)
(* end only if its peer leaves or the server closes the socket.            *)
Fairness == /\ WF_vars(ServeStep) /\ WF_vars(ShutdownStep) /\ WF_vars(ShutdownExpired)
            /\ \A c \in Conns :
                 /\ WF_vars(c \in peerGone \union sockClosed /\ EndOfInput(c))
                 /\ WF_vars(HandlerEnd(c))

Safety == Init /\ [][Next]_vars

Spec == Safety /\ Fairness
-----------------------------------------------------------------------------
(* The goroutine's sessionStarted and the store agree while it reads, and  *)
(* nothing is listed for a connection before or after: the errors of       *)
(* BeginSession, UpdateTelemetry and CompleteSession never arise.          *)
StoreNeverRefuses ==
  \A c \in Conns : /\ pc[c] = "read" => (c \in started <=> c \in Listed)
                   /\ c \in Listed => pc[c] \in {"read", "untrack", "remove"}

(* The three counters of the status API count each connection once: every  *)
(* one that was opened, the ones that ended by done, the ones that ended   *)
(* by a protocol error.                                                    *)
Opened == {c \in Conns : pc[c] # "new" /\ ~(loop = "open" /\ c \in incoming)}

CountersTellOutcomes == /\ accepted = Cardinality(Opened)
                        /\ completed = Cardinality({c \in Conns : exit[c] = "done"})
                        /\ errors = Cardinality({c \in Conns : exit[c] = "error"})

(* When Shutdown returns nil, having seen the listener, at most one        *)
(* connection is still to be handled or being handled: the one that the    *)
(* accept loop had in hand when the connections were copied.               *)
AtMostOneStraggler ==
  shutdown = "clean" /\ sawListener =>
    Cardinality({c \in Conns : pc[c] \notin {"new", "gone"}}) <= 1

(* The backend implements the lifecycle of its sessions.                   *)
Phase(c) == CASE c \in Listed /\ exit[c] = "error" -> "failed"
              [] c \in Listed /\ exit[c] # "error" -> "active"
              [] c \notin Listed /\ exit[c] = "done" -> "completed"
              [] c \notin Listed /\ exit[c] = "error" -> "rejected"
              [] c \notin Listed /\ exit[c] = "eof" -> "dropped"
              [] pc[c] = "new" -> "fresh"
              [] OTHER -> "open"

Lifecycle == INSTANCE SessionLifecycle WITH phase <- [c \in Conns |-> Phase(c)]

ImplementsLifecycle == Lifecycle!Spec

(* "If a TCP connection drops before done, the active session is removed." *)
DroppedSessionsRemoved == \A c \in Conns : c \in peerGone ~> c \notin Listed

(* Every connection that Shutdown has closed is cleaned up, whether or not *)
(* its peer ever says another word.                                        *)
ClosedConnsEnd == \A c \in Conns : c \in sockClosed ~> pc[c] = "gone"

(* One connection corresponds to one machine job session: what a session   *)
(* shows as last seen and last metrics was reported by its own machine.    *)
SessionReportsItsMachine == \A c \in Listed : sessions[c].reporter = sessions[c].machine
=============================================================================
