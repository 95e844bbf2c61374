---------------------------- MODULE LoadBalancer ----------------------------
(***************************************************************************)
(* loadBalancer/internal/loadBalancer/balancer.go: the accept loop of      *)
(* Serve, one handleClient goroutine per client with its two relay         *)
(* goroutines, the counters and the cursor selectBackend and               *)
(* releaseBackend share, and graceful shutdown.                            *)
(*                                                                         *)
(* A member of Clients is a handler slot: one accepted connection at a     *)
(* time, and another one once every goroutine of the first has ended.  The *)
(* bytes of a session are left to module Relay; here a relay goroutine     *)
(* runs until it returns.                                                  *)
(***************************************************************************)
EXTENDS Integers, Sequences, FiniteSets, Functions

CONSTANTS Clients,      \* handler slots
          Addr,         \* backend addresses "host:port"
          Configs,      \* the backend lists a configuration file may hold
          CursorSpace,  \* number of values of the round-robin cursor (2^64)
          NoBackend     \* the value of backendAddr before it is chosen

ASSUME ClientsAssumption == IsFiniteSet(Clients)
ASSUME ConfigsAssumption == Configs \subseteq Seq(Addr)
ASSUME CursorAssumption == CursorSpace \in Nat \ {0}
ASSUME NoBackendAssumption == NoBackend \notin Addr

VARIABLES
  backends,           \* lb.backends: the configured list, duplicates kept
  activeConnections,  \* lb.activeConnections, by address
  rrCursor,           \* lb.rrCursor
  wg,                 \* the counter of lb.wg
  serve,              \* where the accept loop is
  listening,          \* the listener is open
  ctxDone,            \* the signal context is done
  pc,                 \* the next step of each handleClient goroutine
  target,             \* its backendAddr
  clientOpen,         \* handlers whose client socket is open
  backendOpen,        \* handlers whose backend socket is open
  relays              \* the directions whose relay goroutine still runs

shared == <<backends, activeConnections, rrCursor>>
server == <<wg, serve, listening, ctxDone>>
sockets == <<clientOpen, backendOpen>>
vars == <<shared, server, pc, target, sockets, relays>>

Directions == {"up", "down"}  \* client to backend, backend to client

(* The steps of handleClient.  The last four are its deferred calls, in    *)
(* the order in which they run.                                            *)
Steps == {"idle", "select", "dial", "assign", "proxy",
          "closeBackend", "release", "closeClient", "leave"}

(* The steps between selectBackend and releaseBackend.                     *)
Holding == {"dial", "assign", "proxy", "closeBackend", "release"}

Pool == Range(backends)
Holders(a) == {c \in Clients : pc[c] \in Holding /\ target[c] = a}
Running == {c \in Clients : pc[c] # "idle"}

Init == /\ backends \in Configs
        /\ activeConnections = [a \in Addr |-> 0]
        /\ rrCursor = 0
        /\ wg = 0
        /\ serve = "accepting"
        /\ listening = TRUE
        /\ ctxDone = FALSE
        /\ pc = [c \in Clients |-> "idle"]
        /\ target = [c \in Clients |-> NoBackend]
        /\ clientOpen = {}
        /\ backendOpen = {}
        /\ relays = [c \in Clients |-> {}]

Goto(c, from, to) == pc[c] = from /\ pc' = [pc EXCEPT ![c] = to]

-----------------------------------------------------------------------------
(* Serve and its two helpers: the signal context and the goroutine that    *)
(* closes the listener.                                                    *)

Signal == /\ ~ctxDone
          /\ ctxDone' = TRUE
          /\ UNCHANGED <<shared, wg, serve, listening, pc, target, sockets, relays>>

CloseListener == /\ ctxDone /\ listening
                 /\ listening' = FALSE
                 /\ UNCHANGED <<shared, wg, serve, ctxDone, pc, target, sockets, relays>>

(* Wrong: wg.Add(1) forgotten.                                             *)
AcceptUncounted(c) ==
  /\ serve = "accepting" /\ listening
  /\ relays[c] = {}
  /\ Goto(c, "idle", "select")
  /\ clientOpen' = clientOpen \union {c}
  /\ UNCHANGED <<shared, server, target, backendOpen, relays>>

(* Accept returns a connection: wg.Add(1), then the handler is started.    *)
(* Nothing looks at ctx here, so a connection may still be accepted        *)
(* between the signal and the closing of the listener.                     *)
Accept(c) == /\ serve = "accepting" /\ listening
             /\ relays[c] = {}
             /\ Goto(c, "idle", "select")
             /\ wg' = wg + 1
             /\ clientOpen' = clientOpen \union {c}
             /\ UNCHANGED <<shared, serve, listening, ctxDone, target, backendOpen, relays>>

(* Accept fails once the context is done; before that the loop goes round. *)
AcceptError == /\ serve = "accepting" /\ ctxDone
               /\ serve' = "waiting"
               /\ UNCHANGED <<shared, wg, listening, ctxDone, pc, target, sockets, relays>>

(* Wrong: Serve returns without lb.wg.Wait().                              *)
ReturnAtOnce == /\ serve = "waiting"
                /\ serve' = "returned"
                /\ listening' = FALSE
                /\ UNCHANGED <<shared, wg, ctxDone, pc, target, sockets, relays>>

(* lb.wg.Wait() is over: Serve returns and its deferred Close runs.        *)
WaitDone == /\ serve = "waiting" /\ wg = 0
            /\ serve' = "returned"
            /\ listening' = FALSE
            /\ UNCHANGED <<shared, wg, ctxDone, pc, target, sockets, relays>>

-----------------------------------------------------------------------------
(* handleClient up to the relays.                                          *)

(* The positions of the list whose counter is minimal: `candidates`, in    *)
(* the order of the list.  Rank is a position's index in candidates.       *)
Tied == {i \in DOMAIN backends :
           \A j \in DOMAIN backends :
             activeConnections[backends[i]] <= activeConnections[backends[j]]}

Rank(i) == Cardinality({j \in Tied : j < i})

Chosen == {i \in Tied : Rank(i) = rrCursor % Cardinality(Tied)}

(* Wrong: the counters are compared in one critical section and the chosen *)
(* one is incremented later, when the backend has been dialled.            *)
SelectUncounted(c) ==
  /\ Goto(c, "select", "dial")
  /\ \E i \in Chosen : target' = [target EXCEPT ![c] = backends[i]]
  /\ rrCursor' = (rrCursor + 1) % CursorSpace
  /\ UNCHANGED <<backends, activeConnections, server, sockets, relays>>

(* Wrong: the cursor runs over the whole list, whatever the counters.      *)
SelectInTurn(c) ==
  /\ Goto(c, "select", "dial")
  /\ \E i \in DOMAIN backends :
       /\ i = 1 + (rrCursor % Len(backends))
       /\ target' = [target EXCEPT ![c] = backends[i]]
       /\ activeConnections' = [activeConnections EXCEPT ![backends[i]] = @ + 1]
  /\ rrCursor' = (rrCursor + 1) % CursorSpace
  /\ UNCHANGED <<backends, server, sockets, relays>>

(* selectBackend, one critical section: choose among the tied candidates   *)
(* with the cursor, advance it, count the session.                         *)
Select(c) ==
  /\ Goto(c, "select", "dial")
  /\ \E i \in Chosen :
       /\ target' = [target EXCEPT ![c] = backends[i]]
       /\ activeConnections' = [activeConnections EXCEPT ![backends[i]] = @ + 1]
  /\ rrCursor' = (rrCursor + 1) % CursorSpace
  /\ UNCHANGED <<backends, server, sockets, relays>>

(* The list is empty: the handler returns with two deferred calls left.    *)
SelectNone(c) == /\ backends = <<>>
                 /\ Goto(c, "select", "closeClient")
                 /\ UNCHANGED <<shared, server, target, sockets, relays>>

Dial(c) == /\ Goto(c, "dial", "assign")
           /\ backendOpen' = backendOpen \union {c}
           /\ UNCHANGED <<shared, server, target, clientOpen, relays>>

(* Wrong: the deferred release is registered after the dial, not before.   *)
DialFailUnreleased(c) == /\ Goto(c, "dial", "closeClient")
                         /\ UNCHANGED <<shared, server, target, sockets, relays>>

(* The dial fails or times out; there is no backend socket to close.       *)
DialFail(c) == /\ Goto(c, "dial", "release")
               /\ UNCHANGED <<shared, server, target, sockets, relays>>

(* The assignment line is written and both relays are started.             *)
SendAssignment(c) == /\ Goto(c, "assign", "proxy")
                     /\ relays' = [relays EXCEPT ![c] = Directions]
                     /\ UNCHANGED <<shared, server, target, sockets>>

(* Wrong: the early return closes nothing but the client.                  *)
SendFailsLeaky(c) == /\ Goto(c, "assign", "release")
                     /\ UNCHANGED <<shared, server, target, sockets, relays>>

SendFails(c) == /\ Goto(c, "assign", "closeBackend")
                /\ UNCHANGED <<shared, server, target, sockets, relays>>

-----------------------------------------------------------------------------
(* The relays and the deferred calls.                                      *)

(* relay returns: an end of stream, an error, a closed socket or a         *)
(* deadline.  Its send on `done` never blocks, the channel holds two.      *)
RelayReturn(c, d) == /\ d \in relays[c]
                     /\ relays' = [relays EXCEPT ![c] = @ \ {d}]
                     /\ UNCHANGED <<shared, server, pc, target, sockets>>

(* Wrong: the handler waits for both relays.                               *)
BothDone(c) == /\ relays[c] = {}
               /\ Goto(c, "proxy", "closeBackend")
               /\ UNCHANGED <<shared, server, target, sockets, relays>>

(* `<-done`: one of the two relays has returned.                           *)
FirstDone(c) == /\ relays[c] # Directions
                /\ Goto(c, "proxy", "closeBackend")
                /\ UNCHANGED <<shared, server, target, sockets, relays>>

CloseBackend(c) == /\ Goto(c, "closeBackend", "release")
                   /\ backendOpen' = backendOpen \ {c}
                   /\ UNCHANGED <<shared, server, target, clientOpen, relays>>

(* Wrong: the counter is left as it is.                                    *)
ReleaseNothing(c) == /\ Goto(c, "release", "closeClient")
                     /\ UNCHANGED <<shared, server, target, sockets, relays>>

(* releaseBackend, one critical section.                                   *)
Release(c) ==
  /\ Goto(c, "release", "closeClient")
  /\ activeConnections' = [activeConnections EXCEPT ![target[c]] = IF @ > 0 THEN @ - 1 ELSE @]
  /\ UNCHANGED <<backends, rrCursor, server, target, sockets, relays>>

CloseClient(c) == /\ Goto(c, "closeClient", "leave")
                  /\ clientOpen' = clientOpen \ {c}
                  /\ UNCHANGED <<shared, server, target, backendOpen, relays>>

(* The deferred wg.Done(); the goroutine ends.                             *)
HandlerDone(c) == /\ Goto(c, "leave", "idle")
                  /\ wg' = wg - 1
                  /\ target' = [target EXCEPT ![c] = NoBackend]
                  /\ UNCHANGED <<shared, serve, listening, ctxDone, sockets, relays>>

(* Serve has returned and main with it: the process is gone.               *)
Terminating == serve = "returned" /\ UNCHANGED vars

Handler(c) == \/ Select(c) \/ SelectNone(c)
              \/ Dial(c) \/ DialFail(c)
              \/ SendAssignment(c) \/ SendFails(c)
              \/ FirstDone(c)
              \/ CloseBackend(c) \/ Release(c) \/ CloseClient(c) \/ HandlerDone(c)

Next == \/ Signal \/ CloseListener \/ AcceptError \/ WaitDone \/ Terminating
        \/ \E c \in Clients : \/ Accept(c)
                              \/ Handler(c)
                              \/ \E d \in Directions : RelayReturn(c, d)

(* Goroutines that can run do run, DialTimeout bounds the dial and a line  *)
(* of a few bytes is written or refused, so the handler is fair.  The down *)
(* relay reads from a backend that never writes, so its read deadline ends *)
(* it (module Relay); the up relay is sure to return only once its client  *)
(* socket is closed.  No client is bound to come and no signal is.         *)
Fairness == /\ WF_vars(CloseListener)
            /\ WF_vars(~listening /\ AcceptError)
            /\ WF_vars(WaitDone)
            /\ \A c \in Clients :
                 /\ WF_vars(Handler(c))
                 /\ WF_vars(RelayReturn(c, "down"))
                 /\ WF_vars(c \notin clientOpen /\ RelayReturn(c, "up"))

Safety == Init /\ [][Next]_vars

Spec == Safety /\ Fairness
-----------------------------------------------------------------------------
(* The state of every variable has its type.                               *)
TypeOK == /\ backends \in Seq(Addr)
          /\ activeConnections \in [Addr -> Nat]
          /\ rrCursor \in 0 .. CursorSpace - 1
          /\ wg \in Nat
          /\ serve \in {"accepting", "waiting", "returned"}
          /\ listening \in BOOLEAN
          /\ ctxDone \in BOOLEAN
          /\ pc \in [Clients -> Steps]
          /\ target \in [Clients -> Addr \union {NoBackend}]
          /\ clientOpen \in SUBSET Clients
          /\ backendOpen \in SUBSET Clients
          /\ relays \in [Clients -> SUBSET Directions]

(* Every counter is exactly the number of handlers between their           *)
(* selectBackend and their releaseBackend: no early return, dial failure   *)
(* or failed write leaves a session counted or releases it twice, and the  *)
(* test for zero in releaseBackend never saves the day.                    *)
CountsMatchHolders ==
  \A a \in Addr : activeConnections[a] = Cardinality(Holders(a))

(* A backend never has more open connections than the balancer counts for  *)
(* it: the deferred close of the socket comes before the release.          *)
OpenSessionsCounted ==
  \A a \in Addr :
    Cardinality({c \in backendOpen : target[c] = a}) <= activeConnections[a]

(* When a handler has ended on any path, both its sockets are closed.      *)
NoSocketLeak == \A c \in Clients : pc[c] = "idle" => c \notin clientOpen \union backendOpen

(* "Graceful shutdown": when Serve returns no session is cut.  Every       *)
(* handler has ended, every socket is closed and no session is counted,    *)
(* the ones accepted after the signal included.                            *)
DrainedOnReturn ==
  serve = "returned" => /\ Running = {}
                        /\ clientOpen = {} /\ backendOpen = {}
                        /\ \A a \in Addr : activeConnections[a] = 0

(* A step makes the difference of two backends larger than one session     *)
(* only by ending a session of the lighter one; choosing never does.       *)
SelectNeverWidens ==
  [][\A a, b \in Pool :
       LET gap == activeConnections[a] - activeConnections[b]
       IN  (activeConnections'[a] - activeConnections'[b] > gap
              /\ activeConnections'[a] - activeConnections'[b] > 1)
           => activeConnections'[b] < activeConnections[b]]_vars

(* The balancer implements LeastConnections: what it chooses is least      *)
(* loaded in terms of sessions really held, and each session is released.  *)
LC == INSTANCE LeastConnections
        WITH pool <- Pool,
             assigned <- [c \in Clients |-> IF pc[c] \in Holding THEN target[c]
                                            ELSE NoBackend]

ImplementsLeastConnections == LC!Spec

(* After the signal Serve returns: the drain never hangs on a session.     *)
ShutdownCompletes == ctxDone ~> serve = "returned"
=============================================================================
