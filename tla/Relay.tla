-------------------------------- MODULE Relay --------------------------------
(***************************************************************************)
(* One proxied session of loadBalancer/internal/loadBalancer/balancer.go:  *)
(* the two relay goroutines, their deadlines, the channel `done` and the   *)
(* closing of the two sockets by handleClient, from the moment the relays  *)
(* start.  Module LoadBalancer abstracts all of this to "a relay returns". *)
(*                                                                         *)
(* Bytes move in chunks of one Read.  Time moves in ticks, and only when   *)
(* nothing in the balancer can run: its steps take microseconds where the  *)
(* deadlines are two minutes.  Kernel buffers hold Window chunks.          *)
(***************************************************************************)
EXTENDS Naturals, FiniteSets

CONSTANTS IdleTimeout,  \* ConnectionIdleTimeout, in ticks
          Window,       \* chunks a socket buffer holds
          Rate,         \* chunks a peer may send per tick
          TalkerSets    \* the sets of peers that may be those that ever send

Peers == {"client", "backend"}

ASSUME TimeAssumption == IdleTimeout \in Nat \ {0}
ASSUME WindowAssumption == Window \in Nat \ {0}
ASSUME RateAssumption == Rate \in Nat \ {0}
ASSUME TalkersAssumption == TalkerSets \subseteq SUBSET Peers

VARIABLES
  talkers,   \* the peers that send in this session
  relay,     \* per direction: "read", "write" (one chunk in hand) or "returned"
  wait,      \* ticks since its current deadline was set
  cause,     \* why it returned
  inbox,     \* chunks received on the source socket and not yet read
  outbox,    \* chunks written to the destination and not yet consumed there
  owed,      \* chunks sent by the source peer and not received at the other end
  silence,   \* ticks since the source peer last sent, as far as it matters
  quota,     \* chunks each peer may still send in this tick
  closed,    \* peers that have closed their end
  sockOpen,  \* the balancer's own sockets that are open, named by the peer
  done,      \* tokens in the channel `done`
  handler    \* the step of handleClient

traffic == <<inbox, outbox, owed, silence, quota, closed>>
vars == <<talkers, relay, wait, cause, traffic, sockOpen, done, handler>>

Directions == {"up", "down"}
Source(d) == IF d = "up" THEN "client" ELSE "backend"
Dest(d) == IF d = "up" THEN "backend" ELSE "client"
From(p) == IF p = "client" THEN "up" ELSE "down"
Toward(p) == IF p = "client" THEN "down" ELSE "up"

InHand(d) == IF relay[d] = "write" THEN 1 ELSE 0

Init == /\ talkers \in TalkerSets
        /\ relay = [d \in Directions |-> "read"]
        /\ wait = [d \in Directions |-> 0]
        /\ cause = [d \in Directions |-> "none"]
        /\ inbox = [d \in Directions |-> 0]
        /\ outbox = [d \in Directions |-> 0]
        /\ owed = [d \in Directions |-> 0]
        /\ silence = [d \in Directions |-> 0]
        /\ quota = [p \in Peers |-> Rate]
        /\ closed = {}
        /\ sockOpen = Peers
        /\ done = 0
        /\ handler = "waiting"

-----------------------------------------------------------------------------
(* The peers.  A socket closed over unread data resets the connection, and *)
(* what was still on its way from that side may then be lost.              *)

Survivors(n, unread) == IF unread > 0 THEN {0, n} ELSE {n}

PeerSend(p) ==
  LET d == From(p)
  IN  /\ p \in talkers \ closed
      /\ p \in sockOpen
      /\ quota[p] > 0 /\ inbox[d] < Window
      /\ quota' = [quota EXCEPT ![p] = @ - 1]
      /\ inbox' = [inbox EXCEPT ![d] = @ + 1]
      /\ owed' = [owed EXCEPT ![d] = @ + 1]
      /\ silence' = [silence EXCEPT ![d] = IF relay[d] = "returned" THEN @ ELSE 0]
      /\ UNCHANGED <<talkers, relay, wait, cause, outbox, closed, sockOpen,
                     done, handler>>

PeerReceive(p) ==
  LET d == Toward(p)
  IN  /\ p \notin closed /\ outbox[d] > 0
      /\ outbox' = [outbox EXCEPT ![d] = @ - 1]
      /\ owed' = [owed EXCEPT ![d] = @ - 1]
      /\ UNCHANGED <<talkers, relay, wait, cause, inbox, silence, quota, closed,
                     sockOpen, done, handler>>

PeerClose(p) ==
  /\ p \notin closed
  /\ closed' = closed \union {p}
  /\ \E n \in Survivors(inbox[From(p)], outbox[Toward(p)]) :
       inbox' = [inbox EXCEPT ![From(p)] = n]
  /\ UNCHANGED <<talkers, relay, wait, cause, outbox, owed, silence, quota,
                 sockOpen, done, handler>>

-----------------------------------------------------------------------------
(* relay(src, dst), once per direction.                                    *)

(* Wrong: what is read in one direction renews the deadline of both.       *)
ReadRenewingBoth(d) ==
  /\ relay[d] = "read" /\ Source(d) \in sockOpen
  /\ inbox[d] > 0
  /\ inbox' = [inbox EXCEPT ![d] = @ - 1]
  /\ relay' = [relay EXCEPT ![d] = "write"]
  /\ wait' = [e \in Directions |-> 0]
  /\ UNCHANGED <<talkers, cause, outbox, owed, silence, quota, closed, sockOpen,
                 done, handler>>

(* Read returns data and the write deadline of the destination is set.     *)
Read(d) ==
  /\ relay[d] = "read" /\ Source(d) \in sockOpen
  /\ inbox[d] > 0
  /\ inbox' = [inbox EXCEPT ![d] = @ - 1]
  /\ relay' = [relay EXCEPT ![d] = "write"]
  /\ wait' = [wait EXCEPT ![d] = 0]
  /\ UNCHANGED <<talkers, cause, outbox, owed, silence, quota, closed, sockOpen,
                 done, handler>>

(* Write succeeds, even toward a peer that has closed; the loop goes round *)
(* and sets the next read deadline.                                        *)
Write(d) ==
  /\ relay[d] = "write" /\ Dest(d) \in sockOpen
  /\ outbox[d] < Window
  /\ outbox' = [outbox EXCEPT ![d] = @ + 1]
  /\ relay' = [relay EXCEPT ![d] = "read"]
  /\ wait' = [wait EXCEPT ![d] = 0]
  /\ UNCHANGED <<talkers, cause, inbox, owed, silence, quota, closed, sockOpen,
                 done, handler>>

(* relay returns and its goroutine sends on `done`, whose capacity is two. *)
Return(d, why) ==
  /\ done < 2
  /\ relay' = [relay EXCEPT ![d] = "returned"]
  /\ cause' = [cause EXCEPT ![d] = why]
  /\ done' = done + 1
  /\ UNCHANGED <<talkers, wait, traffic, sockOpen, handler>>

(* Wrong: the end of stream overtakes the data before it.                  *)
EarlyEof(d) == /\ relay[d] = "read" /\ Source(d) \in sockOpen
               /\ Source(d) \in closed
               /\ Return(d, "eof")

ReadEof(d) == /\ relay[d] = "read" /\ Source(d) \in sockOpen
              /\ Source(d) \in closed /\ inbox[d] = 0
              /\ Return(d, "eof")

(* Wrong: the deadline of the dial, which is shorter, is used.             *)
ReadTimeoutSoon(d) == /\ relay[d] = "read" /\ Source(d) \in sockOpen
                      /\ Source(d) \notin closed
                      /\ inbox[d] = 0 /\ wait[d] = 1
                      /\ Return(d, "idle")

ReadTimeout(d) == /\ relay[d] = "read" /\ Source(d) \in sockOpen
                  /\ Source(d) \notin closed
                  /\ inbox[d] = 0 /\ wait[d] = IdleTimeout
                  /\ Return(d, "idle")

WriteTimeout(d) == /\ relay[d] = "write" /\ Dest(d) \in sockOpen
                   /\ outbox[d] = Window /\ wait[d] = IdleTimeout
                   /\ Return(d, "stalled")

(* A write toward a peer that has closed its end may be refused.           *)
WriteRefused(d) == /\ relay[d] = "write" /\ Dest(d) \in sockOpen
                   /\ Dest(d) \in closed
                   /\ Return(d, "refused")

(* The handler has closed the socket under the relay.                      *)
SocketGone(d) == /\ \/ relay[d] = "read" /\ Source(d) \notin sockOpen
                    \/ relay[d] = "write" /\ Dest(d) \notin sockOpen
                 /\ Return(d, "gone")

RelayStep(d) == \/ Read(d) \/ Write(d)
                \/ ReadEof(d) \/ ReadTimeout(d)
                \/ WriteTimeout(d) \/ WriteRefused(d) \/ SocketGone(d)

-----------------------------------------------------------------------------
(* The end of handleClient.                                                *)

FirstDone == /\ handler = "waiting" /\ done > 0
             /\ done' = done - 1
             /\ handler' = "closeBackend"
             /\ UNCHANGED <<talkers, relay, wait, cause, traffic, sockOpen>>

(* Wrong: the socket is left to the garbage collector.                     *)
ForgetSocket(p, from, to) ==
  /\ handler = from
  /\ handler' = to
  /\ sockOpen' = sockOpen
  /\ outbox' = outbox
  /\ UNCHANGED <<talkers, relay, wait, cause, inbox, owed, silence, quota,
                 closed, done>>

CloseSocket(p, from, to) ==
  /\ handler = from
  /\ handler' = to
  /\ sockOpen' = sockOpen \ {p}
  /\ \E n \in Survivors(outbox[Toward(p)], inbox[From(p)]) :
       outbox' = [outbox EXCEPT ![Toward(p)] = n]
  /\ UNCHANGED <<talkers, relay, wait, cause, inbox, owed, silence, quota,
                 closed, done>>

CloseBackend == CloseSocket("backend", "closeBackend", "closeClient")
CloseClient == CloseSocket("client", "closeClient", "ended")

-----------------------------------------------------------------------------
(* Time.                                                                   *)

(* The relay is inside a Read or a Write that cannot finish yet.           *)
Blocked(d) == /\ wait[d] < IdleTimeout
              /\ \/ relay[d] = "read" /\ inbox[d] = 0 /\ Source(d) \notin closed
                 \/ relay[d] = "write" /\ outbox[d] = Window /\ Dest(d) \notin closed

Tick == /\ handler = "waiting"
        /\ \A d \in Directions : Blocked(d)
        /\ wait' = [d \in Directions |-> wait[d] + 1]
        /\ silence' = [d \in Directions |-> IF silence[d] > IdleTimeout THEN silence[d]
                                            ELSE silence[d] + 1]
        /\ quota' = [p \in Peers |-> Rate]
        /\ UNCHANGED <<talkers, relay, cause, inbox, outbox, owed, closed,
                       sockOpen, done, handler>>

Ended == handler = "ended" /\ \A d \in Directions : relay[d] = "returned"

Terminating == Ended /\ UNCHANGED vars

Next == \/ Tick \/ FirstDone \/ CloseBackend \/ CloseClient \/ Terminating
        \/ \E d \in Directions : RelayStep(d)
        \/ \E p \in Peers : PeerSend(p) \/ PeerReceive(p) \/ PeerClose(p)

(* Goroutines that can run do run and the clock advances.  Nothing is      *)
(* assumed of the peers.                                                   *)
Fairness == /\ WF_vars(Tick)
            /\ WF_vars(FirstDone) /\ WF_vars(CloseBackend) /\ WF_vars(CloseClient)
            /\ \A d \in Directions : WF_vars(RelayStep(d))

Spec == Init /\ [][Next]_vars /\ Fairness
-----------------------------------------------------------------------------
(* What a client wrote before it closed reaches the backend: when the up   *)
(* relay has read the end of the stream, every chunk is delivered or in    *)
(* the backend's buffer, whatever the handler has closed since.  It needs  *)
(* a backend that does not talk: a talking one can have its connection     *)
(* reset over unread data.                                                 *)
CleanCloseLosesNothing ==
  cause["up"] = "eof" /\ "backend" \notin closed \union talkers
    => owed["up"] = outbox["up"]

(* A session whose backend never writes, which is every session of this    *)
(* system, lasts at most one idle timeout however busy the client is.      *)
SilentBackendCapsSession ==
  handler = "waiting" /\ "backend" \notin talkers => silence["down"] <= IdleTimeout

(* A relay gives up as idle only after a whole timeout without a chunk     *)
(* from its source: each chunk renews the deadline.                        *)
IdleMeansSilent == \A d \in Directions : cause[d] = "idle" => silence[d] >= IdleTimeout

(* The session of a client that never stops talking to a silent backend    *)
(* ends all the same.  LoadBalancer assumes it of every session.           *)
SessionEnds == "backend" \notin talkers => <>(handler = "ended")

(* Once the handler has ended both relays return: closing the two sockets  *)
(* wakes whatever Read or Write the relays are in.                         *)
RelaysFollow == handler = "ended" ~> Ended

(* A session that is in use is kept until one side closes it: if neither   *)
(* ever does, and one of the two peers is never silent for a whole         *)
(* timeout, the balancer does not end it.                                  *)
ActiveSessionKept ==
  [](closed = {}) /\ (\E d \in Directions : [](silence[d] < IdleTimeout))
    => [](handler = "waiting")
=============================================================================
