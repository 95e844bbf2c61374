------------------------------- MODULE System -------------------------------
(***************************************************************************)
(* Machines, load balancer and backends together.  Each part is taken as   *)
(* the specification it implements: MachineTask (module Machine),          *)
(* LeastConnections (LoadBalancer) and SessionLifecycle (Backend).  What   *)
(* is added here are the lines between them: the bytes a machine has       *)
(* written and the balancer not yet relayed, and those relayed and not yet *)
(* read by the backend.  A line that is cut off in the middle arrives as a *)
(* fragment, which bufio.Scanner hands over like a line.                   *)
(***************************************************************************)
EXTENDS Sequences, Naturals

CONSTANTS Machines, MaxInFlight,
          Backends, NoBackend,
          Buffer  \* bound on the lines on their way in either half

ASSUME NoBackendAssumption == NoBackend \notin Backends

VARIABLES
  task,            \* the machines
  pool, assigned,  \* the balancer
  session,         \* the backends' sessions, one per connection
  link,            \* each connection at the balancer
  up, mid,         \* the lines before and behind the balancer
  trouble          \* machines whose connection something else has ended

vars == <<task, pool, assigned, session, link, up, mid, trouble>>

M == INSTANCE MachineTask
LB == INSTANCE LeastConnections WITH Clients <- Machines, Addr <- Backends
B == INSTANCE SessionLifecycle WITH Conns <- Machines, phase <- session

Init == /\ M!Init /\ LB!Init /\ B!Init
        /\ link = [m \in Machines |-> "none"]
        /\ up = [m \in Machines |-> <<>>] /\ mid = [m \in Machines |-> <<>>]
        /\ trouble = {}

balancer == <<pool, assigned>>
Link(m, from, to) == link[m] \in from /\ link' = [link EXCEPT ![m] = to]
Over(m) == session[m] \in {"completed", "rejected", "dropped"}

-----------------------------------------------------------------------------
(* A machine.                                                              *)

Connect(m) == /\ M!Open(m)
              /\ Link(m, {"none"}, "accepted")
              /\ UNCHANGED <<balancer, session, up, mid, trouble>>

(* What is written to a connection that the balancer has closed is lost.   *)
Write(m, line) == /\ Len(up[m]) < Buffer
                  /\ up' = IF link[m] \in {"closed", "refused"} THEN up
                           ELSE [up EXCEPT ![m] = Append(@, line)]
                  /\ UNCHANGED <<balancer, session, link, mid, trouble>>

Hello(m) == M!Talk(m) /\ Write(m, "hello")
Telemetry(m) == task[m] = "talking" /\ Write(m, "telemetry") /\ UNCHANGED task
Done(m) == M!Finish(m) /\ Write(m, "done")

(* writer.close(): what was written is still sent.                         *)
CloseConnection(m) == /\ M!Close(m)
                      /\ UNCHANGED <<balancer, session, link, up, mid, trouble>>

(* What is left of a stream of lines that ends too early.                  *)
CutOff(lines) == {SubSeq(lines, 1, n) : n \in 0 .. Len(lines)}
                   \union {Append(SubSeq(lines, 1, n), "fragment") : n \in 0 .. Len(lines) - 1}

(* The process ends while lines wait in the buffer of its transport.       *)
Vanish(m) == /\ M!Close(m)
             /\ \E rest \in CutOff(up[m]) : up' = [up EXCEPT ![m] = rest]
             /\ trouble' = trouble \union {m}
             /\ UNCHANGED <<balancer, session, link, mid>>

-----------------------------------------------------------------------------
(* The balancer.                                                           *)

Assign(m) == /\ Link(m, {"accepted"}, "dialing")
             /\ LB!Assign(m)
             /\ UNCHANGED <<task, session, up, mid, trouble>>

NoneToAssign(m) == /\ pool = {}
                   /\ Link(m, {"accepted"}, "refused")
                   /\ trouble' = trouble \union {m}
                   /\ UNCHANGED <<task, balancer, session, up, mid>>

Dial(m) == /\ Link(m, {"dialing"}, "piped")
           /\ UNCHANGED <<task, balancer, session, up, mid, trouble>>

DialFails(m) == /\ Link(m, {"dialing"}, "refused")
                /\ trouble' = trouble \union {m}
                /\ UNCHANGED <<task, balancer, session, up, mid>>

(* The client was reset in the meantime: the assignment cannot be sent and *)
(* the connection just dialled is closed.                                  *)
SendFails(m) == /\ task[m] = "closed"
                /\ Link(m, {"dialing"}, "closed")
                /\ up' = [up EXCEPT ![m] = <<>>]
                /\ trouble' = trouble \union {m}
                /\ UNCHANGED <<task, balancer, session, mid>>

(* n is what of the first line gets through.                               *)
Relayed(m, n) == /\ link[m] = "piped" /\ up[m] # <<>>
                 /\ Len(mid[m]) < Buffer
                 /\ up' = [up EXCEPT ![m] = Tail(@)]
                 /\ mid' = [mid EXCEPT ![m] = @ \o SubSeq(up[m], 1, n)]
                 /\ UNCHANGED <<task, balancer, session, link, trouble>>

(* Wrong: a short write is taken for a complete one.                       *)
RelayShort(m) == \E n \in {0, 1} : Relayed(m, n)

Relay(m) == Relayed(m, 1)

HangUp(m) == Link(m, {"piped"}, "closed") /\ UNCHANGED <<task, balancer, session>>

(* Wrong: the connection to the backend stays open until it ends itself.   *)
ClientOverIgnored(m) == FALSE /\ UNCHANGED vars

(* Wrong: what is still to be relayed when the client closes is dropped.   *)
ClientOverAtOnce(m) == /\ HangUp(m)
                       /\ task[m] = "closed"
                       /\ up' = [up EXCEPT ![m] = <<>>]
                       /\ UNCHANGED <<mid, trouble>>

(* The up relay reads the end of the client's stream.                      *)
ClientOver(m) == /\ HangUp(m)
                 /\ task[m] = "closed" /\ up[m] = <<>>
                 /\ UNCHANGED <<up, mid, trouble>>

(* The down relay reads the end of the backend's.                          *)
BackendOver(m) == /\ HangUp(m)
                  /\ Over(m)
                  /\ up' = [up EXCEPT ![m] = <<>>]
                  /\ UNCHANGED <<mid, trouble>>

(* The idle deadline of a relay ends the session, perhaps within a line.   *)
IdleCut(m) == /\ HangUp(m)
              /\ up' = [up EXCEPT ![m] = <<>>]
              /\ \E part \in {<<>>} \union {<<"fragment">> : i \in DOMAIN up[m]} :
                   mid' = [mid EXCEPT ![m] = @ \o part]
              /\ trouble' = trouble \union {m}

(* The handler is over; its connection to the backend is already closed.   *)
Release(m) == /\ link[m] \in {"closed", "refused"}
              /\ LB!Release(m)
              /\ UNCHANGED <<task, session, link, up, mid, trouble>>

-----------------------------------------------------------------------------
(* A backend.                                                              *)

backendOnly == <<task, balancer, link, up>>

AcceptSession(m) == /\ link[m] \in {"piped", "closed"}
                    /\ B!Open(m)
                    /\ UNCHANGED <<backendOnly, mid, trouble>>

Expected == [open |-> {"hello"}, active |-> {"telemetry", "done"}]

(* A fragment is a line only when the stream is at its end.                *)
Read(m, line) ==
  /\ session[m] \in DOMAIN Expected
  /\ mid[m] # <<>> /\ line = Head(mid[m])
  /\ line = "fragment" => link[m] = "closed"
  /\ mid' = [mid EXCEPT ![m] = Tail(@)]
  /\ \/ line = "hello" /\ B!Begin(m)
     \/ line = "telemetry" /\ session[m] = "active" /\ UNCHANGED session
     \/ line = "done" /\ B!Complete(m)
     \/ line \notin Expected[session[m]] /\ B!Reject(m)
  /\ UNCHANGED <<backendOnly, trouble>>

EndSession(m) == B!Clear(m) /\ UNCHANGED <<backendOnly, mid, trouble>>

EndOfInput(m) == /\ link[m] = "closed" /\ mid[m] = <<>>
                 /\ B!Drop(m)
                 /\ UNCHANGED <<backendOnly, mid, trouble>>

(* The backend shuts down, or its host is lost.                            *)
BackendStops(m) == /\ B!Drop(m)
                   /\ mid' = [mid EXCEPT ![m] = <<>>]
                   /\ trouble' = trouble \union {m}
                   /\ UNCHANGED backendOnly

(* A listener that is closed resets what it has not accepted.              *)
BacklogReset(m) == /\ session[m] = "fresh"
                   /\ Link(m, {"piped", "closed"}, "refused")
                   /\ up' = [up EXCEPT ![m] = <<>>]
                   /\ mid' = [mid EXCEPT ![m] = <<>>]
                   /\ trouble' = trouble \union {m}
                   /\ UNCHANGED <<task, balancer, session>>

-----------------------------------------------------------------------------
Machine(m) == \/ Connect(m) \/ Hello(m) \/ Telemetry(m) \/ Done(m)
              \/ CloseConnection(m) \/ Vanish(m)

BalancerGoesOn(m) == \/ Assign(m) \/ NoneToAssign(m) \/ Dial(m) \/ DialFails(m)
                     \/ SendFails(m) \/ Relay(m) \/ ClientOver(m) \/ BackendOver(m)
                     \/ Release(m)

Line == {"hello", "telemetry", "done", "fragment"}

BackendGoesOn(m) == \/ AcceptSession(m) \/ (\E line \in Line : Read(m, line))
                    \/ EndSession(m) \/ EndOfInput(m)

Freed(m) == /\ assigned[m] = NoBackend
            /\ link[m] \in {"none", "refused", "closed"}
            /\ session[m] \notin {"open", "active", "failed"}
            /\ link[m] = "closed" => session[m] # "fresh"

Terminating == (\A m \in Machines : task[m] = "closed" /\ Freed(m)) /\ UNCHANGED vars

Next == \/ \E m \in Machines : \/ Machine(m)
                               \/ BalancerGoesOn(m) \/ IdleCut(m)
                               \/ BackendGoesOn(m) \/ BackendStops(m) \/ BacklogReset(m)
        \/ Terminating

(* The goroutines of the balancer and of the backends go on.  No machine   *)
(* has to do anything.                                                     *)
Spec == /\ Init /\ [][Next]_vars
        /\ \A m \in Machines : WF_vars(BalancerGoesOn(m)) /\ WF_vars(BackendGoesOn(m))
-----------------------------------------------------------------------------
(* "Close the connection and free backend capacity": a machine that has    *)
(* gone, at whatever moment and in whatever way, is in the end counted by  *)
(* no balancer and listed by no backend.                                   *)
CapacityFreed == \A m \in Machines : task[m] = "closed" ~> Freed(m)

(* A backend takes an honest machine's session for a protocol error only   *)
(* if the machine vanished or the balancer cut its stream: not because of  *)
(* what is relayed, or of the order in which connections end.              *)
OnlyCutSessionsRejected ==
  \A m \in Machines : session[m] \in {"failed", "rejected"} => m \in trouble

(* A job whose machine has written done is completed at its backend unless *)
(* something else has ended its connection, even if the machine closes it  *)
(* at once and lines are still on their way.                               *)
FinishedJobsComplete ==
  \A m \in Machines : task[m] = "finished" ~> session[m] = "completed" \/ m \in trouble
=============================================================================
