------------------------------- MODULE Machine -------------------------------
(***************************************************************************)
(* simulator/machine.py: the MachineRunner tasks of a set of machines that *)
(* share the runner's semaphore.  They run on one asyncio loop, so a step  *)
(* is what a task does between two awaits that suspend.  The controller    *)
(* (module Controller) sets the request flags of a machine at any time     *)
(* until its task has ended.                                               *)
(*                                                                         *)
(* Time is kept as the deadline that a machine has passed, if any.         *)
(***************************************************************************)
EXTENDS Naturals, FiniteSets

CONSTANTS Machines,    \* the machines, each with one task
          MaxInFlight  \* permits of the semaphore

ASSUME MachinesAssumption == IsFiniteSet(Machines)
ASSUME InFlightAssumption == MaxInFlight \in Nat \ {0}

VARIABLES
  slots,       \* free permits of the semaphore
  pc,          \* the await at which each machine's task is suspended
  state,       \* runtime.state
  stop, drain, break,  \* machines with that request flag set
  limited,     \* machines that have a max_duration_seconds
  due,         \* the deadline each machine has passed
  holds,       \* machines whose slot_acquired is true
  cancelled,   \* machines whose task has a cancellation to deliver
  shut,        \* shutdown has cancelled the tasks, which it does once
  done         \* machines that have written their done line

requests == <<stop, drain, break, cancelled, shut>>
vars == <<slots, pc, state, requests, limited, due, holds, done>>

Init == /\ slots = MaxInFlight
        /\ pc = [m \in Machines |-> "created"]
        /\ state = [m \in Machines |-> "starting"]
        /\ stop = {} /\ drain = {} /\ break = {} /\ cancelled = {} /\ shut = FALSE
        /\ limited \in SUBSET Machines
        /\ due = [m \in Machines |-> "none"]
        /\ holds = {} /\ done = {}

-----------------------------------------------------------------------------
(* What the controller does to a machine that it lists.                    *)

Ask(m, now) == /\ pc[m] # "ended"
               /\ state' = [state EXCEPT ![m] = now]
               /\ UNCHANGED <<slots, pc, limited, due, holds, done>>

(* _trim_excess_locked                                                     *)
AskStop(m) == /\ Ask(m, IF state[m] = "running" THEN "stopping" ELSE state[m])
              /\ stop' = stop \union {m}
              /\ UNCHANGED <<drain, break, cancelled, shut>>

(* stop_all                                                                *)
AskDrain(m) == /\ Ask(m, IF state[m] \in {"starting", "running"} THEN "stopping" ELSE state[m])
               /\ drain' = drain \union {m}
               /\ UNCHANGED <<stop, break, cancelled, shut>>

(* break_machine                                                           *)
AskBreak(m) == /\ Ask(m, "broken")
               /\ break' = break \union {m}
               /\ UNCHANGED <<stop, drain, cancelled, shut>>

(* shutdown: every machine listed is stopped and its task cancelled.       *)
Shutdown == LET listed == {m \in Machines : pc[m] # "ended"} IN
            /\ ~shut /\ shut' = TRUE
            /\ stop' = stop \union listed
            /\ cancelled' = listed
            /\ UNCHANGED <<slots, pc, state, drain, break, limited, due, holds, done>>

-----------------------------------------------------------------------------
(* How a task goes on and how it ends.                                     *)

Suspend(m, await, now) ==
  /\ pc' = [pc EXCEPT ![m] = await]
  /\ state' = [state EXCEPT ![m] = now]
  /\ UNCHANGED <<slots, holds>>

(* Wrong: the slot is given back whether or not it was acquired.           *)
LeaveGivingSlot(m, final) ==
  /\ pc' = [pc EXCEPT ![m] = "closing"]
  /\ state' = [state EXCEPT ![m] = final]
  /\ slots' = slots + 1
  /\ holds' = holds \ {m}

(* run returns or raises: the finally clause gives the slot back and waits *)
(* for the connection to close.                                            *)
Leave(m, final) ==
  /\ pc' = [pc EXCEPT ![m] = "closing"]
  /\ state' = [state EXCEPT ![m] = final]
  /\ slots' = IF m \in holds THEN slots + 1 ELSE slots
  /\ holds' = holds \ {m}

At(m, awaits) == pc[m] \in awaits /\ m \notin cancelled
Rest == UNCHANGED <<requests, limited, due>>

(* _abort_before_start, and the deadline checks around it: whether a       *)
(* machine that has not said hello gives up, and in which state.           *)
Aborted(m) == m \in break \union stop \union drain
GivesUp(m) == Aborted(m) \/ due[m] # "none"
GiveUpState(m) == IF Aborted(m) /\ m \notin break THEN "stopping" ELSE "broken"

-----------------------------------------------------------------------------
(* MachineRunner.run, await by await.                                      *)

(* The task runs for the first time.  There is no connection to close, so  *)
(* it ends at once if it gives up.  The deadline is looked at first.       *)
Start(m) == /\ At(m, {"created"})
            /\ IF ~GivesUp(m) THEN Suspend(m, "connecting", state[m])
               ELSE Suspend(m, "ended", IF due[m] # "none" THEN "broken" ELSE GiveUpState(m))
            /\ UNCHANGED done /\ Rest

ConnectFails(m) == /\ At(m, {"connecting"})
                   /\ Suspend(m, "ended", "failed")
                   /\ UNCHANGED done /\ Rest

Connected(m) == /\ At(m, {"connecting"})
                /\ IF GivesUp(m) THEN Leave(m, GiveUpState(m))
                   ELSE Suspend(m, "assignment", state[m])
                /\ UNCHANGED done /\ Rest

(* The assignment line, its absence after 10 ms and the end of the stream  *)
(* are all the same to the machine: it goes on to wait for a slot.         *)
AssignmentOver(m) == /\ At(m, {"assignment"})
                     /\ IF GivesUp(m) THEN Leave(m, GiveUpState(m))
                        ELSE Suspend(m, "slot", state[m])
                     /\ UNCHANGED done /\ Rest

(* Wrong: the slot is taken without another look at the requests.          *)
SlotAcquiredBlindly(m) ==
  /\ At(m, {"slot"}) /\ slots > 0
  /\ pc' = [pc EXCEPT ![m] = "hello"]
  /\ slots' = slots - 1
  /\ holds' = holds \union {m}
  /\ UNCHANGED <<state, done>> /\ Rest

(* The slot is acquired and hello is written, unless the machine has been  *)
(* told otherwise in the meantime: then the slot goes straight back.       *)
SlotAcquired(m) ==
  /\ At(m, {"slot"}) /\ slots > 0
  /\ IF GivesUp(m) THEN Leave(m, GiveUpState(m))
     ELSE /\ pc' = [pc EXCEPT ![m] = "hello"]
          /\ slots' = slots - 1
          /\ holds' = holds \union {m}
          /\ UNCHANGED state
  /\ UNCHANGED done /\ Rest

(* Wrong: the wait ends at the deadline without a word about the state.    *)
SlotPollSilently(m) == /\ At(m, {"slot"}) /\ slots = 0
                       /\ GivesUp(m)
                       /\ Leave(m, IF Aborted(m) THEN GiveUpState(m) ELSE state[m])
                       /\ UNCHANGED done /\ Rest

(* The wait is cut every 100 ms to look at the requests and the deadline.  *)
SlotPoll(m) == /\ At(m, {"slot"}) /\ slots = 0
               /\ GivesUp(m)
               /\ Leave(m, GiveUpState(m))
               /\ UNCHANGED done /\ Rest

(* The top of the loop, reached with runtime.state = now: break and stop   *)
(* requests first, then the normal deadline, then the maximum one.         *)
Leaves(m, now) == \/ m \in break /\ Leave(m, "broken")
                  \/ m \in stop \ break /\ Leave(m, "stopping")
                  \/ m \notin break \union stop /\ due[m] = "max" /\ Leave(m, "broken")

Shown(m, now) == IF m \in drain /\ now = "running" THEN "stopping" ELSE now

(* Wrong: a drain request ends the job like a stop request.                *)
LoopTopStopping(m, now) ==
  \/ Leaves(m, now) /\ UNCHANGED done
  \/ /\ m \in drain \ (break \union stop) /\ due[m] # "max"
     /\ Leave(m, "stopping") /\ UNCHANGED done
  \/ /\ m \notin break \union stop \union drain /\ due[m] = "normal"
     /\ done' = done \union {m}
     /\ Suspend(m, "done", Shown(m, now))
  \/ /\ m \notin break \union stop \union drain /\ due[m] = "none"
     /\ Suspend(m, "working", Shown(m, now)) /\ UNCHANGED done

(* Wrong: a drain request hides the deadline.                              *)
LoopTopDrainFirst(m, now) ==
  \/ Leaves(m, now) /\ UNCHANGED done
  \/ /\ m \notin break \union stop \union drain /\ due[m] = "normal"
     /\ done' = done \union {m}
     /\ Suspend(m, "done", now)
  \/ /\ m \notin break \union stop /\ due[m] # "max"
     /\ (m \in drain \/ due[m] = "none")
     /\ Suspend(m, "working", Shown(m, now)) /\ UNCHANGED done

LoopTop(m, now) ==
  \/ Leaves(m, now) /\ UNCHANGED done
  \/ /\ m \notin break \union stop /\ due[m] = "normal"
     /\ done' = done \union {m}
     /\ Suspend(m, "done", Shown(m, now))
  \/ /\ m \notin break \union stop /\ due[m] = "none"
     /\ Suspend(m, "working", Shown(m, now)) /\ UNCHANGED done

(* hello is drained; the machine is running, whatever was said meanwhile.  *)
HelloDrained(m) == At(m, {"hello"}) /\ LoopTop(m, "running") /\ Rest

(* A telemetry line is drained and the interval slept.                     *)
IntervalOver(m) == At(m, {"working"}) /\ LoopTop(m, state[m]) /\ Rest

DoneDrained(m) == At(m, {"done"}) /\ Leave(m, "completed") /\ UNCHANGED done /\ Rest

(* A write fails: the connection is gone.                                  *)
DrainFails(m) == /\ At(m, {"hello", "working", "done"})
                 /\ Leave(m, "failed")
                 /\ UNCHANGED done /\ Rest

(* wait_closed is over; the state is whatever it is by now.                *)
Closed(m) == At(m, {"closing"}) /\ Suspend(m, "ended", state[m]) /\ UNCHANGED done /\ Rest

(* CancelledError reaches the await.  A task that has never run ends with  *)
(* none of its code executed.                                              *)
DeliverCancel(m) ==
  /\ m \in cancelled
  /\ cancelled' = cancelled \ {m}
  /\ \/ pc[m] = "created" /\ Suspend(m, "ended", state[m])
     \/ pc[m] \in {"connecting", "closing"} /\ Suspend(m, "ended", "broken")
     \/ pc[m] \in {"assignment", "slot", "hello", "working", "done"} /\ Leave(m, "broken")
  /\ UNCHANGED <<done, stop, drain, break, shut, limited, due>>

(* Time passes for a machine: its maximum duration, if it is the shorter   *)
(* one, and then its normal duration.                                      *)
DeadlinePasses(m) ==
  /\ pc[m] # "ended" /\ due[m] # "normal"
  /\ \/ due' = [due EXCEPT ![m] = "normal"]
     \/ /\ m \in limited /\ due[m] = "none"
        /\ due' = [due EXCEPT ![m] = "max"]
  /\ UNCHANGED <<slots, pc, state, requests, limited, holds, done>>

-----------------------------------------------------------------------------
Progress(m) == \/ Start(m) \/ ConnectFails(m) \/ Connected(m) \/ AssignmentOver(m)
               \/ SlotAcquired(m) \/ SlotPoll(m)
               \/ HelloDrained(m) \/ IntervalOver(m) \/ DoneDrained(m)
               \/ Closed(m) \/ DeliverCancel(m)

Task(m) == Progress(m) \/ DrainFails(m)

Terminating == (\A m \in Machines : pc[m] = "ended") /\ UNCHANGED vars

Next == \/ Terminating
        \/ Shutdown
        \/ \E m \in Machines : \/ AskStop(m) \/ AskDrain(m) \/ AskBreak(m)
                               \/ Task(m) \/ DeadlinePasses(m)

(* Every await comes to an end: a connect succeeds or fails, the waits for *)
(* the assignment and for a slot are polled, sleeps are timed, a drain     *)
(* ends unless it fails, and deadlines pass.  No write is bound to fail.   *)
Fairness == \A m \in Machines : WF_vars(Progress(m)) /\ WF_vars(DeadlinePasses(m))

Spec == Init /\ [][Next]_vars /\ Fairness
-----------------------------------------------------------------------------
(* No slot is lost or invented, on any path out of run: free permits and   *)
(* holders add up, and exactly the machines that talk hold one.            *)
SlotsConserved ==
  /\ slots + Cardinality(holds) = MaxInFlight
  /\ \A m \in Machines : m \in holds <=> pc[m] \in {"hello", "working", "done"}

(* Draining is graceful: a machine in the middle of its job that is asked  *)
(* to drain, and is not stopped, broken or cancelled besides, ends with    *)
(* done written, unless its connection fails or its maximum duration is    *)
(* over.                                                                   *)
DrainIsGraceful ==
  [][\A m \in Machines :
       /\ pc[m] \in {"hello", "working", "done"} /\ pc'[m] = "closing"
       /\ m \in drain \ (stop \union break \union cancelled)
       => state'[m] = "failed" \/ due[m] = "max" \/ m \in done]_vars

(* A machine told to stop, drain or break before it has a slot never says  *)
(* hello: no session starts at the backend for it.                         *)
NoHelloAfterRequest ==
  [][\A m \in Machines :
       pc[m] # "hello" /\ pc'[m] = "hello" => m \notin stop \union drain \union break]_vars

(* What _run_machine counts when a task has ended tells what happened: a   *)
(* machine counted as completed has written done, one counted as broken    *)
(* was told to break or cancelled or ran out of time, and one that is      *)
(* counted nowhere was told to stop or to drain.                           *)
OutcomesTell ==
  \A m \in Machines :
    pc[m] = "ended" =>
      /\ state[m] = "completed" => m \in done
      /\ state[m] = "broken" => m \in break \/ due[m] # "none" \/ shut
      /\ state[m] \in {"starting", "running", "stopping"} => m \in stop \union drain

(* The machines implement their tasks: whatever the requests, deadlines    *)
(* and failures, each says hello once and only with a slot, never writes   *)
(* after done, and closes its connection in the end.                       *)
TaskPhase(m) == CASE pc[m] \in {"created", "connecting"} -> "none"
                  [] pc[m] \in {"assignment", "slot"} -> "open"
                  [] pc[m] \in {"hello", "working"} -> "talking"
                  [] pc[m] = "done" -> "finished"
                  [] pc[m] \in {"closing", "ended"} -> "closed"

Tasks == INSTANCE MachineTask WITH task <- [m \in Machines |-> TaskPhase(m)]

ImplementsMachineTask == Tasks!Spec
=============================================================================
