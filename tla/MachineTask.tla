---------------------------- MODULE MachineTask ----------------------------
(***************************************************************************)
(* What the simulator promises of a machine, with no requests, deadlines   *)
(* and semaphore: one connection for one job, `hello` once and only while  *)
(* there is room among the machines that talk, `done` at most once and     *)
(* last, and in the end the connection is closed.  Module Machine          *)
(* implements this specification.                                          *)
(***************************************************************************)
EXTENDS FiniteSets, Naturals

CONSTANTS Machines, MaxInFlight

VARIABLE task  \* machine -> "none", "open", "talking", "finished" or "closed"

Init == task = [m \in Machines |-> "none"]

Move(m, from, to) == task[m] = from /\ task' = [task EXCEPT ![m] = to]

InFlight == {m \in Machines : task[m] \in {"talking", "finished"}}

Open(m) == Move(m, "none", "open")
Talk(m) == Cardinality(InFlight) < MaxInFlight /\ Move(m, "open", "talking")
Finish(m) == Move(m, "talking", "finished")
Close(m) == task[m] # "closed" /\ task' = [task EXCEPT ![m] = "closed"]

Next == \E m \in Machines : Open(m) \/ Talk(m) \/ Finish(m) \/ Close(m)

Safety == Init /\ [][Next]_task

Spec == Safety /\ \A m \in Machines : WF_task(Close(m))
=============================================================================
