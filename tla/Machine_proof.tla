---------------------------- MODULE Machine_proof ----------------------------
(***************************************************************************)
(* Proofs about Machine for any finite set of machines and any number of   *)
(* slots.                                                                  *)
(***************************************************************************)
EXTENDS Machine, FiniteSetTheorems, TLAPS

Awaits == {"created", "connecting", "assignment", "slot", "hello", "working",
           "done", "closing", "ended"}
States == {"starting", "running", "stopping", "completed", "broken", "failed"}

(* The state of every variable has its type.                               *)
TypeOK == /\ slots \in 0 .. MaxInFlight
          /\ pc \in [Machines -> Awaits]
          /\ state \in [Machines -> States]
          /\ stop \in SUBSET Machines /\ drain \in SUBSET Machines
          /\ break \in SUBSET Machines /\ cancelled \in SUBSET Machines
          /\ shut \in BOOLEAN
          /\ limited \in SUBSET Machines
          /\ due \in [Machines -> {"none", "max", "normal"}]
          /\ holds \in SUBSET Machines /\ done \in SUBSET Machines

(* Why a machine is in the state that its runtime shows.                   *)
Explained(m) ==
  /\ m \in cancelled => shut /\ m \in stop
  /\ pc[m] = "done" => m \in done
  /\ state[m] = "completed" => m \in done
  /\ state[m] = "broken" => m \in break \/ due[m] # "none" \/ shut
  /\ state[m] = "stopping" => m \in stop \union drain
  /\ pc[m] \in {"closing", "ended"} /\ state[m] \in {"starting", "running"} => m \in stop

AllExplained == \A m \in Machines : Explained(m)

IInv == TypeOK /\ SlotsConserved /\ AllExplained

-----------------------------------------------------------------------------
(* Every step but Shutdown and a stutter is a step of one machine.         *)
MachineStep(m) == \/ AskStop(m) \/ AskDrain(m) \/ AskBreak(m)
                  \/ Task(m) \/ DeadlinePasses(m)

LEMMA StepCases ==
  ASSUME [Next]_vars
  PROVE  (\E m \in Machines : MachineStep(m)) \/ Shutdown \/ UNCHANGED vars
BY DEF Next, MachineStep, Terminating

(* The holders of slots are a finite set.                                  *)
LEMMA HoldersFinite ==
  ASSUME TypeOK
  PROVE  IsFiniteSet(holds) /\ Cardinality(holds) \in Nat
BY MachinesAssumption, FS_Subset, FS_CardinalityType DEF TypeOK

-----------------------------------------------------------------------------
(* The initial states satisfy the invariant.                               *)
LEMMA InitIInv == Init => IInv
<1> SUFFICES ASSUME Init PROVE IInv OBVIOUS
<1>1. TypeOK
  <2>1. slots \in 0 .. MaxInFlight BY InFlightAssumption DEF Init
  <2>2. pc \in [Machines -> Awaits] /\ state \in [Machines -> States]
    BY DEF Init, Awaits, States
  <2>3. due \in [Machines -> {"none", "max", "normal"}] BY DEF Init
  <2> QED BY <2>1, <2>2, <2>3 DEF Init, TypeOK
<1>2. SlotsConserved BY FS_EmptySet, InFlightAssumption DEF Init, SlotsConserved
<1>3. AllExplained BY DEF Init, AllExplained, Explained
<1> QED BY <1>1, <1>2, <1>3 DEF IInv

(* A slot in use was taken from those that are free at the start.          *)
LEMMA HolderCounted ==
  ASSUME IInv, NEW m \in holds
  PROVE  /\ slots + 1 \in 0 .. MaxInFlight
         /\ slots + 1 + Cardinality(holds \ {m}) = MaxInFlight
<1>1. /\ Cardinality(holds \ {m}) = Cardinality(holds) - 1
      /\ Cardinality(holds \ {m}) \in Nat
  BY HoldersFinite, FS_RemoveElement, FS_CardinalityType DEF IInv
<1> QED BY <1>1, HoldersFinite, InFlightAssumption DEF IInv, TypeOK, SlotsConserved

(* Leaving keeps the types and the slots.                                  *)
LEMMA LeaveKeeps ==
  ASSUME IInv, NEW m \in Machines, NEW final \in States, Leave(m, final)
  PROVE  /\ slots' \in 0 .. MaxInFlight /\ holds' \in SUBSET Machines
         /\ pc' \in [Machines -> Awaits] /\ state' \in [Machines -> States]
         /\ SlotsConserved'
<1>1. pc' \in [Machines -> Awaits] /\ state' \in [Machines -> States] /\ holds' \in SUBSET Machines
  BY DEF Leave, IInv, TypeOK, Awaits
<1>2. \A n \in Machines : n \in holds' <=> pc'[n] \in {"hello", "working", "done"}
  BY DEF Leave, IInv, TypeOK, SlotsConserved
<1>3. slots' \in 0 .. MaxInFlight /\ slots' + Cardinality(holds') = MaxInFlight
  <2>1. CASE m \in holds BY <2>1, HolderCounted DEF Leave
  <2>2. CASE m \notin holds
    <3>1. holds' = holds /\ slots' = slots BY <2>2 DEF Leave
    <3> QED BY <3>1 DEF IInv, TypeOK, SlotsConserved
  <2> QED BY <2>1, <2>2
<1> QED BY <1>1, <1>2, <1>3 DEF SlotsConserved

(* Going on without a slot, or with the one it has, keeps them too.        *)
LEMMA SuspendKeeps ==
  ASSUME IInv, NEW m \in Machines, NEW await \in Awaits, NEW now \in States,
         Suspend(m, await, now),
         await \in {"hello", "working", "done"} <=> m \in holds
  PROVE  /\ slots' \in 0 .. MaxInFlight /\ holds' \in SUBSET Machines
         /\ pc' \in [Machines -> Awaits] /\ state' \in [Machines -> States]
         /\ SlotsConserved'
BY DEF Suspend, IInv, TypeOK, SlotsConserved

(* ... and so does taking a free one.                                      *)
LEMMA AcquireKeeps ==
  ASSUME IInv, NEW m \in Machines, pc[m] = "slot", slots > 0,
         pc' = [pc EXCEPT ![m] = "hello"], slots' = slots - 1,
         holds' = holds \union {m}, UNCHANGED state
  PROVE  /\ slots' \in 0 .. MaxInFlight /\ holds' \in SUBSET Machines
         /\ pc' \in [Machines -> Awaits] /\ state' \in [Machines -> States]
         /\ SlotsConserved'
<1>1. m \notin holds BY DEF IInv, SlotsConserved
<1>2. Cardinality(holds \union {m}) = Cardinality(holds) + 1
  BY <1>1, HoldersFinite, FS_AddElement DEF IInv
<1>3. slots' \in 0 .. MaxInFlight /\ slots' + Cardinality(holds') = MaxInFlight
  BY <1>2, HoldersFinite, InFlightAssumption DEF IInv, TypeOK, SlotsConserved
<1>4. \A n \in Machines : n \in holds' <=> pc'[n] \in {"hello", "working", "done"}
  BY DEF IInv, TypeOK, SlotsConserved
<1> QED BY <1>3, <1>4 DEF IInv, TypeOK, Awaits, SlotsConserved

(* The top of the loop leaves, writes done or goes on to the next line.    *)
LEMMA LoopTopKeeps ==
  ASSUME IInv, NEW m \in Machines, NEW now \in States,
         pc[m] \in {"hello", "working"}, LoopTop(m, now)
  PROVE  /\ slots' \in 0 .. MaxInFlight /\ holds' \in SUBSET Machines
         /\ pc' \in [Machines -> Awaits] /\ state' \in [Machines -> States]
         /\ done' \in SUBSET Machines
         /\ SlotsConserved'
<1>1. m \in holds BY DEF IInv, SlotsConserved
<1>2. Shown(m, now) \in States BY DEF Shown, States
<1>3. done' \in SUBSET Machines BY DEF LoopTop, IInv, TypeOK
<1>4. CASE Leaves(m, now) BY <1>3, <1>4, LeaveKeeps DEF Leaves, States
<1>5. CASE Suspend(m, "done", Shown(m, now))
  BY <1>1, <1>2, <1>3, <1>5, SuspendKeeps DEF Awaits
<1>6. CASE Suspend(m, "working", Shown(m, now))
  BY <1>1, <1>2, <1>3, <1>6, SuspendKeeps DEF Awaits
<1> QED BY <1>4, <1>5, <1>6 DEF LoopTop

(* A step of a machine keeps the types and the slots.                      *)
LEMMA MachineKeeps ==
  ASSUME IInv, NEW m \in Machines, MachineStep(m)
  PROVE  TypeOK' /\ SlotsConserved'
<1> DEFINE Kept == /\ slots' \in 0 .. MaxInFlight /\ holds' \in SUBSET Machines
                   /\ pc' \in [Machines -> Awaits] /\ state' \in [Machines -> States]
                   /\ SlotsConserved'
<1>1. GiveUpState(m) \in States /\ state[m] \in States
  BY DEF GiveUpState, States, IInv, TypeOK
<1>2. pc[m] \notin {"hello", "working", "done"} <=> m \notin holds
  BY DEF IInv, SlotsConserved
<1>3. ASSUME NEW now \in States, Ask(m, now) PROVE Kept /\ UNCHANGED <<limited, due, done>>
  BY <1>3 DEF Ask, IInv, TypeOK, SlotsConserved
<1>4. CASE AskStop(m) \/ AskDrain(m) \/ AskBreak(m)
  <2>1. CASE AskStop(m)
    BY <1>1, <1>3, <2>1 DEF AskStop, States, IInv, TypeOK
  <2>2. CASE AskDrain(m)
    BY <1>1, <1>3, <2>2 DEF AskDrain, States, IInv, TypeOK
  <2>3. CASE AskBreak(m)
    BY <1>1, <1>3, <2>3 DEF AskBreak, States, IInv, TypeOK
  <2> QED BY <1>4, <2>1, <2>2, <2>3
<1>5. CASE DeadlinePasses(m)
  BY <1>5 DEF DeadlinePasses, requests, IInv, TypeOK, SlotsConserved
<1>6. ASSUME Kept, done' \in SUBSET Machines, Rest PROVE TypeOK' /\ SlotsConserved'
  BY <1>6 DEF Rest, requests, IInv, TypeOK
<1>7. CASE Start(m)
  <2>1. Kept
    BY <1>1, <1>2, <1>7, SuspendKeeps DEF Start, At, Awaits, States
  <2> QED BY <1>6, <1>7, <2>1 DEF Start, IInv, TypeOK
<1>8. CASE ConnectFails(m)
  <2>1. Kept BY <1>2, <1>8, SuspendKeeps DEF ConnectFails, At, Awaits, States
  <2> QED BY <1>6, <1>8, <2>1 DEF ConnectFails, IInv, TypeOK
<1>9. CASE Connected(m)
  <2>1. Kept BY <1>1, <1>2, <1>9, SuspendKeeps, LeaveKeeps DEF Connected, At, Awaits
  <2> QED BY <1>6, <1>9, <2>1 DEF Connected, IInv, TypeOK
<1>10. CASE AssignmentOver(m)
  <2>1. Kept BY <1>1, <1>2, <1>10, SuspendKeeps, LeaveKeeps DEF AssignmentOver, At, Awaits
  <2> QED BY <1>6, <1>10, <2>1 DEF AssignmentOver, IInv, TypeOK
<1>11. CASE SlotAcquired(m)
  <2>1. Kept BY <1>1, <1>11, LeaveKeeps, AcquireKeeps DEF SlotAcquired, At
  <2> QED BY <1>6, <1>11, <2>1 DEF SlotAcquired, IInv, TypeOK
<1>12. CASE SlotPoll(m)
  <2>1. Kept BY <1>1, <1>12, LeaveKeeps DEF SlotPoll
  <2> QED BY <1>6, <1>12, <2>1 DEF SlotPoll, IInv, TypeOK
<1>13. CASE HelloDrained(m)
  <2>1. Kept /\ done' \in SUBSET Machines
    BY <1>13, LoopTopKeeps DEF HelloDrained, At, States
  <2> QED BY <1>6, <1>13, <2>1 DEF HelloDrained
<1>14. CASE IntervalOver(m)
  <2>1. Kept /\ done' \in SUBSET Machines
    BY <1>1, <1>14, LoopTopKeeps DEF IntervalOver, At
  <2> QED BY <1>6, <1>14, <2>1 DEF IntervalOver
<1>15. CASE DoneDrained(m)
  <2>1. Kept BY <1>15, LeaveKeeps DEF DoneDrained, States
  <2> QED BY <1>6, <1>15, <2>1 DEF DoneDrained, IInv, TypeOK
<1>16. CASE DrainFails(m)
  <2>1. Kept BY <1>16, LeaveKeeps DEF DrainFails, States
  <2> QED BY <1>6, <1>16, <2>1 DEF DrainFails, IInv, TypeOK
<1>17. CASE Closed(m)
  <2>1. Kept BY <1>1, <1>2, <1>17, SuspendKeeps DEF Closed, At, Awaits
  <2> QED BY <1>6, <1>17, <2>1 DEF Closed, IInv, TypeOK
<1>18. CASE DeliverCancel(m)
  <2>1. Kept
    BY <1>1, <1>2, <1>18, SuspendKeeps, LeaveKeeps DEF DeliverCancel, Awaits, States
  <2> QED BY <1>18, <2>1 DEF DeliverCancel, IInv, TypeOK
<1> QED BY <1>4, <1>5, <1>7, <1>8, <1>9, <1>10, <1>11, <1>12, <1>13, <1>14, <1>15,
           <1>16, <1>17, <1>18 DEF MachineStep, Task, Progress

(* A step of a machine leaves the others as they are.                      *)
LEMMA OthersUntouched ==
  ASSUME IInv, NEW m \in Machines, MachineStep(m), NEW n \in Machines \ {m}
  PROVE  /\ pc'[n] = pc[n] /\ state'[n] = state[n] /\ due'[n] = due[n]
         /\ n \in stop' <=> n \in stop
         /\ n \in drain' <=> n \in drain
         /\ n \in break' <=> n \in break
         /\ n \in cancelled' <=> n \in cancelled
         /\ n \in done' <=> n \in done
         /\ shut' = shut
<1> USE DEF IInv, TypeOK, requests
<1>1. CASE AskStop(m) BY <1>1 DEF AskStop, Ask
<1>2. CASE AskDrain(m) BY <1>2 DEF AskDrain, Ask
<1>3. CASE AskBreak(m) BY <1>3 DEF AskBreak, Ask
<1>4. CASE DeadlinePasses(m) BY <1>4 DEF DeadlinePasses
<1>5. CASE Start(m) BY <1>5 DEF Start, Suspend, Rest
<1>6. CASE ConnectFails(m) BY <1>6 DEF ConnectFails, Suspend, Rest
<1>7. CASE Connected(m) BY <1>7 DEF Connected, Suspend, Leave, Rest
<1>8. CASE AssignmentOver(m) BY <1>8 DEF AssignmentOver, Suspend, Leave, Rest
<1>9. CASE SlotAcquired(m) BY <1>9 DEF SlotAcquired, Leave, Rest
<1>10. CASE SlotPoll(m) BY <1>10 DEF SlotPoll, Leave, Rest
<1>11. CASE HelloDrained(m) BY <1>11 DEF HelloDrained, LoopTop, Leaves, Suspend, Leave, Rest
<1>12. CASE IntervalOver(m) BY <1>12 DEF IntervalOver, LoopTop, Leaves, Suspend, Leave, Rest
<1>13. CASE DoneDrained(m) BY <1>13 DEF DoneDrained, Leave, Rest
<1>14. CASE DrainFails(m) BY <1>14 DEF DrainFails, Leave, Rest
<1>15. CASE Closed(m) BY <1>15 DEF Closed, Suspend, Rest
<1>16. CASE DeliverCancel(m) BY <1>16 DEF DeliverCancel, Suspend, Leave
<1> QED BY <1>1, <1>2, <1>3, <1>4, <1>5, <1>6, <1>7, <1>8, <1>9, <1>10, <1>11, <1>12,
           <1>13, <1>14, <1>15, <1>16 DEF MachineStep, Task, Progress

(* What leaving and going on do to the machine itself.                     *)
LEMMA Ending ==
  ASSUME TypeOK, NEW m \in Machines, NEW final \in States
  PROVE  /\ Leave(m, final) => pc'[m] = "closing" /\ state'[m] = final
         /\ \A await : Suspend(m, await, final) => pc'[m] = await /\ state'[m] = final
BY DEF TypeOK, Leave, Suspend

(* A machine gives up in a state that is explained.                        *)
LEMMA GivingUp ==
  ASSUME NEW m \in Machines, GivesUp(m)
  PROVE  /\ GiveUpState(m) \in {"stopping", "broken"}
         /\ GiveUpState(m) = "stopping" => m \in stop \union drain
         /\ GiveUpState(m) = "broken" => m \in break \/ due[m] # "none"
BY DEF GivesUp, GiveUpState, Aborted

(* Its own step keeps a machine explained.                                 *)
LEMMA SelfExplained ==
  ASSUME IInv, NEW m \in Machines, MachineStep(m)
  PROVE  Explained(m)'
<1> USE DEF IInv, TypeOK, requests, AllExplained, Explained
<1>1. CASE AskStop(m) BY <1>1 DEF AskStop, Ask
<1>2. CASE AskDrain(m) BY <1>2 DEF AskDrain, Ask
<1>3. CASE AskBreak(m) BY <1>3 DEF AskBreak, Ask
<1>4. CASE DeadlinePasses(m) BY <1>4 DEF DeadlinePasses
<1>5. CASE Start(m)
  BY <1>5, GivingUp, Ending DEF Start, Suspend, Rest, At
<1>6. CASE ConnectFails(m) BY <1>6 DEF ConnectFails, Suspend, Rest
<1>7. CASE Connected(m) BY <1>7, GivingUp DEF Connected, Suspend, Leave, Rest, At
<1>8. CASE AssignmentOver(m) BY <1>8, GivingUp DEF AssignmentOver, Suspend, Leave, Rest, At
<1>9. CASE SlotAcquired(m) BY <1>9, GivingUp DEF SlotAcquired, Leave, Rest, At
<1>10. CASE SlotPoll(m) BY <1>10, GivingUp DEF SlotPoll, Leave, Rest, At
<1>11. CASE HelloDrained(m)
  BY <1>11 DEF HelloDrained, LoopTop, Leaves, Shown, Suspend, Leave, Rest, At
<1>12. CASE IntervalOver(m)
  BY <1>12 DEF IntervalOver, LoopTop, Leaves, Shown, Suspend, Leave, Rest, At
<1>13. CASE DoneDrained(m) BY <1>13 DEF DoneDrained, Leave, Rest, At
<1>14. CASE DrainFails(m) BY <1>14 DEF DrainFails, Leave, Rest, At
<1>15. CASE Closed(m) BY <1>15 DEF Closed, Suspend, Rest, At
<1>16. CASE DeliverCancel(m) BY <1>16 DEF DeliverCancel, Suspend, Leave
<1> QED BY <1>1, <1>2, <1>3, <1>4, <1>5, <1>6, <1>7, <1>8, <1>9, <1>10, <1>11, <1>12,
           <1>13, <1>14, <1>15, <1>16 DEF MachineStep, Task, Progress

-----------------------------------------------------------------------------
(* The invariant is inductive.                                             *)
LEMMA StepIInv == IInv /\ [Next]_vars => IInv'
<1> SUFFICES ASSUME IInv, [Next]_vars PROVE IInv' OBVIOUS
<1>1. ASSUME NEW m \in Machines, MachineStep(m) PROVE IInv'
  <2>1. TypeOK' /\ SlotsConserved' BY <1>1, MachineKeeps
  <2>2. ASSUME NEW n \in Machines \ {m} PROVE Explained(n)'
    BY <1>1, <2>2, OthersUntouched DEF IInv, AllExplained, Explained
  <2>3. Explained(m)' BY <1>1, SelfExplained
  <2> QED BY <2>1, <2>2, <2>3 DEF IInv, AllExplained
<1>2. CASE Shutdown
  <2>1. TypeOK' BY <1>2 DEF Shutdown, IInv, TypeOK
  <2>2. SlotsConserved' BY <1>2 DEF Shutdown, IInv, SlotsConserved
  <2>3. AllExplained' BY <1>2 DEF Shutdown, IInv, TypeOK, AllExplained, Explained
  <2> QED BY <2>1, <2>2, <2>3 DEF IInv
<1>3. CASE UNCHANGED vars
  BY <1>3 DEF vars, requests, IInv, TypeOK, SlotsConserved, AllExplained, Explained
<1> QED BY <1>1, <1>2, <1>3, StepCases

(* In every state of every run the invariant holds.                        *)
THEOREM Invariance == Spec => []IInv
<1>1. IInv /\ [Next]_vars => IInv' BY StepIInv
<1> QED BY InitIInv, <1>1, PTL DEF Spec

(* However many machines share however many slots, free slots and holders  *)
(* add up and exactly the machines that talk hold one.                     *)
THEOREM SlotsNeverLost == Spec => []SlotsConserved
<1>1. IInv => SlotsConserved BY DEF IInv
<1> QED BY Invariance, <1>1, PTL

(* What is counted when a machine has ended tells what happened to it.     *)
THEOREM CountsTell == Spec => []OutcomesTell
<1>1. IInv => OutcomesTell
  BY DEF IInv, TypeOK, AllExplained, Explained, OutcomesTell
<1> QED BY Invariance, <1>1, PTL

(* The slots do what they are for: never do more than MaxInFlight machines *)
(* have a session in progress, however they are started, stopped, broken   *)
(* or cancelled.                                                           *)
TalkersBounded ==
  Cardinality({m \in Machines : pc[m] \in {"hello", "working", "done"}}) <= MaxInFlight

(* The semaphore bounds the sessions in progress, hello to done, by        *)
(* MaxInFlight, for every number of machines.                              *)
THEOREM InFlightBounded == Spec => []TalkersBounded
<1>1. ASSUME IInv PROVE TalkersBounded
  <2>1. {m \in Machines : pc[m] \in {"hello", "working", "done"}} = holds
    BY <1>1 DEF IInv, TypeOK, SlotsConserved
  <2>2. Cardinality(holds) <= MaxInFlight
    BY <1>1, HoldersFinite, InFlightAssumption DEF IInv, TypeOK, SlotsConserved
  <2> QED BY <2>1, <2>2 DEF TalkersBounded
<1> QED BY Invariance, <1>1, PTL

-----------------------------------------------------------------------------
(* What a step of a machine can do to its await, whatever else it does.    *)
LEMMA OwnAwait ==
  ASSUME IInv, NEW m \in Machines, MachineStep(m), pc'[m] # pc[m]
  PROVE  \/ pc[m] = "created" /\ pc'[m] \in {"connecting", "ended"}
         \/ pc[m] = "connecting" /\ pc'[m] \in {"ended", "closing", "assignment"}
         \/ pc[m] = "assignment" /\ pc'[m] \in {"closing", "slot"}
         \/ pc[m] = "slot" /\ pc'[m] = "closing"
         \/ /\ pc[m] = "slot" /\ pc'[m] = "hello" /\ slots > 0
            /\ m \notin stop \union drain \union break
         \/ pc[m] \in {"hello", "working"} /\ pc'[m] \in {"working", "done"}
         \/ /\ pc[m] \in {"hello", "working", "done"} /\ pc'[m] = "closing"
            /\ m \in cancelled \union stop \union break \union done
                 \/ due[m] = "max" \/ state'[m] = "failed"
         \/ pc[m] = "closing" /\ pc'[m] = "ended"
<1> USE DEF IInv, TypeOK, requests
<1>1. CASE AskStop(m) \/ AskDrain(m) \/ AskBreak(m) \/ DeadlinePasses(m)
  BY <1>1 DEF AskStop, AskDrain, AskBreak, Ask, DeadlinePasses
<1>2. CASE Start(m) BY <1>2 DEF Start, Suspend, At
<1>3. CASE ConnectFails(m) BY <1>3 DEF ConnectFails, Suspend, At
<1>4. CASE Connected(m) BY <1>4 DEF Connected, Suspend, Leave, At
<1>5. CASE AssignmentOver(m) BY <1>5 DEF AssignmentOver, Suspend, Leave, At
<1>6. CASE SlotAcquired(m)
  BY <1>6 DEF SlotAcquired, GivesUp, Aborted, Leave, At
<1>7. CASE SlotPoll(m) BY <1>7 DEF SlotPoll, Leave, At
<1>8. CASE HelloDrained(m) \/ IntervalOver(m)
  BY <1>8 DEF HelloDrained, IntervalOver, LoopTop, Leaves, Suspend, Leave, At
<1>9. CASE DoneDrained(m)
  BY <1>9 DEF DoneDrained, Leave, At, AllExplained, Explained
<1>10. CASE DrainFails(m) BY <1>10 DEF DrainFails, Leave, At
<1>11. CASE Closed(m) BY <1>11 DEF Closed, Suspend, At
<1>12. CASE DeliverCancel(m) BY <1>12 DEF DeliverCancel, Suspend, Leave
<1> QED BY <1>1, <1>2, <1>3, <1>4, <1>5, <1>6, <1>7, <1>8, <1>9, <1>10, <1>11, <1>12
        DEF MachineStep, Task, Progress

(* A machine told to stop, drain or break before it has a slot never says  *)
(* hello.                                                                  *)
THEOREM NoLateHello == Spec => NoHelloAfterRequest
<1> DEFINE Quiet == \A m \in Machines :
              pc[m] # "hello" /\ pc'[m] = "hello" => m \notin stop \union drain \union break
<1>1. ASSUME IInv, [Next]_vars PROVE [Quiet]_vars
  <2>1. ASSUME NEW m \in Machines, MachineStep(m) PROVE Quiet
    BY <1>1, <2>1, OthersUntouched, OwnAwait
  <2>2. CASE Shutdown BY <2>2 DEF Shutdown
  <2> QED BY <1>1, <2>1, <2>2, StepCases
<1> QED BY Invariance, <1>1, PTL DEF Spec, NoHelloAfterRequest

(* A machine that drains in the middle of its job is not cut short.        *)
THEOREM GracefulDrain == Spec => DrainIsGraceful
<1> DEFINE Graceful == \A m \in Machines :
              /\ pc[m] \in {"hello", "working", "done"} /\ pc'[m] = "closing"
              /\ m \in drain \ (stop \union break \union cancelled)
              => state'[m] = "failed" \/ due[m] = "max" \/ m \in done
<1>1. ASSUME IInv, [Next]_vars PROVE [Graceful]_vars
  <2>1. ASSUME NEW m \in Machines, MachineStep(m) PROVE Graceful
    BY <1>1, <2>1, OthersUntouched, OwnAwait
  <2>2. CASE Shutdown BY <2>2 DEF Shutdown
  <2> QED BY <1>1, <2>1, <2>2, StepCases
<1> QED BY Invariance, <1>1, PTL DEF Spec, DrainIsGraceful

-----------------------------------------------------------------------------
(* Machine implements MachineTask.                                         *)

(* The cardinality of the instance is the one the theorems are about.      *)
LEMMA SameCount == ASSUME NEW S PROVE Tasks!Cardinality(S) = Cardinality(S)
  BY Zenon DEF Tasks!Cardinality, Cardinality

(* As long as a slot is free, another machine may talk.                    *)
LEMMA RoomToTalk ==
  ASSUME IInv, slots > 0
  PROVE  Tasks!Cardinality(Tasks!InFlight) < MaxInFlight
<1>1. Tasks!InFlight = holds
  BY DEF IInv, TypeOK, SlotsConserved, Tasks!InFlight, TaskPhase, Awaits
<1>2. Cardinality(holds) < MaxInFlight
  BY HoldersFinite, InFlightAssumption DEF IInv, TypeOK, SlotsConserved
<1> QED BY <1>1, <1>2, SameCount

(* Every step maps to a step of the task of its machine, or to a stutter.  *)
LEMMA TaskStep ==
  IInv /\ [Next]_vars => [Tasks!Next]_([m \in Machines |-> TaskPhase(m)])
<1> DEFINE task == [m \in Machines |-> TaskPhase(m)]
<1> SUFFICES ASSUME IInv, [Next]_vars PROVE [Tasks!Next]_task OBVIOUS
<1>1. ASSUME NEW m \in Machines, MachineStep(m) PROVE [Tasks!Next]_task
  <2>1. \A n \in Machines \ {m} : TaskPhase(n)' = TaskPhase(n)
    BY <1>1, OthersUntouched DEF TaskPhase
  <2>2. task' = [task EXCEPT ![m] = TaskPhase(m)'] BY <2>1
  <2>3. \/ TaskPhase(m)' = TaskPhase(m)
        \/ TaskPhase(m) = "none" /\ TaskPhase(m)' = "open"
        \/ TaskPhase(m) = "open" /\ TaskPhase(m)' = "talking" /\ slots > 0
        \/ TaskPhase(m) = "talking" /\ TaskPhase(m)' = "finished"
        \/ TaskPhase(m) # "closed" /\ TaskPhase(m)' = "closed"
    BY <1>1, OwnAwait DEF TaskPhase
  <2>4. CASE TaskPhase(m)' = TaskPhase(m)
    <3>1. task' = task BY <2>2, <2>4
    <3> QED BY <3>1
  <2>5. CASE TaskPhase(m) = "none" /\ TaskPhase(m)' = "open"
    BY <2>2, <2>5 DEF Tasks!Next, Tasks!Open, Tasks!Move
  <2>6. CASE TaskPhase(m) = "open" /\ TaskPhase(m)' = "talking" /\ slots > 0
    <3>1. Tasks!Cardinality(Tasks!InFlight) < MaxInFlight BY <2>6, RoomToTalk
    <3>2. Tasks!Move(m, "open", "talking") BY <2>2, <2>6 DEF Tasks!Move
    <3> QED BY <3>1, <3>2 DEF Tasks!Next, Tasks!Talk
  <2>7. CASE TaskPhase(m) = "talking" /\ TaskPhase(m)' = "finished"
    BY <2>2, <2>7 DEF Tasks!Next, Tasks!Finish, Tasks!Move
  <2>8. CASE TaskPhase(m) # "closed" /\ TaskPhase(m)' = "closed"
    BY <2>2, <2>8 DEF Tasks!Next, Tasks!Close
  <2> QED BY <2>3, <2>4, <2>5, <2>6, <2>7, <2>8
<1>2. CASE Shutdown
  <2>1. task' = task BY <1>2 DEF Shutdown, TaskPhase
  <2> QED BY <2>1
<1>3. CASE UNCHANGED vars
  <2>1. task' = task BY <1>3 DEF vars, TaskPhase
  <2> QED BY <2>1
<1> QED BY <1>1, <1>2, <1>3, StepCases

(* The machines implement the safety part of MachineTask, for any number   *)
(* of them and of slots: one hello each, never more than MaxInFlight of    *)
(* them talking, done only after hello and nothing after done.             *)
THEOREM Refinement == Spec => Tasks!Safety
<1>1. Init => Tasks!Init BY DEF Init, Tasks!Init, TaskPhase
<1> QED BY <1>1, Invariance, TaskStep, PTL DEF Spec, Tasks!Safety
=============================================================================
