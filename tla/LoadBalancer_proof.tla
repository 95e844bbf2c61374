------------------------- MODULE LoadBalancer_proof -------------------------
(***************************************************************************)
(* Proofs about LoadBalancer for any finite set of handler slots, any set  *)
(* of configurations and any width of the cursor.                          *)
(***************************************************************************)
EXTENDS LoadBalancer, FiniteSetTheorems, TLAPS

(* The wait group counts the handlers that run.                            *)
WgMatches == wg = Cardinality(Running)

(* What the step of a handler says of its sockets and its backend.         *)
HandlerShape ==
  \A c \in Clients :
    /\ c \in clientOpen <=> pc[c] \notin {"idle", "leave"}
    /\ c \in backendOpen <=> pc[c] \in {"assign", "proxy", "closeBackend"}
    /\ pc[c] \in Holding => target[c] \in Addr

(* Once Serve has returned nothing is running.                             *)
Drained == serve = "returned" => Running = {}

IInv == TypeOK /\ CountsMatchHolders /\ WgMatches /\ HandlerShape /\ Drained

-----------------------------------------------------------------------------
(* The handlers that run and the holders of a backend are finite sets.     *)
LEMMA HandlersFinite ==
  ASSUME TypeOK
  PROVE  /\ IsFiniteSet(Running)
         /\ Cardinality(Running) \in Nat
         /\ \A a \in Addr : IsFiniteSet(Holders(a)) /\ Cardinality(Holders(a)) \in Nat
BY ClientsAssumption, FS_Subset, FS_CardinalityType DEF Running, Holders

(* Joining a finite set adds one to its size.                              *)
LEMMA OneMore ==
  ASSUME NEW S, IsFiniteSet(S), NEW x, x \notin S
  PROVE  Cardinality(S \union {x}) = Cardinality(S) + 1
BY FS_AddElement

(* Leaving a finite set takes one from its size, which was not zero.       *)
LEMMA OneLess ==
  ASSUME NEW S, IsFiniteSet(S), NEW x \in S
  PROVE  /\ Cardinality(S \ {x}) = Cardinality(S) - 1
         /\ Cardinality(S) > 0
<1>1. Cardinality(S \ {x}) = Cardinality(S) - 1
  BY FS_RemoveElement
<1>2. IsFiniteSet(S \ {x}) /\ Cardinality(S \ {x}) \in Nat /\ Cardinality(S) \in Nat
  BY FS_RemoveElement, FS_CardinalityType
<1> QED BY <1>1, <1>2

-----------------------------------------------------------------------------
(* The initial states satisfy the invariant.                               *)
LEMMA InitIInv == Init => IInv
<1> SUFFICES ASSUME Init PROVE IInv OBVIOUS
<1>1. TypeOK
  <2>1. backends \in Seq(Addr) /\ rrCursor \in 0 .. CursorSpace - 1
    BY ConfigsAssumption, CursorAssumption DEF Init
  <2>2. activeConnections \in [Addr -> Nat] /\ wg \in Nat
    BY DEF Init
  <2>3. pc \in [Clients -> Steps] /\ target \in [Clients -> Addr \union {NoBackend}]
    BY DEF Init, Steps
  <2>4. /\ serve \in {"accepting", "waiting", "returned"}
        /\ listening \in BOOLEAN /\ ctxDone \in BOOLEAN
        /\ clientOpen \in SUBSET Clients /\ backendOpen \in SUBSET Clients
        /\ relays \in [Clients -> SUBSET Directions]
    BY DEF Init
  <2> QED BY <2>1, <2>2, <2>3, <2>4 DEF TypeOK
<1>2. Running = {} /\ \A a \in Addr : Holders(a) = {}
  BY DEF Init, Running, Holders, Holding
<1>3. CountsMatchHolders /\ WgMatches /\ Drained
  BY <1>2, FS_EmptySet DEF Init, CountsMatchHolders, WgMatches, Drained
<1>4. HandlerShape
  BY DEF Init, HandlerShape, Holding
<1> QED BY <1>1, <1>3, <1>4 DEF IInv

(* A handler that leaves was counted, so the wait group is not at zero.    *)
LEMMA RunningCounted ==
  ASSUME IInv, NEW c \in Clients, pc[c] # "idle"
  PROVE  wg \in Nat /\ wg > 0
<1>1. c \in Running /\ IsFiniteSet(Running)
  BY HandlersFinite DEF Running, IInv
<1> QED BY <1>1, OneLess DEF IInv, WgMatches, TypeOK

(* Every step keeps the types.                                             *)
LEMMA TypeStep == IInv /\ [Next]_vars => TypeOK'
<1> SUFFICES ASSUME IInv, [Next]_vars PROVE TypeOK' OBVIOUS
<1> USE DEF IInv, TypeOK, shared, server, sockets
<1>1. CASE Signal BY <1>1 DEF Signal
<1>2. CASE CloseListener BY <1>2 DEF CloseListener
<1>3. CASE AcceptError BY <1>3 DEF AcceptError
<1>4. CASE WaitDone BY <1>4 DEF WaitDone
<1>5. CASE UNCHANGED vars BY <1>5 DEF vars
<1>6. ASSUME NEW c \in Clients, Accept(c) PROVE TypeOK'
  BY <1>6 DEF Accept, Goto, Steps
<1>7. ASSUME NEW c \in Clients, NEW d \in Directions, RelayReturn(c, d) PROVE TypeOK'
  BY <1>7 DEF RelayReturn, Directions
<1>8. ASSUME NEW c \in Clients, Handler(c) PROVE TypeOK'
  <2>1. CASE Select(c)
    <3>1. rrCursor' \in 0 .. CursorSpace - 1
      BY <2>1, CursorAssumption DEF Select
    <3>2. PICK i \in Chosen :
            /\ target' = [target EXCEPT ![c] = backends[i]]
            /\ activeConnections' = [activeConnections EXCEPT ![backends[i]] = @ + 1]
      BY <2>1 DEF Select
    <3>3. backends[i] \in Addr
      BY <3>2 DEF Chosen, Tied
    <3> QED BY <2>1, <3>1, <3>2, <3>3 DEF Select, Goto, Steps
  <2>2. CASE SelectNone(c) BY <2>2 DEF SelectNone, Goto, Steps
  <2>3. CASE Dial(c) BY <2>3 DEF Dial, Goto, Steps
  <2>4. CASE DialFail(c) BY <2>4 DEF DialFail, Goto, Steps
  <2>5. CASE SendAssignment(c) BY <2>5 DEF SendAssignment, Goto, Steps, Directions
  <2>6. CASE SendFails(c) BY <2>6 DEF SendFails, Goto, Steps
  <2>7. CASE FirstDone(c) BY <2>7 DEF FirstDone, Goto, Steps
  <2>8. CASE CloseBackend(c) BY <2>8 DEF CloseBackend, Goto, Steps
  <2>9. CASE Release(c)
    <3>1. activeConnections' \in [Addr -> Nat]
      <4>1. target[c] \in Addr
        BY <2>9 DEF Release, Goto, HandlerShape, Holding
      <4>2. activeConnections[target[c]] \in Nat
        BY <4>1
      <4> QED BY <2>9, <4>1, <4>2 DEF Release
    <3> QED BY <2>9, <3>1 DEF Release, Goto, Steps
  <2>10. CASE CloseClient(c) BY <2>10 DEF CloseClient, Goto, Steps
  <2>11. CASE HandlerDone(c)
    <3>1. wg > 0 BY <2>11, RunningCounted DEF HandlerDone, Goto
    <3> QED BY <2>11, <3>1 DEF HandlerDone, Goto, Steps
  <2> QED BY <1>8, <2>1, <2>2, <2>3, <2>4, <2>5, <2>6, <2>7, <2>8, <2>9, <2>10, <2>11
          DEF Handler
<1> QED BY <1>1, <1>2, <1>3, <1>4, <1>5, <1>6, <1>7, <1>8 DEF Next, Terminating

(* Every step keeps each counter equal to the number of its holders.       *)
LEMMA CountsStep == IInv /\ [Next]_vars => CountsMatchHolders'
<1> SUFFICES ASSUME IInv, [Next]_vars, NEW a \in Addr
             PROVE  activeConnections'[a] = Cardinality(Holders(a)')
  BY DEF CountsMatchHolders
<1> USE DEF IInv, shared, server, sockets
<1>0. activeConnections[a] = Cardinality(Holders(a)) /\ IsFiniteSet(Holders(a))
  BY HandlersFinite DEF CountsMatchHolders
<1>1. CASE UNCHANGED <<pc, target, activeConnections>>
  BY <1>0, <1>1 DEF Holders
<1>2. ASSUME NEW c \in Clients, Accept(c) PROVE activeConnections'[a] = Cardinality(Holders(a)')
  <2>1. Holders(a)' = Holders(a)
    BY <1>2 DEF Accept, Goto, Holders, Holding, TypeOK
  <2> QED BY <1>0, <1>2, <2>1 DEF Accept
<1>3. ASSUME NEW c \in Clients, Handler(c) PROVE activeConnections'[a] = Cardinality(Holders(a)')
  <2>1. CASE Select(c)
    <3>1. PICK i \in Chosen :
            /\ target' = [target EXCEPT ![c] = backends[i]]
            /\ activeConnections' = [activeConnections EXCEPT ![backends[i]] = @ + 1]
      BY <2>1 DEF Select
    <3>2. backends[i] \in Addr
      BY <3>1 DEF Chosen, Tied, TypeOK
    <3>3. c \notin Holders(a) /\ pc[c] = "select" /\ pc' = [pc EXCEPT ![c] = "dial"]
      BY <2>1 DEF Select, Goto, Holders, Holding
    <3>4. CASE backends[i] = a
      <4>1. Holders(a)' = Holders(a) \union {c}
        BY <3>1, <3>3, <3>4 DEF Holders, Holding, TypeOK
      <4>2. activeConnections'[a] = activeConnections[a] + 1
        BY <3>1, <3>4 DEF TypeOK
      <4> QED BY <1>0, <3>3, <4>1, <4>2, OneMore
    <3>5. CASE backends[i] # a
      <4>1. Holders(a)' = Holders(a)
        BY <3>1, <3>3, <3>5 DEF Holders, Holding, TypeOK
      <4>2. activeConnections'[a] = activeConnections[a]
        BY <3>1, <3>2, <3>5 DEF TypeOK
      <4> QED BY <1>0, <4>1, <4>2
    <3> QED BY <3>4, <3>5
  <2>2. CASE Release(c)
    <3>1. target[c] \in Addr /\ pc[c] = "release" /\ pc' = [pc EXCEPT ![c] = "closeClient"]
      BY <2>2 DEF Release, Goto, HandlerShape, Holding
    <3>2. CASE target[c] = a
      <4>1. c \in Holders(a) /\ Holders(a)' = Holders(a) \ {c}
        BY <2>2, <3>1, <3>2 DEF Release, Holders, Holding, TypeOK
      <4>2. activeConnections[a] > 0
        BY <1>0, <4>1, OneLess
      <4>3. activeConnections'[a] = activeConnections[a] - 1
        BY <2>2, <3>2, <4>2 DEF Release, TypeOK
      <4> QED BY <1>0, <4>1, <4>3, OneLess
    <3>3. CASE target[c] # a
      <4>1. Holders(a)' = Holders(a)
        BY <2>2, <3>1, <3>3 DEF Release, Holders, Holding, TypeOK
      <4>2. activeConnections'[a] = activeConnections[a]
        BY <2>2, <3>1, <3>3 DEF Release, TypeOK
      <4> QED BY <1>0, <4>1, <4>2
    <3> QED BY <3>2, <3>3
  <2>3. CASE SelectNone(c) \/ CloseClient(c) \/ HandlerDone(c)
    <3>1. Holders(a)' = Holders(a)
      BY <2>3 DEF SelectNone, CloseClient, HandlerDone, Goto, Holders, Holding, TypeOK
    <3> QED BY <1>0, <2>3, <3>1 DEF SelectNone, CloseClient, HandlerDone
  <2>4. CASE \/ Dial(c) \/ DialFail(c) \/ SendAssignment(c) \/ SendFails(c)
             \/ FirstDone(c) \/ CloseBackend(c)
    <3>1. Holders(a)' = Holders(a)
      BY <2>4 DEF Dial, DialFail, SendAssignment, SendFails, FirstDone, CloseBackend,
                  Goto, Holders, Holding, TypeOK
    <3> QED BY <1>0, <2>4, <3>1
            DEF Dial, DialFail, SendAssignment, SendFails, FirstDone, CloseBackend
  <2> QED BY <1>3, <2>1, <2>2, <2>3, <2>4 DEF Handler
<1>4. ASSUME NEW c \in Clients, NEW d \in Directions, RelayReturn(c, d)
      PROVE  UNCHANGED <<pc, target, activeConnections>>
  BY <1>4 DEF RelayReturn
<1>5. CASE Signal \/ CloseListener \/ AcceptError \/ WaitDone \/ Terminating \/ UNCHANGED vars
  BY <1>1, <1>5 DEF Signal, CloseListener, AcceptError, WaitDone, Terminating, vars
<1> QED BY <1>1, <1>2, <1>3, <1>4, <1>5 DEF Next

(* Every step keeps the wait group equal to the number of handlers, and no *)
(* handler starts once Serve has returned.                                 *)
LEMMA WgStep == IInv /\ [Next]_vars => WgMatches' /\ Drained'
<1> SUFFICES ASSUME IInv, [Next]_vars PROVE WgMatches' /\ Drained' OBVIOUS
<1> USE DEF IInv, shared, server, sockets
<1>0. wg = Cardinality(Running) /\ IsFiniteSet(Running) /\ wg \in Nat
  BY HandlersFinite DEF WgMatches
<1>1. CASE UNCHANGED <<pc, wg, serve>>
  BY <1>1 DEF WgMatches, Drained, Running
<1>2. CASE Signal \/ CloseListener \/ Terminating \/ UNCHANGED vars
  BY <1>1, <1>2 DEF Signal, CloseListener, Terminating, vars
<1>3. CASE AcceptError
  BY <1>3 DEF AcceptError, WgMatches, Drained, Running
<1>4. CASE WaitDone
  <2>1. Running = {}
    BY <1>0, <1>4, FS_EmptySet DEF WaitDone
  <2>2. Running' = Running
    BY <1>4 DEF WaitDone, Running
  <2> QED BY <1>0, <1>4, <2>1, <2>2 DEF WaitDone, WgMatches, Drained
<1>5. ASSUME NEW c \in Clients, Accept(c) PROVE WgMatches' /\ Drained'
  <2>1. c \notin Running /\ Running' = Running \union {c}
    BY <1>5 DEF Accept, Goto, Running, TypeOK
  <2>2. wg' = wg + 1 /\ serve' = "accepting"
    BY <1>5 DEF Accept
  <2> QED BY <1>0, <2>1, <2>2, OneMore DEF WgMatches, Drained
<1>6. ASSUME NEW c \in Clients, NEW d \in Directions, RelayReturn(c, d)
      PROVE  WgMatches' /\ Drained'
  BY <1>1, <1>6 DEF RelayReturn
<1>7. ASSUME NEW c \in Clients, HandlerDone(c) PROVE WgMatches' /\ Drained'
  <2>1. c \in Running /\ Running' = Running \ {c}
    BY <1>7 DEF HandlerDone, Goto, Running, TypeOK
  <2>2. wg' = wg - 1 /\ serve' = serve
    BY <1>7 DEF HandlerDone
  <2> QED BY <1>0, <2>1, <2>2, OneLess DEF WgMatches, Drained
<1>8. ASSUME NEW c \in Clients, Handler(c), ~HandlerDone(c) PROVE WgMatches' /\ Drained'
  <2>1. Running' = Running
    BY <1>8 DEF Handler, Select, SelectNone, Dial, DialFail, SendAssignment, SendFails,
                FirstDone, CloseBackend, Release, CloseClient, Goto, Running, TypeOK
  <2>2. UNCHANGED <<wg, serve>>
    BY <1>8 DEF Handler, Select, SelectNone, Dial, DialFail, SendAssignment, SendFails,
                FirstDone, CloseBackend, Release, CloseClient
  <2> QED BY <1>0, <2>1, <2>2 DEF WgMatches, Drained
<1> QED BY <1>2, <1>3, <1>4, <1>5, <1>6, <1>7, <1>8 DEF Next, Handler

(* Every step keeps the sockets and the target of a handler in accord with *)
(* its step.                                                               *)
LEMMA ShapeStep == IInv /\ [Next]_vars => HandlerShape'
<1> SUFFICES ASSUME IInv, [Next]_vars PROVE HandlerShape' OBVIOUS
<1> USE DEF IInv, HandlerShape, shared, server, sockets
<1>1. CASE UNCHANGED <<pc, target, clientOpen, backendOpen>>
  BY <1>1
<1>2. CASE Signal \/ CloseListener \/ AcceptError \/ WaitDone \/ Terminating \/ UNCHANGED vars
  BY <1>1, <1>2 DEF Signal, CloseListener, AcceptError, WaitDone, Terminating, vars
<1>3. ASSUME NEW c \in Clients, Accept(c) PROVE HandlerShape'
  BY <1>3 DEF Accept, Goto, Holding, TypeOK
<1>4. ASSUME NEW c \in Clients, NEW d \in Directions, RelayReturn(c, d) PROVE HandlerShape'
  BY <1>1, <1>4 DEF RelayReturn
<1>5. ASSUME NEW c \in Clients, Handler(c) PROVE HandlerShape'
  <2>1. CASE Select(c)
    <3>1. PICK i \in Chosen : target' = [target EXCEPT ![c] = backends[i]]
      BY <2>1 DEF Select
    <3>2. backends[i] \in Addr
      BY <3>1 DEF Chosen, Tied, TypeOK
    <3> QED BY <2>1, <3>1, <3>2 DEF Select, Goto, Holding, TypeOK
  <2>2. CASE SelectNone(c) \/ Dial(c) \/ DialFail(c)
    BY <2>2 DEF SelectNone, Dial, DialFail, Goto, Holding, TypeOK
  <2>3. CASE SendAssignment(c) \/ SendFails(c) \/ FirstDone(c)
    BY <2>3 DEF SendAssignment, SendFails, FirstDone, Goto, Holding, TypeOK
  <2>4. CASE CloseBackend(c) \/ Release(c)
    BY <2>4 DEF CloseBackend, Release, Goto, Holding, TypeOK
  <2>5. CASE CloseClient(c) \/ HandlerDone(c)
    BY <2>5 DEF CloseClient, HandlerDone, Goto, Holding, TypeOK
  <2> QED BY <1>5, <2>1, <2>2, <2>3, <2>4, <2>5 DEF Handler
<1> QED BY <1>2, <1>3, <1>4, <1>5 DEF Next

(* The inductive invariant holds in every reachable state.                 *)
THEOREM Invariance == Safety => []IInv
<1>1. IInv /\ [Next]_vars => IInv'
  BY TypeStep, CountsStep, WgStep, ShapeStep DEF IInv
<1> QED BY InitIInv, <1>1, PTL DEF Safety

-----------------------------------------------------------------------------
(* The variables keep their types.                                         *)
THEOREM TypeCorrect == Safety => []TypeOK
<1>1. IInv => TypeOK
  BY DEF IInv
<1> QED BY Invariance, <1>1, PTL

(* Each counter is the number of sessions between their selectBackend and  *)
(* their releaseBackend.                                                   *)
THEOREM CountsExact == Safety => []CountsMatchHolders
<1>1. IInv => CountsMatchHolders
  BY DEF IInv
<1> QED BY Invariance, <1>1, PTL

(* No backend has more open connections than its counter says.             *)
THEOREM OpenNeverExceedsCount == Safety => []OpenSessionsCounted
<1>1. IInv => OpenSessionsCounted
  <2> SUFFICES ASSUME IInv, NEW a \in Addr
               PROVE  Cardinality({c \in backendOpen : target[c] = a}) <= activeConnections[a]
    BY DEF OpenSessionsCounted
  <2>1. {c \in backendOpen : target[c] = a} \subseteq Holders(a)
    BY DEF IInv, TypeOK, HandlerShape, Holders, Holding
  <2>2. IsFiniteSet(Holders(a)) /\ activeConnections[a] = Cardinality(Holders(a))
    BY HandlersFinite DEF IInv, CountsMatchHolders
  <2> QED BY <2>1, <2>2, FS_Subset
<1> QED BY Invariance, <1>1, PTL

(* A handler that has ended has closed both its sockets.                   *)
THEOREM SocketsClosed == Safety => []NoSocketLeak
<1>1. IInv => NoSocketLeak
  BY DEF IInv, HandlerShape, NoSocketLeak
<1> QED BY Invariance, <1>1, PTL

(* When Serve returns, every session has ended and none is counted.        *)
THEOREM ShutdownDrains == Safety => []DrainedOnReturn
<1>1. IInv => DrainedOnReturn
  <2> SUFFICES ASSUME IInv, serve = "returned" PROVE DrainedOnReturn
    BY DEF DrainedOnReturn
  <2>1. Running = {} /\ \A c \in Clients : pc[c] = "idle"
    BY DEF IInv, Drained, Running
  <2>2. clientOpen = {} /\ backendOpen = {}
    BY <2>1 DEF IInv, TypeOK, HandlerShape
  <2>3. ASSUME NEW a \in Addr PROVE activeConnections[a] = 0
    <3>1. Holders(a) = {}
      BY <2>1 DEF Holders, Holding
    <3> QED BY <3>1, FS_EmptySet DEF IInv, CountsMatchHolders
  <2> QED BY <2>1, <2>2, <2>3 DEF DrainedOnReturn
<1> QED BY Invariance, <1>1, PTL

-----------------------------------------------------------------------------
(* The address that selectBackend chooses has a minimal counter.           *)
LEMMA ChosenMinimal ==
  ASSUME TypeOK, NEW i \in Chosen
  PROVE  /\ backends[i] \in Pool
         /\ backends[i] \in Addr
         /\ \A b \in Pool : activeConnections[backends[i]] <= activeConnections[b]
BY DEF Chosen, Tied, Pool, Range, TypeOK

(* Whatever the other handlers do, a difference of two backends grows      *)
(* beyond one session only when the lighter one loses a session.           *)
THEOREM NeverWidens == Safety => SelectNeverWidens
<1> DEFINE Gap(a, b) == activeConnections[a] - activeConnections[b]
<1>1. ASSUME IInv, [Next]_vars, NEW a \in Pool, NEW b \in Pool,
             activeConnections'[a] - activeConnections'[b] > Gap(a, b),
             activeConnections'[a] - activeConnections'[b] > 1
      PROVE  activeConnections'[b] < activeConnections[b]
  <2> USE DEF IInv, shared, server, sockets
  <2>0. TypeOK /\ HandlerShape /\ activeConnections \in [Addr -> Nat]
    BY <1>1 DEF TypeOK
  <2>a. a \in Addr /\ b \in Addr
    BY <2>0 DEF TypeOK, Pool, Range
  <2>1. activeConnections' # activeConnections
    <3> SUFFICES ASSUME activeConnections' = activeConnections PROVE FALSE OBVIOUS
    <3>1. activeConnections[a] \in Int /\ activeConnections[b] \in Int
      BY <2>0, <2>a
    <3> QED BY <1>1, <3>1
  <2>2. PICK c \in Clients : Select(c) \/ Release(c)
    BY <1>1, <2>1
       DEF Next, Signal, CloseListener, AcceptError, WaitDone, Terminating, vars, Accept,
           RelayReturn, Handler, SelectNone, Dial, DialFail, SendAssignment, SendFails,
           FirstDone, CloseBackend, CloseClient, HandlerDone
  <2>3. CASE Select(c)
    <3>1. PICK i \in Chosen :
            activeConnections' = [activeConnections EXCEPT ![backends[i]] = @ + 1]
      BY <2>3 DEF Select
    <3>2. /\ backends[i] \in Addr
          /\ activeConnections[backends[i]] <= activeConnections[b]
      BY <1>1, <2>0, <3>1, ChosenMinimal
    <3> QED BY <1>1, <2>0, <2>a, <3>1, <3>2
  <2>4. CASE Release(c)
    <3>1. target[c] \in Addr
      BY <2>0, <2>4 DEF Release, Goto, HandlerShape, Holding
    <3>2. activeConnections' = [activeConnections EXCEPT ![target[c]] =
                                  IF activeConnections[target[c]] > 0
                                  THEN activeConnections[target[c]] - 1
                                  ELSE activeConnections[target[c]]]
      BY <2>4 DEF Release
    <3>3. activeConnections[target[c]] \in Nat /\ activeConnections[a] \in Nat
          /\ activeConnections[b] \in Nat
      BY <2>0, <2>a, <3>1
    <3>4. activeConnections'[a] <= activeConnections[a]
      BY <2>0, <2>a, <3>1, <3>2, <3>3
    <3>5. CASE b = target[c]
      BY <1>1, <2>0, <2>a, <3>2, <3>3, <3>4, <3>5
    <3>6. CASE b # target[c]
      BY <1>1, <2>0, <2>a, <3>2, <3>3, <3>4, <3>6
    <3> QED BY <3>5, <3>6
  <2> QED BY <2>2, <2>3, <2>4
<1>2. IInv /\ [Next]_vars =>
        [\A a, b \in Pool :
           LET gap == activeConnections[a] - activeConnections[b]
           IN  (activeConnections'[a] - activeConnections'[b] > gap
                  /\ activeConnections'[a] - activeConnections'[b] > 1)
               => activeConnections'[b] < activeConnections[b]]_vars
  BY <1>1
<1> QED BY Invariance, <1>2, PTL DEF Safety, SelectNeverWidens

-----------------------------------------------------------------------------
(* Disjoint parts of a finite set, each with at least k members, have no   *)
(* more than all its members between them: the pairs of a part and a       *)
(* number up to k are mapped into the set one to one.                      *)
LEMMA FamilySize ==
  ASSUME NEW P, IsFiniteSet(P), NEW H, IsFiniteSet(H), NEW k \in Nat,
         NEW part \in [P -> SUBSET H],
         \A a, b \in P : a # b => part[a] \cap part[b] = {},
         \A a \in P : Cardinality(part[a]) >= k
  PROVE  Cardinality(P) * k <= Cardinality(H)
<1> DEFINE Count(a) == CHOOSE g : g \in Bijection(1 .. Cardinality(part[a]), part[a])
           G == [x \in P \X (1 .. k) |-> Count(x[1])[x[2]]]
<1>1. ASSUME NEW a \in P
      PROVE  /\ Count(a) \in [1 .. Cardinality(part[a]) -> part[a]]
             /\ \A i, j \in 1 .. Cardinality(part[a]) : Count(a)[i] = Count(a)[j] => i = j
  <2>1. IsFiniteSet(part[a]) BY FS_Subset
  <2>2. Count(a) \in Bijection(1 .. Cardinality(part[a]), part[a])
    BY <2>1, FS_CardinalityType DEF ExistsBijection
  <2> HIDE DEF Count
  <2> QED BY <2>2 DEF Bijection, Injection, IsInjective
<1> HIDE DEF Count
<1>2. ASSUME NEW a \in P PROVE Cardinality(part[a]) \in Nat /\ 1 .. k \subseteq 1 .. Cardinality(part[a])
  BY FS_Subset, FS_CardinalityType
<1>3. ASSUME NEW a \in P, NEW i \in 1 .. k PROVE Count(a)[i] \in part[a]
  BY <1>1, <1>2
<1>4. G \in [P \X (1 .. k) -> H]
  BY <1>3
<1>5. ASSUME NEW x \in P \X (1 .. k), NEW y \in P \X (1 .. k), G[x] = G[y] PROVE x = y
  <2>1. /\ x[1] \in P /\ x[2] \in 1 .. k /\ x = <<x[1], x[2]>>
        /\ y[1] \in P /\ y[2] \in 1 .. k /\ y = <<y[1], y[2]>>
    OBVIOUS
  <2>2. Count(x[1])[x[2]] = Count(y[1])[y[2]] BY <1>5
  <2>3. x[1] = y[1] BY <1>3, <2>1, <2>2
  <2>4. x[2] = y[2] BY <1>1, <1>2, <2>1, <2>2, <2>3
  <2> QED BY <2>1, <2>3, <2>4
<1>6. G \in Injection(P \X (1 .. k), H)
  <2> HIDE DEF G
  <2> QED BY <1>4, <1>5 DEF Injection, IsInjective
<1>7. IsFiniteSet(1 .. k) /\ Cardinality(1 .. k) = k BY FS_Interval
<1>8. Cardinality(P \X (1 .. k)) = Cardinality(P) * k BY <1>7, FS_Product
<1>9. Cardinality(P \X (1 .. k)) <= Cardinality(H)
  <2> HIDE DEF G
  <2> QED BY <1>6, FS_Injection
<1> QED BY <1>8, <1>9

LEMMA PoolFinite == ASSUME TypeOK PROVE IsFiniteSet(Pool)
<1>1. backends \in Surjection(DOMAIN backends, Pool)
  BY DEF TypeOK, Pool, Range, Surjection
<1>2. IsFiniteSet(DOMAIN backends) BY FS_Interval DEF TypeOK
<1> QED BY <1>1, <1>2, FS_Surjection

(* The clients between their selectBackend and their releaseBackend.       *)
Held == {c \in Clients : pc[c] \in Holding}

(* No client is given a backend that carries more than the mean number of  *)
(* sessions of the pool: what selectBackend compares is the least of all.  *)
ChosenBelowMean ==
  \A i \in Chosen : Cardinality(Pool) * activeConnections[backends[i]] <= Cardinality(Held)

(* selectBackend gives no client a backend of more than the mean load, for *)
(* every list of backends and whatever the round-robin cursor is.          *)
THEOREM BelowMean == Safety => []ChosenBelowMean
<1>1. ASSUME IInv, NEW i \in Chosen
      PROVE  Cardinality(Pool) * activeConnections[backends[i]] <= Cardinality(Held)
  <2> DEFINE least == activeConnections[backends[i]]
             part == [a \in Pool |-> Holders(a)]
  <2>1. TypeOK /\ CountsMatchHolders BY <1>1 DEF IInv
  <2>2. /\ Pool \subseteq Addr /\ backends[i] \in Addr
        /\ \A b \in Pool : least <= activeConnections[b]
    BY <2>1, ChosenMinimal DEF TypeOK, Pool, Range
  <2>3. least \in Nat BY <2>1, <2>2 DEF TypeOK
  <2>4. IsFiniteSet(Held) BY ClientsAssumption, FS_Subset DEF Held
  <2>5. part \in [Pool -> SUBSET Held] BY DEF Holders, Held
  <2>6. \A a, b \in Pool : a # b => part[a] \cap part[b] = {} BY DEF Holders
  <2>7. \A a \in Pool : Cardinality(part[a]) >= least
    BY <2>1, <2>2 DEF CountsMatchHolders
  <2>8. IsFiniteSet(Pool) BY <2>1, PoolFinite
  <2> HIDE DEF least, part
  <2>9. Cardinality(Pool) * least <= Cardinality(Held)
    BY <2>3, <2>4, <2>5, <2>6, <2>7, <2>8, FamilySize
  <2> QED BY <2>9 DEF least
<1>2. IInv => ChosenBelowMean BY <1>1 DEF ChosenBelowMean
<1> QED BY Invariance, <1>2, PTL

-----------------------------------------------------------------------------
(* The mapping of LC: a client is assigned what its handler holds.         *)
Assigned == [c \in Clients |-> IF pc[c] \in Holding THEN target[c] ELSE NoBackend]

(* The load of the abstract specification is the counter of the balancer.  *)
LEMMA LoadIsCounter ==
  ASSUME IInv, NEW a \in Addr
  PROVE  LC!Load(a) = activeConnections[a]
<1>1. {c \in Clients : Assigned[c] = a} = Holders(a)
  BY NoBackendAssumption DEF Assigned, Holders
<1> QED BY <1>1 DEF LC!Load, LC!Cardinality, Cardinality, Assigned, IInv, CountsMatchHolders

(* The safety part of the refinement: every step of the balancer is an     *)
(* assignment to a least loaded backend, a release, or invisible.          *)
THEOREM Refinement == Safety => LC!Safety
<1>1. Init => LC!Init
  BY ConfigsAssumption DEF Init, LC!Init, Pool, Range, Holding
<1>2. IInv /\ [Next]_vars => [LC!Next]_LC!vars
  <2> SUFFICES ASSUME IInv, [Next]_vars PROVE LC!Next \/ UNCHANGED LC!vars
    OBVIOUS
  <2> USE DEF IInv, shared, server, sockets
  <2>0. ASSUME UNCHANGED <<backends, Assigned>> PROVE UNCHANGED LC!vars
    BY <2>0 DEF LC!vars, Assigned, Pool
  <2>1. CASE UNCHANGED <<backends, pc, target>>
    BY <2>0, <2>1 DEF Assigned
  <2>2. CASE Signal \/ CloseListener \/ AcceptError \/ WaitDone \/ Terminating \/ UNCHANGED vars
    BY <2>1, <2>2 DEF Signal, CloseListener, AcceptError, WaitDone, Terminating, vars
  <2>3. ASSUME NEW c \in Clients, NEW d \in Directions, RelayReturn(c, d)
        PROVE  UNCHANGED LC!vars
    <3>1. UNCHANGED <<backends, pc, target>>
      BY <2>3 DEF RelayReturn
    <3> QED BY <2>0, <3>1 DEF Assigned
  <2>4. ASSUME NEW c \in Clients, Accept(c) PROVE UNCHANGED LC!vars
    BY <2>0, <2>4 DEF Accept, Goto, Assigned, Holding, TypeOK
  <2>5. ASSUME NEW c \in Clients, Handler(c), ~Select(c), ~Release(c)
        PROVE  UNCHANGED LC!vars
    BY <2>0, <2>5
       DEF Handler, SelectNone, Dial, DialFail, SendAssignment, SendFails, FirstDone,
           CloseBackend, CloseClient, HandlerDone, Goto, Assigned, Holding, TypeOK
  <2>6. ASSUME NEW c \in Clients, Select(c) PROVE LC!Assign(c)
    <3>1. PICK i \in Chosen : target' = [target EXCEPT ![c] = backends[i]]
      BY <2>6 DEF Select
    <3>2. backends[i] \in LC!LeastLoaded
      <4>1. /\ backends[i] \in Pool /\ backends[i] \in Addr
            /\ \A b \in Pool : activeConnections[backends[i]] <= activeConnections[b]
        BY <3>1, ChosenMinimal
      <4>2. \A b \in Pool : b \in Addr
        BY DEF Pool, Range, TypeOK
      <4> QED BY <4>1, <4>2, LoadIsCounter DEF LC!LeastLoaded
    <3>3. Assigned[c] = NoBackend
      BY <2>6 DEF Select, Goto, Assigned, Holding
    <3>4. Assigned' = [Assigned EXCEPT ![c] = backends[i]]
      BY <2>6, <3>1 DEF Select, Goto, Assigned, Holding, TypeOK
    <3>5. Pool' = Pool
      BY <2>6 DEF Select, Pool
    <3> QED BY <3>2, <3>3, <3>4, <3>5 DEF LC!Assign, Assigned
  <2>7. ASSUME NEW c \in Clients, Release(c) PROVE LC!Release(c)
    <3>1. Assigned[c] # NoBackend
      BY <2>7, NoBackendAssumption DEF Release, Goto, Assigned, Holding, HandlerShape
    <3>2. Assigned' = [Assigned EXCEPT ![c] = NoBackend]
      BY <2>7 DEF Release, Goto, Assigned, Holding, TypeOK
    <3>3. Pool' = Pool
      BY <2>7 DEF Release, Pool
    <3> QED BY <3>1, <3>2, <3>3 DEF LC!Release, Assigned
  <2> QED BY <2>2, <2>3, <2>4, <2>5, <2>6, <2>7 DEF Next, LC!Next
<1> QED BY Invariance, <1>1, <1>2, PTL DEF Safety, LC!Safety
=============================================================================
