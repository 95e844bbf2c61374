---------------------------- MODULE Backend_proof ----------------------------
(***************************************************************************)
(* Proofs about Backend for any finite set of connections and any lines.   *)
(***************************************************************************)
EXTENDS Backend, FiniteSetTheorems, TLAPS

LoopSteps == {"start", "accept", "open", "track", "spawn", "returned"}
Settling == {"open", "track", "spawn"}
Steps == {"new", "incoming", "read", "untrack", "remove", "close", "leave", "gone"}
Exits == {"none", "done", "error", "eof"}

(* The state of every variable has its type.                               *)
TypeOK == /\ loop \in LoopSteps
          /\ incoming \in SUBSET Conns /\ conns \in SUBSET Conns
          /\ toClose \in SUBSET Conns /\ started \in SUBSET Conns
          /\ pc \in [Conns -> Steps] /\ exit \in [Conns -> Exits]
          /\ Listed \in SUBSET Conns
          /\ registered \in BOOLEAN /\ sawListener \in BOOLEAN

(* The connection that Serve has in hand.                                  *)
InHand == /\ \A c \in Conns : c \in incoming <=> pc[c] = "incoming"
          /\ \A c, d \in incoming : c = d
          /\ incoming # {} <=> loop \in Settling

(* What the step of a handler tells about its exit, its flag and the store. *)
Shape(c) == /\ exit[c] = "none" <=> pc[c] \in {"new", "incoming", "read"}
            /\ c \in started => pc[c] \notin {"new", "incoming"}
            /\ pc[c] = "read" => (c \in started <=> c \in Listed)
            /\ c \in Listed => pc[c] \in {"read", "untrack", "remove"} /\ exit[c] # "done"

Shapes == \A c \in Conns : Shape(c)

(* s.wg counts the handlers that run.                                      *)
Running == {c \in Conns : pc[c] \in {"read", "untrack", "remove", "close", "leave"}}
Counted == wg = Cardinality(Running)

(* Once Shutdown has closed the listener, nothing is accepted any more.    *)
ListenerClosed ==
  sawListener /\ shutdown \notin {"none", "closeListener"} => ~listening

SInv == TypeOK /\ InHand /\ Shapes
IInv == SInv /\ Counted /\ CountersTellOutcomes /\ ListenerClosed /\ AtMostOneStraggler

-----------------------------------------------------------------------------
(* The steps of one connection's handler, with any line.                   *)
LineStep(c) == \E m \in Lines : \/ BeginSession(c, m) \/ UpdateTelemetry(c, m)
                                \/ CompleteSession(c, m) \/ Reject(c, m)

ConnStep(c) == EndOfInput(c) \/ HandlerEnd(c) \/ LineStep(c)

ShutStep == Snapshot \/ ShutdownStep \/ ShutdownExpired

LEMMA StepCases ==
  ASSUME [Next]_vars
  PROVE  \/ ServeStep \/ ShutStep \/ UNCHANGED vars
         \/ \E c \in Conns : Accept(c) \/ PeerLeaves(c) \/ ConnStep(c)
BY DEF Next, ShutStep, ConnStep, LineStep, Terminating

-----------------------------------------------------------------------------
(* Types, the connection in hand and the shapes.                           *)

LEMMA InitSInv == Init => SInv
<1> SUFFICES ASSUME Init PROVE SInv OBVIOUS
<1>1. TypeOK BY DEF Init, TypeOK, LoopSteps, Steps, Exits, Listed
<1>2. InHand BY DEF Init, InHand, Settling
<1>3. Shapes BY DEF Init, Shapes, Shape, Listed
<1> QED BY <1>1, <1>2, <1>3 DEF SInv

(* A step that leaves the connections alone.                               *)
LEMMA ShutKeeps == ASSUME SInv, ShutStep \/ UNCHANGED vars PROVE SInv'
<1>1. /\ UNCHANGED <<loop, incoming, registered, conns, pc, exit, started, sessions>>
      /\ toClose' \in SUBSET Conns /\ sawListener' \in BOOLEAN
  <2>1. CASE Snapshot
    BY <2>1 DEF Snapshot, serveVars, handlerVars, store, SInv, TypeOK
  <2>2. CASE ShutdownStep \/ ShutdownExpired \/ UNCHANGED vars
    BY <2>2 DEF ShutdownStep, CloseListener, CloseConn, AllClosed, ShutdownClean, ShutdownExpired,
                vars, serveVars, shutVars, handlerVars, store, SInv, TypeOK
  <2> QED BY <2>1, <2>2 DEF ShutStep
<1> QED BY <1>1 DEF SInv, TypeOK, InHand, Shapes, Shape, Listed

LEMMA ServeKeeps == ASSUME SInv, ServeStep PROVE SInv'
<1>1. CASE Register \/ AcceptClosed \/ OpenConnection
  BY <1>1 DEF Register, AcceptClosed, OpenConnection, serveVars, shutVars, handlerVars, store,
              SInv, TypeOK, InHand, Shapes, Shape, Listed, LoopSteps, Settling
<1>2. CASE TrackConnection
  BY <1>2 DEF TrackConnection, shutVars, handlerVars, store,
              SInv, TypeOK, InHand, Shapes, Shape, Listed, LoopSteps, Settling
<1>3. CASE Spawn
  <2>1. TypeOK' BY <1>3 DEF Spawn, shutVars, store, SInv, TypeOK, Listed, LoopSteps, Steps
  <2>2. InHand' BY <1>3 DEF Spawn, SInv, TypeOK, InHand, Settling
  <2>3. Shapes' BY <1>3 DEF Spawn, store, SInv, TypeOK, InHand, Shapes, Shape, Listed
  <2> QED BY <2>1, <2>2, <2>3 DEF SInv
<1> QED BY <1>1, <1>2, <1>3 DEF ServeStep

LEMMA AcceptKeeps == ASSUME SInv, NEW c \in Conns, Accept(c) PROVE SInv'
<1>1. TypeOK' BY DEF Accept, shutVars, store, SInv, TypeOK, Listed, LoopSteps, Steps
<1>2. InHand'
  <2>1. incoming = {} BY DEF Accept, SInv, InHand, Settling
  <2> QED BY <2>1 DEF Accept, SInv, TypeOK, InHand, Settling
<1>3. Shapes' BY DEF Accept, store, SInv, TypeOK, Shapes, Shape, Listed
<1> QED BY <1>1, <1>2, <1>3 DEF SInv

(* A handler moves to another of its steps, and keeps to the others'.      *)
LEMMA ConnKeeps == ASSUME SInv, NEW c \in Conns, ConnStep(c) PROVE SInv'
<1>1. pc[c] \in {"read", "untrack", "remove", "close", "leave"}
  BY DEF ConnStep, EndOfInput, HandlerEnd, Untrack, RemoveConnection, Close, Done,
         LineStep, BeginSession, UpdateTelemetry, CompleteSession, Reject
<1>2. /\ UNCHANGED <<loop, incoming, registered, toClose, sawListener>>
      /\ conns' \in SUBSET Conns
  BY DEF ConnStep, EndOfInput, HandlerEnd, Untrack, RemoveConnection, Close, Done,
         LineStep, BeginSession, UpdateTelemetry, CompleteSession, Reject,
         serveVars, shutVars, SInv, TypeOK
<1>3. /\ pc' \in [Conns -> Steps] /\ exit' \in [Conns -> Exits]
      /\ \A d \in Conns \ {c} : pc'[d] = pc[d] /\ exit'[d] = exit[d]
      /\ pc'[c] \notin {"new", "incoming"}
      /\ started' \in {started, started \union {c}}
      /\ Listed' \in {Listed, Listed \union {c}, Listed \ {c}}
      /\ Shape(c)'
  <2>1. CASE \E m \in Lines : BeginSession(c, m)
    BY <2>1 DEF BeginSession, With, SInv, TypeOK, Shapes, Shape, Listed
  <2>2. CASE \E m \in Lines : UpdateTelemetry(c, m)
    BY <2>2 DEF UpdateTelemetry, handlerVars, SInv, TypeOK, Shapes, Shape, Listed
  <2>3. CASE \E m \in Lines : CompleteSession(c, m)
    BY <2>3 DEF CompleteSession, Leave, Without, SInv, TypeOK, Shapes, Shape, Listed, Steps, Exits
  <2>4. CASE \E m \in Lines : Reject(c, m)
    BY <2>4 DEF Reject, Leave, SInv, TypeOK, Shapes, Shape, Listed, Steps, Exits
  <2>5. CASE EndOfInput(c)
    BY <2>5 DEF EndOfInput, Leave, store, SInv, TypeOK, Shapes, Shape, Listed, Steps, Exits
  <2>6. CASE Untrack(c) \/ Close(c) \/ Done(c)
    BY <2>6 DEF Untrack, Close, Done, store, SInv, TypeOK, Shapes, Shape, Listed, Steps
  <2>7. CASE RemoveConnection(c)
    BY <2>7 DEF RemoveConnection, Without, SInv, TypeOK, Shapes, Shape, Listed, Steps
  <2> QED BY <2>1, <2>2, <2>3, <2>4, <2>5, <2>6, <2>7 DEF ConnStep, LineStep, HandlerEnd
<1>4. TypeOK' BY <1>2, <1>3 DEF SInv, TypeOK
<1>5. InHand' BY <1>1, <1>2, <1>3 DEF SInv, InHand
<1>6. Shapes' BY <1>3 DEF SInv, Shapes, Shape
<1> QED BY <1>4, <1>5, <1>6 DEF SInv

LEMMA StepSInv == SInv /\ [Next]_vars => SInv'
<1> SUFFICES ASSUME SInv, [Next]_vars PROVE SInv' OBVIOUS
<1>1. ASSUME NEW c \in Conns, PeerLeaves(c) PROVE SInv'
  BY <1>1 DEF PeerLeaves, serveVars, shutVars, handlerVars, store,
              SInv, TypeOK, InHand, Shapes, Shape, Listed
<1> QED BY <1>1, StepCases, ShutKeeps, ServeKeeps, AcceptKeeps, ConnKeeps

-----------------------------------------------------------------------------
(* Counting.  Every set that is counted is finite.                         *)

Ended(why) == {c \in Conns : exit[c] = why}
Busy == {c \in Conns : pc[c] \notin {"new", "gone"}}

LEMMA Finite ==
  ASSUME NEW S \in SUBSET Conns
  PROVE  IsFiniteSet(S) /\ Cardinality(S) \in Nat
BY ConnsAssumption, FS_Subset, FS_CardinalityType

(* One connection more, and one less.                                      *)
LEMMA OneMore ==
  ASSUME NEW S \in SUBSET Conns, NEW c \in Conns \ S
  PROVE  Cardinality(S \union {c}) = Cardinality(S) + 1
BY Finite, FS_AddElement

LEMMA OneLess ==
  ASSUME NEW S \in SUBSET Conns, NEW c \in S
  PROVE  Cardinality(S \ {c}) = Cardinality(S) - 1
BY Finite, FS_RemoveElement

(* The connection that Serve has in hand is one.                           *)
LEMMA InHandIsOne ==
  ASSUME SInv, loop \in Settling
  PROVE  \E c \in Conns : incoming = {c} /\ pc[c] = "incoming"
BY DEF SInv, TypeOK, InHand

Counts == Counted /\ CountersTellOutcomes

LEMMA InitCounts == Init => Counts
<1> SUFFICES ASSUME Init PROVE Counts OBVIOUS
<1>1. /\ Running = {} /\ Opened = {}
      /\ {c \in Conns : exit[c] = "done"} = {} /\ {c \in Conns : exit[c] = "error"} = {}
  BY DEF Init, Running, Opened
<1>2. wg = 0 /\ accepted = 0 /\ completed = 0 /\ errors = 0 BY DEF Init
<1> QED BY <1>1, <1>2, FS_EmptySet DEF Counts, Counted, CountersTellOutcomes

(* A step that changes none of the sets and none of the counters.          *)
LEMMA SameCounts ==
  ASSUME Counts, Running' = Running, Opened' = Opened,
         Ended("done")' = Ended("done"), Ended("error")' = Ended("error"),
         UNCHANGED <<wg, accepted, completed, errors>>
  PROVE  Counts'
BY DEF Counts, Counted, CountersTellOutcomes, Ended

LEMMA ServeCounts == ASSUME SInv, Counts, ServeStep PROVE Counts'
<1>1. Ended("done")' = Ended("done") /\ Ended("error")' = Ended("error")
      /\ UNCHANGED <<completed, errors>>
  BY DEF ServeStep, Register, AcceptClosed, OpenConnection, TrackConnection, Spawn,
         handlerVars, store, counters, Ended
<1>2. CASE Register \/ AcceptClosed \/ TrackConnection
  <2>1. Running' = Running /\ Opened' = Opened /\ UNCHANGED <<wg, accepted>>
    BY <1>2 DEF Register, AcceptClosed, TrackConnection, handlerVars, store, counters, Running, Opened
  <2> QED BY <1>1, <2>1, SameCounts
<1>3. CASE OpenConnection
  <2>1. PICK c \in Conns : incoming = {c} /\ pc[c] = "incoming"
    BY <1>3, InHandIsOne DEF OpenConnection, Settling
  <2>2. Running' = Running /\ wg' = wg BY <1>3 DEF OpenConnection, handlerVars, Running
  <2>3. Opened' = Opened \union {c} /\ c \notin Opened /\ Opened \in SUBSET Conns
    BY <1>3, <2>1 DEF OpenConnection, handlerVars, Opened
  <2>4. accepted' = Cardinality(Opened')
    BY <1>3, <2>3, OneMore DEF OpenConnection, Counts, CountersTellOutcomes
  <2> QED BY <1>1, <2>2, <2>4 DEF Counts, Counted, CountersTellOutcomes, Ended
<1>4. CASE Spawn
  <2>1. PICK c \in Conns : incoming = {c} /\ pc[c] = "incoming"
    BY <1>4, InHandIsOne DEF Spawn, Settling
  <2>2. Opened' = Opened /\ accepted' = accepted
    BY <1>4, <2>1 DEF Spawn, store, counters, SInv, TypeOK, Opened
  <2>3. Running' = Running \union {c} /\ c \notin Running /\ Running \in SUBSET Conns
    BY <1>4, <2>1 DEF Spawn, Running
  <2>4. wg' = Cardinality(Running') BY <1>4, <2>3, OneMore DEF Spawn, Counts, Counted
  <2> QED BY <1>1, <2>2, <2>4 DEF Counts, Counted, CountersTellOutcomes, Ended
<1> QED BY <1>2, <1>3, <1>4 DEF ServeStep

LEMMA AcceptCounts == ASSUME SInv, Counts, NEW c \in Conns, Accept(c) PROVE Counts'
<1>1. Running' = Running BY DEF Accept, SInv, TypeOK, Running
<1>2. Opened' = Opened BY DEF Accept, SInv, TypeOK, InHand, Settling, Opened
<1> QED BY <1>1, <1>2, SameCounts DEF Accept, store, counters, Ended

(* A handler leaves its loop with an outcome, which is counted once.       *)
LEMMA OutcomeCounts ==
  ASSUME SInv, Counts, NEW c \in Conns, NEW m \in Lines, CompleteSession(c, m) \/ Reject(c, m)
  PROVE  Counts'
<1>1. exit[c] = "none" BY DEF CompleteSession, Reject, SInv, Shapes, Shape
<1>2. /\ Running' = Running /\ Opened' = Opened /\ UNCHANGED <<wg, accepted>>
  BY DEF CompleteSession, Reject, Leave, serveVars, SInv, TypeOK, Running, Opened
<1>3. CASE CompleteSession(c, m)
  <2>1. /\ Ended("done")' = Ended("done") \union {c} /\ Ended("error")' = Ended("error")
        /\ errors' = errors /\ completed' = completed + 1
    BY <1>1, <1>3 DEF CompleteSession, Leave, SInv, TypeOK, Ended
  <2>2. completed' = Cardinality(Ended("done")')
    BY <1>1, <2>1, OneMore DEF Ended, Counts, CountersTellOutcomes
  <2> QED BY <1>2, <2>1, <2>2 DEF Counts, Counted, CountersTellOutcomes, Ended
<1>4. CASE Reject(c, m)
  <2>1. /\ Ended("error")' = Ended("error") \union {c} /\ Ended("done")' = Ended("done")
        /\ completed' = completed /\ errors' = errors + 1
    BY <1>1, <1>4 DEF Reject, Leave, SInv, TypeOK, Ended
  <2>2. errors' = Cardinality(Ended("error")')
    BY <1>1, <2>1, OneMore DEF Ended, Counts, CountersTellOutcomes
  <2> QED BY <1>2, <2>1, <2>2 DEF Counts, Counted, CountersTellOutcomes, Ended
<1> QED BY <1>3, <1>4

LEMMA ConnCounts == ASSUME SInv, Counts, NEW c \in Conns, ConnStep(c) PROVE Counts'
<1>1. CASE \E m \in Lines : CompleteSession(c, m) \/ Reject(c, m)
  BY <1>1, OutcomeCounts
<1>2. CASE \E m \in Lines : BeginSession(c, m) \/ UpdateTelemetry(c, m)
  BY <1>2, SameCounts DEF BeginSession, UpdateTelemetry, serveVars, handlerVars, counters,
                          Running, Opened, Ended
<1>3. CASE EndOfInput(c)
  <2>1. exit[c] = "none" BY <1>3 DEF EndOfInput, SInv, Shapes, Shape
  <2>2. /\ Running' = Running /\ Opened' = Opened
        /\ Ended("done")' = Ended("done") /\ Ended("error")' = Ended("error")
    BY <1>3, <2>1 DEF EndOfInput, Leave, serveVars, SInv, TypeOK, Running, Opened, Ended
  <2> QED BY <1>3, <2>2, SameCounts DEF EndOfInput, store, counters
<1>4. CASE Untrack(c) \/ RemoveConnection(c) \/ Close(c)
  <2>1. Running' = Running /\ Opened' = Opened
    BY <1>4 DEF Untrack, RemoveConnection, Close, serveVars, SInv, TypeOK, Running, Opened
  <2> QED BY <1>4, <2>1, SameCounts
          DEF Untrack, RemoveConnection, Close, serveVars, store, counters, Ended
<1>5. CASE Done(c)
  <2>1. Opened' = Opened BY <1>5 DEF Done, serveVars, SInv, TypeOK, Opened
  <2>2. /\ Running' = Running \ {c} /\ c \in Running /\ Running \in SUBSET Conns
    BY <1>5 DEF Done, SInv, TypeOK, Running
  <2>3. wg' = Cardinality(Running') BY <1>5, <2>2, OneLess DEF Done, Counts, Counted
  <2> QED BY <1>5, <2>1, <2>3 DEF Done, store, counters, Counts, Counted, CountersTellOutcomes, Ended
<1> QED BY <1>1, <1>2, <1>3, <1>4, <1>5 DEF ConnStep, LineStep, HandlerEnd

LEMMA StepCounts == SInv /\ Counts /\ [Next]_vars => Counts'
<1> SUFFICES ASSUME SInv, Counts, [Next]_vars PROVE Counts' OBVIOUS
<1>1. CASE ShutStep \/ UNCHANGED vars
  <2>1. UNCHANGED <<loop, incoming, pc, exit, wg, accepted, completed, errors>>
    BY <1>1 DEF ShutStep, Snapshot, ShutdownStep, CloseListener, CloseConn, AllClosed, ShutdownClean,
                ShutdownExpired, vars, serveVars, handlerVars, store, counters
  <2> QED BY <2>1, SameCounts DEF Running, Opened, Ended
<1>2. ASSUME NEW c \in Conns, PeerLeaves(c) PROVE Counts'
  BY <1>2, SameCounts DEF PeerLeaves, serveVars, handlerVars, store, counters, Running, Opened, Ended
<1> QED BY <1>1, <1>2, StepCases, ServeCounts, AcceptCounts, ConnCounts

-----------------------------------------------------------------------------
(* Shutdown.                                                               *)

(* The listener stays closed: only Shutdown touches it, and only once.     *)
LEMMA StepListener == ListenerClosed /\ [Next]_vars => ListenerClosed'
<1> SUFFICES ASSUME ListenerClosed, [Next]_vars PROVE ListenerClosed' OBVIOUS
<1>1. CASE ShutStep \/ UNCHANGED vars
  BY <1>1 DEF ShutStep, Snapshot, ShutdownStep, CloseListener, CloseConn, AllClosed, ShutdownClean,
              ShutdownExpired, vars, serveVars, shutVars, ListenerClosed
<1>2. CASE ServeStep
  BY <1>2 DEF ServeStep, Register, AcceptClosed, OpenConnection, TrackConnection, Spawn,
              shutVars, ListenerClosed
<1>3. ASSUME NEW c \in Conns, Accept(c) \/ PeerLeaves(c) \/ ConnStep(c) PROVE ListenerClosed'
  BY <1>3 DEF Accept, PeerLeaves, ConnStep, EndOfInput, HandlerEnd, Untrack, RemoveConnection, Close,
              Done, LineStep, BeginSession, UpdateTelemetry, CompleteSession, Reject,
              serveVars, shutVars, ListenerClosed
<1> QED BY <1>1, <1>2, <1>3, StepCases

(* When s.wg is zero nothing runs, so at most the connection in hand is    *)
(* left.                                                                   *)
LEMMA NoneRuns ==
  ASSUME SInv, Counted, wg = 0
  PROVE  Cardinality(Busy) <= 1
<1>1. Running = {} BY Finite, FS_EmptySet DEF Counted, Running
<1>2. Busy = incoming BY <1>1 DEF Busy, Running, SInv, TypeOK, InHand, Steps
<1>3. CASE incoming = {} BY <1>2, <1>3, FS_EmptySet
<1>4. CASE incoming # {}
  <2>1. PICK c \in Conns : incoming = {c} BY <1>4, InHandIsOne DEF SInv, InHand
  <2>2. Cardinality({c}) = 1 BY FS_Singleton
  <2> QED BY <1>2, <2>1, <2>2
<1> QED BY <1>3, <1>4

(* Nothing but Accept makes another connection busy.                       *)
LEMMA BusyShrinks ==
  ASSUME SInv, [Next]_vars, \A c \in Conns : ~Accept(c)
  PROVE  Busy' \in SUBSET Busy
<1>1. CASE ShutStep \/ UNCHANGED vars
  BY <1>1 DEF ShutStep, Snapshot, ShutdownStep, CloseListener, CloseConn, AllClosed, ShutdownClean,
              ShutdownExpired, vars, handlerVars, Busy
<1>2. CASE ServeStep
  BY <1>2 DEF ServeStep, Register, AcceptClosed, OpenConnection, TrackConnection, Spawn,
              handlerVars, Busy, SInv, TypeOK, InHand
<1>3. ASSUME NEW c \in Conns, PeerLeaves(c) \/ ConnStep(c) PROVE Busy' \in SUBSET Busy
  BY <1>3 DEF PeerLeaves, ConnStep, EndOfInput, HandlerEnd, Untrack, RemoveConnection, Close,
              Done, LineStep, BeginSession, UpdateTelemetry, CompleteSession, Reject, Leave,
              handlerVars, Busy, SInv, TypeOK
<1> QED BY <1>1, <1>2, <1>3, StepCases

(* Shutdown returns nil once, by ShutdownClean.                            *)
LEMMA CleanOnce ==
  ASSUME [Next]_vars, shutdown' = "clean"
  PROVE  \/ ShutdownClean
         \/ shutdown = "clean" /\ sawListener' = sawListener
<1>1. CASE ShutStep \/ UNCHANGED vars
  BY <1>1 DEF ShutStep, Snapshot, ShutdownStep, CloseListener, CloseConn, AllClosed,
              ShutdownExpired, vars, shutVars
<1>2. CASE ServeStep
  BY <1>2 DEF ServeStep, Register, AcceptClosed, OpenConnection, TrackConnection, Spawn, shutVars
<1>3. ASSUME NEW c \in Conns, Accept(c) \/ PeerLeaves(c) \/ ConnStep(c)
      PROVE  UNCHANGED shutVars
  BY <1>3 DEF Accept, PeerLeaves, ConnStep, EndOfInput, HandlerEnd, Untrack, RemoveConnection, Close,
              Done, LineStep, BeginSession, UpdateTelemetry, CompleteSession, Reject
<1> QED BY <1>1, <1>2, <1>3, StepCases DEF shutVars

LEMMA StepStraggler == IInv /\ [Next]_vars => AtMostOneStraggler'
<1> SUFFICES ASSUME IInv, [Next]_vars, shutdown' = "clean", sawListener'
             PROVE  Cardinality(Busy') <= 1
  BY DEF AtMostOneStraggler, Busy
<1>1. CASE ShutdownClean
  <2>1. Busy' = Busy BY <1>1 DEF ShutdownClean, handlerVars, Busy
  <2> QED BY <1>1, <2>1, NoneRuns DEF ShutdownClean, IInv
<1>2. CASE shutdown = "clean" /\ sawListener' = sawListener
  <2>1. \A c \in Conns : ~Accept(c) BY <1>2 DEF Accept, IInv, ListenerClosed
  <2>2. Busy' \in SUBSET Busy BY <2>1, BusyShrinks DEF IInv
  <2>3. Cardinality(Busy) <= 1 BY <1>2 DEF IInv, AtMostOneStraggler, Busy
  <2>4. Busy \in SUBSET Conns BY DEF Busy
  <2>5. Cardinality(Busy') <= Cardinality(Busy) BY <2>2, <2>4, Finite, FS_Subset
  <2> QED BY <2>2, <2>3, <2>4, <2>5, Finite
<1> QED BY <1>1, <1>2, CleanOnce

-----------------------------------------------------------------------------
(* The inductive invariant: the types, at most one connection in hand, the *)
(* shape of each handler, exact counters, and the listener's end.          *)
THEOREM Invariance == Spec => []IInv
<1>1. Init => IInv
  <2>1. Init => ListenerClosed /\ AtMostOneStraggler
    BY DEF Init, ListenerClosed, AtMostOneStraggler
  <2> QED BY <2>1, InitSInv, InitCounts DEF IInv, Counts
<1>2. IInv /\ [Next]_vars => IInv'
  BY StepSInv, StepCounts, StepListener, StepStraggler DEF IInv, Counts
<1> QED BY <1>1, <1>2, PTL DEF Spec, Safety

(* The store never refuses what handleConnection asks of it.               *)
THEOREM StoreAgrees == Spec => []StoreNeverRefuses
<1>1. IInv => StoreNeverRefuses BY DEF IInv, SInv, Shapes, Shape, StoreNeverRefuses
<1> QED BY <1>1, Invariance, PTL

(* The three counters of the status API count each connection once.        *)
THEOREM CountersExact == Spec => []CountersTellOutcomes
<1>1. IInv => CountersTellOutcomes BY DEF IInv
<1> QED BY <1>1, Invariance, PTL

(* A clean shutdown leaves at most the connection that Serve had in hand.  *)
THEOREM OneStraggler == Spec => []AtMostOneStraggler
<1>1. IInv => AtMostOneStraggler BY DEF IInv
<1> QED BY <1>1, Invariance, PTL

-----------------------------------------------------------------------------
(* Backend implements SessionLifecycle.                                    *)

(* A step of another connection's handler leaves a connection's phase.     *)
LEMMA OthersKeepPhase ==
  ASSUME SInv, NEW c \in Conns, Accept(c) \/ ConnStep(c), NEW d \in Conns \ {c}
  PROVE  Phase(d)' = Phase(d)
<1>1. /\ pc'[d] = pc[d] /\ exit'[d] = exit[d]
      /\ d \in Listed' <=> d \in Listed
  BY DEF Accept, ConnStep, EndOfInput, HandlerEnd, Untrack, RemoveConnection, Close, Done,
         LineStep, BeginSession, UpdateTelemetry, CompleteSession, Reject, Leave,
         handlerVars, store, Listed, With, Without, SInv, TypeOK
<1> QED BY <1>1 DEF Phase

(* The moves of a connection whose handler takes a step.                   *)
LEMMA PhaseMoves ==
  ASSUME SInv, NEW c \in Conns, Accept(c) \/ ConnStep(c)
  PROVE  \/ Phase(c)' = Phase(c)
         \/ Phase(c) = "fresh" /\ Phase(c)' = "open"
         \/ Phase(c) = "open" /\ Phase(c)' \in {"active", "rejected", "dropped"}
         \/ Phase(c) = "active" /\ Phase(c)' \in {"completed", "failed", "dropped"}
         \/ Phase(c) = "failed" /\ Phase(c)' = "rejected"
<1>1. CASE Accept(c)
  BY <1>1 DEF Accept, store, SInv, TypeOK, Shapes, Shape, Listed, Phase
<1>2. CASE \E m \in Lines : BeginSession(c, m)
  BY <1>2 DEF BeginSession, With, SInv, TypeOK, Shapes, Shape, Listed, Phase
<1>3. CASE \E m \in Lines : UpdateTelemetry(c, m)
  BY <1>3 DEF UpdateTelemetry, handlerVars, SInv, TypeOK, Listed, Phase
<1>4. CASE \E m \in Lines : CompleteSession(c, m)
  BY <1>4 DEF CompleteSession, Leave, Without, SInv, TypeOK, Shapes, Shape, Listed, Phase
<1>5. CASE \E m \in Lines : Reject(c, m)
  BY <1>5 DEF Reject, Leave, SInv, TypeOK, Shapes, Shape, Listed, Phase
<1>6. CASE EndOfInput(c)
  BY <1>6 DEF EndOfInput, Leave, store, SInv, TypeOK, Shapes, Shape, Listed, Phase
<1>7. CASE Untrack(c) \/ Close(c) \/ Done(c)
  BY <1>7 DEF Untrack, Close, Done, store, SInv, TypeOK, Listed, Phase
<1>8. CASE RemoveConnection(c)
  BY <1>8 DEF RemoveConnection, Without, SInv, TypeOK, Shapes, Shape, Listed, Phase, Exits
<1> QED BY <1>1, <1>2, <1>3, <1>4, <1>5, <1>6, <1>7, <1>8 DEF ConnStep, LineStep, HandlerEnd

LEMMA PhaseStep ==
  SInv /\ [Next]_vars => [Lifecycle!Next]_([c \in Conns |-> Phase(c)])
<1> DEFINE phase == [c \in Conns |-> Phase(c)]
<1> SUFFICES ASSUME SInv, [Next]_vars PROVE [Lifecycle!Next]_phase OBVIOUS
<1>1. ASSUME NEW c \in Conns, Accept(c) \/ ConnStep(c) PROVE [Lifecycle!Next]_phase
  <2>1. phase' = [phase EXCEPT ![c] = Phase(c)'] BY <1>1, OthersKeepPhase
  <2>2. CASE Phase(c)' = Phase(c)
    <3>1. phase' = phase BY <2>1, <2>2
    <3> QED BY <3>1
  <2>3. CASE Phase(c) = "fresh" /\ Phase(c)' = "open"
    BY <2>1, <2>3 DEF Lifecycle!Next, Lifecycle!Open, Lifecycle!Move
  <2>4. CASE Phase(c) = "open" /\ Phase(c)' \in {"active", "rejected", "dropped"}
    BY <2>1, <2>4 DEF Lifecycle!Next, Lifecycle!Begin, Lifecycle!Reject, Lifecycle!Drop, Lifecycle!Move
  <2>5. CASE Phase(c) = "active" /\ Phase(c)' \in {"completed", "failed", "dropped"}
    BY <2>1, <2>5 DEF Lifecycle!Next, Lifecycle!Complete, Lifecycle!Reject, Lifecycle!Drop, Lifecycle!Move
  <2>6. CASE Phase(c) = "failed" /\ Phase(c)' = "rejected"
    BY <2>1, <2>6 DEF Lifecycle!Next, Lifecycle!Clear, Lifecycle!Move
  <2> QED BY <1>1, <2>2, <2>3, <2>4, <2>5, <2>6, PhaseMoves
<1>2. CASE ServeStep
  <2>1. \A c \in Conns : Phase(c)' = Phase(c)
    BY <1>2 DEF ServeStep, Register, AcceptClosed, OpenConnection, TrackConnection, Spawn,
                handlerVars, store, SInv, TypeOK, InHand, Shapes, Shape, Listed, Phase
  <2> QED BY <2>1
<1>3. CASE ShutStep \/ UNCHANGED vars
  <2>1. UNCHANGED <<pc, exit, sessions>>
    BY <1>3 DEF ShutStep, Snapshot, ShutdownStep, CloseListener, CloseConn, AllClosed, ShutdownClean,
                ShutdownExpired, vars, handlerVars, store
  <2> QED BY <2>1 DEF Phase, Listed
<1>4. CASE \E c \in Conns : PeerLeaves(c)
  <2>1. UNCHANGED <<pc, exit, sessions>> BY <1>4 DEF PeerLeaves, handlerVars, store
  <2> QED BY <2>1 DEF Phase, Listed
<1> QED BY <1>1, <1>2, <1>3, <1>4, StepCases

(* The backend implements the safety part of SessionLifecycle for any      *)
(* number of connections: each has one session at most and ends in one     *)
(* outcome.                                                                *)
THEOREM Refinement == Spec => Lifecycle!Safety
<1>1. Init => Lifecycle!Init
  BY DEF Init, Lifecycle!Init, Phase, Listed
<1>2. IInv => SInv BY DEF IInv
<1> QED BY <1>1, <1>2, Invariance, PhaseStep, PTL DEF Spec, Safety, Lifecycle!Safety

-----------------------------------------------------------------------------
(* What a handler leaves behind.  s.conns holds the connections from       *)
(* trackConnection to untrackConnection, and only those.                   *)
Tracked(c) == pc[c] \in {"read", "untrack"} \/ (pc[c] = "incoming" /\ loop = "spawn")

Tracks == \A c \in Conns : /\ c \in conns <=> Tracked(c)
                           /\ pc[c] \in {"leave", "gone"} => c \in sockClosed

LEMMA StepTracks == SInv /\ Tracks /\ [Next]_vars => Tracks'
<1> SUFFICES ASSUME SInv, Tracks, [Next]_vars PROVE Tracks' OBVIOUS
<1> USE DEF SInv, TypeOK, InHand, Settling, Tracks, Tracked
<1>1. CASE ShutStep \/ UNCHANGED vars
  BY <1>1 DEF ShutStep, Snapshot, ShutdownStep, CloseListener, CloseConn, AllClosed, ShutdownClean,
              ShutdownExpired, vars, serveVars, handlerVars
<1>2. CASE ServeStep
  BY <1>2 DEF ServeStep, Register, AcceptClosed, OpenConnection, TrackConnection, Spawn,
              handlerVars
<1>3. ASSUME NEW c \in Conns, Accept(c) \/ PeerLeaves(c) PROVE Tracks'
  BY <1>3 DEF Accept, PeerLeaves, serveVars, handlerVars
<1>4. ASSUME NEW c \in Conns, EndOfInput(c) \/ HandlerEnd(c) PROVE Tracks'
  BY <1>4 DEF EndOfInput, Leave, HandlerEnd, Untrack, RemoveConnection, Close, Done, serveVars
<1>5. ASSUME NEW c \in Conns, LineStep(c) PROVE Tracks'
  BY <1>5 DEF LineStep, BeginSession, UpdateTelemetry, CompleteSession, Reject, Leave,
              serveVars, handlerVars
<1> QED BY <1>1, <1>2, <1>3, <1>4, <1>5, StepCases DEF ConnStep

(* A handler that is gone has left nothing: its connection is closed, no   *)
(* longer tracked for Shutdown, and its session is not listed.  And where  *)
(* all have come to rest, s.wg is at zero and the status API shows none.   *)
NothingLeftBehind ==
  /\ \A c \in Conns : pc[c] = "gone" => c \notin conns /\ c \notin Listed /\ c \in sockClosed
  /\ Resting => conns = {} /\ Listed = {} /\ wg = 0

(* What handleConnection defers is done on every way out of it: no path    *)
(* leaves a socket, an entry of s.conns or a listed session behind.        *)
THEOREM HandlersCleanUp == Spec => []NothingLeftBehind
<1>1. Init => Tracks BY DEF Init, Tracks, Tracked
<1>2. IInv /\ Tracks /\ [Next]_vars => Tracks' BY StepTracks DEF IInv
<1>3. ASSUME IInv, Tracks PROVE NothingLeftBehind
  <2> USE <1>3 DEF IInv, SInv, TypeOK, Tracks, Tracked
  <2>1. \A c \in Conns : pc[c] \in {"new", "gone"} => c \notin conns /\ c \notin Listed
    BY DEF Shapes, Shape
  <2>2. ASSUME Resting PROVE conns = {} /\ Listed = {} /\ wg = 0
    <3>1. \A c \in Conns : pc[c] \in {"new", "gone"} BY <2>2 DEF Resting
    <3>2. Running = {} BY <3>1 DEF Running
    <3> QED BY <2>1, <3>1, <3>2, FS_EmptySet DEF Counted
  <2> QED BY <2>1, <2>2 DEF NothingLeftBehind
<1> QED BY <1>1, <1>2, <1>3, Invariance, PTL DEF Spec, Safety

-----------------------------------------------------------------------------
(* What the status API shows of a session.                                 *)
Session == [machine : Machines, reporter : Machines,
            status : {"connected", "running"}, telemetry : 0 .. MaxTelemetry]

Presentable(x) == /\ x \in Session
                  /\ x.status = "connected" <=> x.telemetry = 0
                  /\ x.telemetry = 0 => x.reporter = x.machine

AllPresentable == \A c \in Listed : Presentable(sessions[c])

(* A session that stays listed is the same session, one report further at  *)
(* most.                                                                   *)
SameSession(c) == c \in Listed /\ c \in Listed' =>
                    /\ sessions'[c].machine = sessions[c].machine
                    /\ \/ sessions'[c] = sessions[c]
                       \/ sessions'[c].telemetry = sessions[c].telemetry + 1

SameSessions == \A c \in Conns : SameSession(c)

LEMMA MachineOfLine ==
  ASSUME NEW m \in Lines, m # Garbage, Valid(m) PROVE m.machine \in Machines
<1>1. m \in Message BY LinesAssumption
<1> QED BY <1>1 DEF Message, Valid

(* Lines change the session of their own connection, in these ways.        *)
LEMMA SessionsStep ==
  ASSUME SInv, [Next]_vars
  PROVE  \/ sessions' = sessions
         \/ \E c \in Conns : sessions' = Without(sessions, c)
         \/ \E c \in Conns \ Listed, i \in Machines :
              sessions' = With(sessions, c, [machine |-> i, reporter |-> i,
                                             status |-> "connected", telemetry |-> 0])
         \/ \E c \in Listed, i \in Machines :
              /\ sessions[c].telemetry < MaxTelemetry
              /\ sessions' = [sessions EXCEPT ![c].reporter = i, ![c].status = "running",
                                              ![c].telemetry = @ + 1]
<1>1. CASE ShutStep \/ ServeStep \/ UNCHANGED vars
  BY <1>1 DEF ShutStep, Snapshot, ShutdownStep, CloseListener, CloseConn, AllClosed, ShutdownClean,
              ShutdownExpired, ServeStep, Register, AcceptClosed, OpenConnection, TrackConnection,
              Spawn, vars, store
<1>2. ASSUME NEW c \in Conns, Accept(c) \/ PeerLeaves(c) \/ EndOfInput(c) \/ HandlerEnd(c)
      PROVE  sessions' = sessions \/ sessions' = Without(sessions, c)
  BY <1>2 DEF Accept, PeerLeaves, EndOfInput, HandlerEnd, Untrack, RemoveConnection, Close, Done,
              store
<1>3. ASSUME NEW c \in Conns, NEW m \in Lines, CompleteSession(c, m) \/ Reject(c, m)
      PROVE  sessions' = sessions \/ sessions' = Without(sessions, c)
  BY <1>3 DEF CompleteSession, Reject
<1>4. ASSUME NEW c \in Conns, NEW m \in Lines, BeginSession(c, m)
      PROVE  \E d \in Conns \ Listed, i \in Machines :
               sessions' = With(sessions, d, [machine |-> i, reporter |-> i,
                                              status |-> "connected", telemetry |-> 0])
  BY <1>4, MachineOfLine DEF BeginSession
<1>5. ASSUME NEW c \in Conns, NEW m \in Lines, UpdateTelemetry(c, m)
      PROVE  \E d \in Listed, i \in Machines :
               /\ sessions[d].telemetry < MaxTelemetry
               /\ sessions' = [sessions EXCEPT ![d].reporter = i, ![d].status = "running",
                                               ![d].telemetry = @ + 1]
  BY <1>5, MachineOfLine DEF UpdateTelemetry
<1> QED BY <1>1, <1>2, <1>3, <1>4, <1>5, StepCases DEF ConnStep, LineStep

(* A session that has been reported once more.                             *)
LEMMA Reported ==
  ASSUME NEW x \in Session, x.telemetry < MaxTelemetry, NEW i \in Machines, NEW y,
         y = [x EXCEPT !.reporter = i, !.status = "running", !.telemetry = @ + 1]
  PROVE  Presentable(y) /\ y.machine = x.machine /\ y.telemetry = x.telemetry + 1
<1>1. x.telemetry \in Nat /\ x.telemetry + 1 \in 0 .. MaxTelemetry
  BY MaxTelemetryAssumption DEF Session
<1>2. y.machine = x.machine BY DEF Session
<1>3. y.telemetry = x.telemetry + 1 BY DEF Session
<1>4. y.status = "running" BY DEF Session
<1>5. y \in Session BY <1>1 DEF Session
<1> QED BY <1>1, <1>2, <1>3, <1>4, <1>5 DEF Presentable

LEMMA PresentableStep ==
  ASSUME SInv, AllPresentable, [Next]_vars PROVE AllPresentable' /\ SameSessions
<1> USE DEF AllPresentable, Listed
<1>1. CASE sessions' = sessions BY <1>1 DEF SameSessions, SameSession
<1>2. CASE \E c \in Conns : sessions' = Without(sessions, c)
  <2>1. \A d \in Listed' : d \in Listed /\ sessions'[d] = sessions[d] BY <1>2 DEF Without
  <2> QED BY <2>1 DEF SameSessions, SameSession
<1>3. ASSUME NEW c \in Conns \ Listed, NEW i \in Machines,
             sessions' = With(sessions, c, [machine |-> i, reporter |-> i,
                                            status |-> "connected", telemetry |-> 0])
      PROVE  AllPresentable' /\ SameSessions
  <2> DEFINE s == [machine |-> i, reporter |-> i, status |-> "connected", telemetry |-> 0]
  <2>1. Presentable(s) BY MaxTelemetryAssumption DEF Presentable, Session
  <2> HIDE DEF s
  <2>2. sessions'[c] = s /\ \A d \in Listed' : d = c \/ (d \in Listed /\ sessions'[d] = sessions[d])
    BY <1>3 DEF With, s
  <2> QED BY <2>1, <2>2 DEF SameSessions, SameSession
<1>4. ASSUME NEW c \in Listed, NEW i \in Machines, sessions[c].telemetry < MaxTelemetry,
             sessions' = [sessions EXCEPT ![c].reporter = i, ![c].status = "running",
                                          ![c].telemetry = @ + 1]
      PROVE  AllPresentable' /\ SameSessions
  <2>1. sessions[c] \in Session BY DEF Presentable
  <2>2. /\ Listed' = Listed /\ \A d \in Listed \ {c} : sessions'[d] = sessions[d]
        /\ sessions'[c] = [sessions[c] EXCEPT !.reporter = i, !.status = "running",
                                              !.telemetry = @ + 1]
    BY <1>4
  <2>3. /\ Presentable(sessions'[c])
        /\ sessions'[c].machine = sessions[c].machine
        /\ sessions'[c].telemetry = sessions[c].telemetry + 1
    <3> DEFINE x == sessions[c]
               y == sessions'[c]
    <3>1. x \in Session /\ x.telemetry < MaxTelemetry BY <1>4, <2>1
    <3>2. y = [x EXCEPT !.reporter = i, !.status = "running", !.telemetry = @ + 1] BY <2>2
    <3> HIDE DEF x, y
    <3>3. Presentable(y) /\ y.machine = x.machine /\ y.telemetry = x.telemetry + 1
      BY <3>1, <3>2, Reported
    <3> QED BY <3>3 DEF x, y
  <2> QED BY <2>2, <2>3 DEF SameSessions, SameSession
<1> QED BY <1>1, <1>2, <1>3, <1>4, SessionsStep

(* What a session is listed as its machine never changes while it is       *)
(* listed, whoever the later lines say they are from; it is "connected"    *)
(* until its first report and then "running"; and the reports are counted  *)
(* one by one.  SessionReportsItsMachine is not true of it, but until its  *)
(* first report a session shows its own machine as the reporter.           *)
SessionsKeepIdentity == [][SameSessions]_vars

(* Once BeginSession has listed a session, UpdateTelemetry only adds to it *)
(* and never changes the machine that it was begun with.                   *)
THEOREM ListedSessions == Spec => []AllPresentable /\ SessionsKeepIdentity
<1>1. Init => AllPresentable BY DEF Init, AllPresentable, Listed
<1>2. IInv /\ AllPresentable /\ [Next]_vars => AllPresentable' /\ [SameSessions]_vars
  BY PresentableStep DEF IInv
<1> QED BY <1>1, <1>2, Invariance, PTL DEF Spec, Safety, SessionsKeepIdentity
=============================================================================
