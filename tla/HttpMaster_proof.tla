-------------------------- MODULE HttpMaster_proof --------------------------
(***************************************************************************)
(* Proofs about HttpMaster for any connections.                            *)
(***************************************************************************)
EXTENDS HttpMaster, TLAPS

Outcomes == {"result", "ValueError", "KeyError", "OverflowError", "cancelled"}

(* The state of every variable that the argument reads has its type.       *)
TypeOK == /\ at \in [Conns -> {"none", "reads", "waits"}]
          /\ answer \in [Conns -> {0, 200, 400, 404, 501}]
          /\ call \in [Conns -> {"none", "queued", "asleep"} \union Outcomes]
          /\ req \in [Conns -> {"page", "unknown", "read", "load", "spawn", "stop", "break"}]
          /\ body \in [Conns -> Bodies]
          /\ drawable \in BOOLEAN

(* A spawn_manual that fails after it has spawned: its rate is a NaN, or a *)
(* load from which it can draw no type was set while it slept.             *)
Excused(c) == req[c] = "spawn" /\ (body[c] = "nan" \/ (body[c] # "named" /\ c \in outdone))

(* While a connection has a call in flight nothing has been answered, a    *)
(* call that has yet to run has changed nothing, and one that has raised   *)
(* only if it is excused.  The one that sleeps can draw its next type, or  *)
(* has been outdone.                                                       *)
InFlight(c) == /\ at[c] = "reads" => call[c] = "none"
               /\ at[c] = "waits" => call[c] # "none"
               /\ call[c] # "none" => answer[c] = 0
               /\ call[c] = "queued" => c \notin touched
               /\ call[c] \in {"ValueError", "KeyError"} /\ c \in touched => Excused(c)
               /\ answer[c] \in {400, 404} /\ c \in touched => Excused(c)
               /\ call[c] = "asleep" => /\ req[c] = "spawn" /\ body[c] # "nan"
                                        /\ drawable \/ body[c] = "named" \/ c \in outdone

(* A browser's connection never holds an unread body.                      *)
Undisturbed == \A c \in Browsers : c \notin garbled /\ answer[c] # 501

IInv == TypeOK /\ (\A c \in Conns : InFlight(c)) /\ Undisturbed

-----------------------------------------------------------------------------
LEMMA Initially == Init => IInv
BY BrowsersAssumption DEF Init, IInv, TypeOK, Outcomes, InFlight, Excused, Bodies, Undisturbed

(* A request is read: it is answered, or handed to the loop as a call.     *)
LEMMA ReadsStep == ASSUME IInv, NEW c \in Conns, Reads(c) PROVE IInv'
<1>1. PICK r \in IF c \in Browsers THEN DashboardRequest ELSE AnyRequest :
        \/ LocalRequest(c, r) \/ PlainCall(c, r)
        \/ BodyCall(c, r) \/ BodyRefused(c, r) \/ GarbledRequest(c, r)
  BY DEF Reads
<1>2. r \in AnyRequest /\ (c \in Browsers => r \in DashboardRequest)
  BY <1>1 DEF DashboardRequest
<1>3. r.route \in {"page", "unknown", "read", "load", "spawn", "stop", "break"} /\ r.body \in Bodies
  BY <1>2 DEF AnyRequest
<1> USE DEF IInv, Received, Respond, Submit
<1>4. TypeOK'
  BY <1>1, <1>3
     DEF TypeOK, Outcomes, Bodies, LocalRequest, PlainCall, BodyCall, BodyRefused, GarbledRequest, calls
<1>5. ASSUME NEW d \in Conns PROVE InFlight(d)'
  BY <1>1, <1>5
     DEF TypeOK, InFlight, Excused, LocalRequest, PlainCall, BodyCall, BodyRefused, GarbledRequest, calls
<1>6. Undisturbed'
  <2>1. c \in Browsers => /\ r.route \in {"load", "spawn"} => r.body \in {"object", "named"}
                          /\ r.route \notin {"load", "spawn"} => r.body = "none"
    BY <1>2 DEF DashboardRequest
  <2>2. ASSUME NEW d \in Browsers PROVE d \notin garbled' /\ answer'[d] # 501
    <3>1. d \in Conns BY BrowsersAssumption
    <3> QED BY <1>1, <2>1, <2>2, <3>1
            DEF TypeOK, Undisturbed, LocalRequest, PlainCall, BodyCall, BodyRefused,
                GarbledRequest, LeftUnread
  <2> QED BY <2>2 DEF Undisturbed
<1> QED BY <1>4, <1>5, <1>6

(* The thread gets the outcome of its call, or gives it up.                *)
LEMMA SettlesStep == ASSUME IInv, NEW c \in Conns, Settles(c) PROVE IInv'
<1> USE DEF IInv, Settles, Answer, AnswerNothing, TimeOut, Respond, Status, calls
<1>1. TypeOK' BY DEF TypeOK, Outcomes
<1>2. ASSUME NEW d \in Conns PROVE InFlight(d)' BY <1>2 DEF TypeOK, InFlight, Excused
<1>3. Undisturbed' BY BrowsersAssumption DEF TypeOK, Undisturbed
<1> QED BY <1>1, <1>2, <1>3

(* A coroutine runs, sleeps, ends or is cancelled.                         *)
LEMMA RunsStep == ASSUME IInv, NEW c \in Conns, Runs(c) \/ Wake(c) PROVE IInv'
<1> USE DEF IInv, Runs, RunPlain, RunSpawn, CancelCall, Wake, Coroutine, Runnable,
            Invalid, Reloads, CanDraw, Untouched, Changes, Ends, FallsAsleep
<1>1. UNCHANGED <<at, req, answer, garbled, body>> OBVIOUS
<1>2. TypeOK' BY <1>1 DEF TypeOK, Outcomes
<1>3. ASSUME NEW d \in Conns PROVE InFlight(d)' BY <1>1, <1>3 DEF TypeOK, InFlight, Excused
<1>4. Undisturbed' BY <1>1 DEF Undisturbed
<1> QED BY <1>2, <1>3, <1>4

(* A connection comes or goes.                                             *)
LEMMA ConnStep == ASSUME IInv, NEW c \in Conns, Connect(c) \/ Disconnect(c) PROVE IInv'
<1> USE DEF IInv, Connect, Disconnect, calls
<1>1. TypeOK' BY DEF TypeOK
<1>2. ASSUME NEW d \in Conns PROVE InFlight(d)' BY <1>2 DEF TypeOK, InFlight, Excused
<1>3. Undisturbed' BY BrowsersAssumption DEF TypeOK, Undisturbed
<1> QED BY <1>1, <1>2, <1>3

(* The main thread takes no part, until it ends everything.                *)
LEMMA MainStep == ASSUME IInv, Signal \/ Main \/ UNCHANGED vars PROVE IInv'
<1> USE DEF IInv
<1>1. CASE Exit
  <2>1. TypeOK' BY <1>1 DEF Exit, TypeOK
  <2>2. ASSUME NEW d \in Conns PROVE InFlight(d)' BY <1>1, <2>2 DEF Exit, TypeOK, InFlight, Excused
  <2>3. Undisturbed' BY <1>1 DEF Exit, Undisturbed
  <2> QED BY <2>1, <2>2, <2>3
<1>2. CASE Signal \/ ServeForeverEnds \/ ServerClosed \/ ControllerDown \/ UNCHANGED vars
  <2>1. UNCHANGED <<at, req, answer, calls, garbled, body>>
    BY <1>2 DEF Signal, ServeForeverEnds, ServerClosed, ControllerDown, vars
  <2> QED BY <2>1 DEF calls, TypeOK, InFlight, Excused, Undisturbed
<1> QED BY <1>1, <1>2 DEF Main

-----------------------------------------------------------------------------
(* The inductive invariant: no answer while a call is in flight, nothing   *)
(* touched before it runs, a reason for each failure after that, and no    *)
(* unread body from a browser.                                             *)
THEOREM Invariance == Spec => []IInv
<1>1. IInv /\ [Next]_vars => IInv'
  BY ReadsStep, SettlesStep, RunsStep, ConnStep, MainStep DEF Next, Terminating
<1> QED BY <1>1, Initially, PTL DEF Spec

(* A call answered with 400 or 404 has not changed the controller, unless  *)
(* it is a spawn_manual with a NaN for a rate, or one that slept while a   *)
(* load was set from which it can draw no type.                            *)
THEOREM RefusedExplained == Spec => []RefusedCallExplained
<1>1. IInv => RefusedCallExplained BY DEF IInv, InFlight, Excused, RefusedCallExplained
<1> QED BY <1>1, Invariance, PTL

(* The dashboard's connections stay in step with their requests.           *)
THEOREM DashboardInStep == Spec => []InStep
<1>1. IInv => InStep BY DEF IInv, Undisturbed, InStep
<1> QED BY <1>1, Invariance, PTL

-----------------------------------------------------------------------------
(* No coroutine sleeps with the lock, the one that sleeps is a             *)
(* spawn_manual, and what has exited has no threads.                       *)
NobodyHolds == /\ locked = {}
               /\ \A c \in Conns : call[c] = "asleep" => req[c] = "spawn"
               /\ main \in {"serving", "shutdown", "draining", "cancelling", "exited"}
               /\ serving => main \in {"serving", "shutdown"}
               /\ main = "exited" => \A c \in Conns : at[c] = "none"

LEMMA NobodyHoldsStep == ASSUME IInv, NobodyHolds, [Next]_vars PROVE NobodyHolds'
<1>1. ASSUME NEW c \in Conns, Reads(c) PROVE NobodyHolds'
  <2>1. PICK r \in IF c \in Browsers THEN DashboardRequest ELSE AnyRequest :
          \/ LocalRequest(c, r) \/ PlainCall(c, r)
          \/ BodyCall(c, r) \/ BodyRefused(c, r) \/ GarbledRequest(c, r)
    BY <1>1 DEF Reads
  <2>2. /\ at[c] = "reads" /\ call[c] = "none"
        /\ UNCHANGED <<master, locked>>
        /\ \E q : req' = [req EXCEPT ![c] = q]
        /\ call' = call \/ call' = [call EXCEPT ![c] = "queued"]
    BY <2>1 DEF LocalRequest, PlainCall, BodyCall, BodyRefused, GarbledRequest, Received,
                Submit, Respond, calls, IInv, InFlight
  <2>3. \A d \in Conns : call'[d] = "asleep" => req'[d] = "spawn"
    BY <2>2 DEF IInv, TypeOK, NobodyHolds
  <2> QED BY <2>2, <2>3 DEF NobodyHolds, master
<1>2. ASSUME NEW c \in Conns, Settles(c) PROVE NobodyHolds'
  BY <1>2 DEF IInv, TypeOK, NobodyHolds, Settles, Answer, AnswerNothing, TimeOut, Respond, master, calls
<1>3. ASSUME NEW c \in Conns, RunPlain(c) \/ RunSpawn(c) \/ CancelCall(c) \/ Wake(c) PROVE NobodyHolds'
  <2>1. UNCHANGED <<main, serving, at, req>> /\ locked' = {}
    BY <1>3 DEF NobodyHolds, RunPlain, RunSpawn, CancelCall, Wake, Coroutine, master
  <2>2. \A d \in Conns : call'[d] = "asleep" => call[d] = "asleep" \/ (d = c /\ req[d] = "spawn")
    BY <1>3 DEF IInv, TypeOK, RunPlain, RunSpawn, CancelCall, Wake, Invalid, Reloads, CanDraw, Untouched, Changes, Ends, FallsAsleep
  <2> QED BY <2>1, <2>2 DEF NobodyHolds
<1>4. ASSUME NEW c \in Conns, Connect(c) \/ Disconnect(c) PROVE NobodyHolds'
  BY <1>4 DEF IInv, TypeOK, NobodyHolds, Connect, Disconnect, master, calls
<1>5. CASE Signal \/ Main \/ UNCHANGED vars
  BY <1>5 DEF IInv, TypeOK, NobodyHolds, Signal, Main, ServeForeverEnds, ServerClosed, ControllerDown,
              Exit, MainGoes, master, calls, vars
<1> QED BY <1>1, <1>2, <1>3, <1>4, <1>5 DEF Next, Runs, Terminating

LEMMA NobodyEverHolds == Spec => []NobodyHolds
<1>1. Init => NobodyHolds BY DEF Init, NobodyHolds
<1> QED BY <1>1, NobodyHoldsStep, Invariance, PTL DEF Spec

(* A spawn_manual that sleeps makes nobody else's call time out: a thread  *)
(* gives up only its own such call, or one that the loop cannot run while  *)
(* it shuts the server down.                                               *)
THEOREM QuickCalls == Spec => QuickCallsInTime
<1>1. ASSUME IInv, NobodyHolds, Next, NEW c \in Conns,
             at[c] = "waits", at'[c] = "none", call[c] \in {"queued", "asleep"}
      PROVE  req[c] = "spawn" \/ main \in {"shutdown", "cancelling"}
  <2>1. main # "exited" BY <1>1 DEF NobodyHolds
  <2>2. ASSUME NEW d \in Conns, Settles(d)
        PROVE  req[c] = "spawn" \/ main \in {"shutdown", "cancelling"}
    <3>1. d = c BY <1>1, <2>2
                DEF IInv, TypeOK, Settles, Answer, AnswerNothing, TimeOut, Respond
    <3>2. ~Runnable(c)
      BY <1>1, <2>2, <3>1 DEF Settles, Answer, AnswerNothing, TimeOut
    <3> QED BY <1>1, <2>1, <3>2 DEF NobodyHolds, Runnable, LoopRuns
  <2>3. ASSUME NEW d \in Conns, Reads(d) PROVE at'[c] # "none"
    <3>1. at[d] = "reads" /\ \E then : at' = [at EXCEPT ![d] = then]
      BY <2>3 DEF Reads, LocalRequest, PlainCall, BodyCall, BodyRefused, GarbledRequest,
                  Received, Submit, Respond
    <3> QED BY <1>1, <3>1 DEF IInv, TypeOK
  <2>4. ASSUME NEW d \in Conns, Connect(d) \/ Disconnect(d) PROVE at'[c] # "none"
    BY <1>1, <2>4 DEF IInv, TypeOK, Connect, Disconnect
  <2>5. ASSUME NEW d \in Conns, Runs(d) \/ Wake(d) PROVE at' = at
    BY <2>5 DEF Runs, RunPlain, RunSpawn, CancelCall, Wake, Coroutine
  <2>6. CASE Signal \/ Main
    BY <1>1, <2>6 DEF Signal, Main, ServeForeverEnds, ServerClosed, ControllerDown, Exit, MainGoes
  <2> QED BY <1>1, <2>2, <2>3, <2>4, <2>5, <2>6 DEF Next, Terminating, vars
<1>2. IInv /\ NobodyHolds /\ [Next]_vars =>
        [\A c \in Conns : at[c] = "waits" /\ at'[c] = "none" /\ call[c] \in {"queued", "asleep"}
                            => req[c] = "spawn" \/ main \in {"shutdown", "cancelling"}]_vars
  BY <1>1
<1> QED BY <1>2, Invariance, NobodyEverHolds, PTL DEF Spec, QuickCallsInTime

-----------------------------------------------------------------------------
(* An answer tells the truth also when it is 200: a request to change the  *)
(* controller that is answered so has been carried out, whether or not its *)
(* coroutine slept in between, and however the process is ending.          *)
Asked(c) == req[c] \in {"load", "spawn", "stop", "break"}

DoneWhatWasAsked ==
  \A c \in Conns : Asked(c) /\ (call[c] = "result" \/ answer[c] = 200) => c \in touched

AnsweredCallsDone == \A c \in Conns : Asked(c) /\ answer[c] = 200 => c \in touched

LEMMA DoneStep == ASSUME IInv, DoneWhatWasAsked, [Next]_vars PROVE DoneWhatWasAsked'
<1> USE DEF DoneWhatWasAsked, Asked
<1>1. ASSUME NEW c \in Conns, Reads(c) PROVE DoneWhatWasAsked'
  <2>1. PICK r \in IF c \in Browsers THEN DashboardRequest ELSE AnyRequest :
          \/ LocalRequest(c, r) \/ PlainCall(c, r)
          \/ BodyCall(c, r) \/ BodyRefused(c, r) \/ GarbledRequest(c, r)
    BY <1>1 DEF Reads
  <2>2. call[c] = "none"
    BY <2>1 DEF IInv, InFlight, LocalRequest, PlainCall, BodyCall, BodyRefused, GarbledRequest,
                Received
  <2>3. \A d \in Conns \ {c} : /\ req'[d] = req[d] /\ call'[d] = call[d] /\ answer'[d] = answer[d]
                               /\ d \in touched => d \in touched'
    BY <2>1 DEF IInv, TypeOK, LocalRequest, PlainCall, BodyCall, BodyRefused, GarbledRequest,
                Received, Submit, Respond, calls
  <2>4. call'[c] # "result" /\ (answer'[c] = 200 => req'[c] = "page")
    BY <2>1, <2>2 DEF IInv, TypeOK, LocalRequest, PlainCall, BodyCall, BodyRefused, GarbledRequest,
                      Received, Submit, Respond, calls
  <2> QED BY <2>3, <2>4
<1>2. ASSUME NEW c \in Conns, Settles(c) PROVE DoneWhatWasAsked'
  BY <1>2 DEF IInv, TypeOK, Settles, Answer, AnswerNothing, TimeOut, Respond, Status, calls
<1>3. ASSUME NEW c \in Conns, Runs(c) \/ Wake(c) PROVE DoneWhatWasAsked'
  <2>1. req' = req /\ answer' = answer /\ touched \subseteq touched'
    BY <1>3 DEF Runs, RunPlain, RunSpawn, CancelCall, Wake, Coroutine, Invalid, Reloads, Untouched, Changes, FallsAsleep
  <2>2. \A d \in Conns \ {c} : call'[d] = call[d]
    BY <1>3 DEF IInv, TypeOK, Runs, RunPlain, RunSpawn, CancelCall, Wake, Coroutine, Invalid, Reloads, CanDraw,
                Untouched, Changes, Ends, FallsAsleep
  <2>3. Asked(c) /\ call'[c] = "result" => c \in touched'
    BY <1>3 DEF IInv, TypeOK, Runs, RunPlain, RunSpawn, CancelCall, Wake, Coroutine, Invalid, Reloads, CanDraw,
                Untouched, Changes, Ends, FallsAsleep
  <2> QED BY <2>1, <2>2, <2>3
<1>4. ASSUME NEW c \in Conns, Connect(c) \/ Disconnect(c) PROVE DoneWhatWasAsked'
  BY <1>4 DEF IInv, TypeOK, Connect, Disconnect, calls
<1>5. CASE Signal \/ Main \/ UNCHANGED vars
  BY <1>5 DEF IInv, TypeOK, Signal, Main, ServeForeverEnds, ServerClosed, ControllerDown,
              Exit, MainGoes, calls, vars
<1> QED BY <1>1, <1>2, <1>3, <1>4, <1>5 DEF Next, Terminating

(* A changing request that is answered with 200 has been carried out on the*)
(* loop: no call that was cancelled or given up is answered so.            *)
THEOREM AnswersTell == Spec => []AnsweredCallsDone
<1>1. Init => DoneWhatWasAsked BY DEF Init, DoneWhatWasAsked, Asked
<1>2. DoneWhatWasAsked => AnsweredCallsDone BY DEF DoneWhatWasAsked, AnsweredCallsDone
<1> QED BY <1>1, <1>2, DoneStep, Invariance, PTL DEF Spec
=============================================================================
