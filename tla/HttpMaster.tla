----------------------------- MODULE HttpMaster -----------------------------
(***************************************************************************)
(* simulator/httpapi.py and async_main of simulator/__main__.py: a thread  *)
(* per HTTP connection hands the calls of the controller to the asyncio    *)
(* loop and waits for them; the thread of that loop also stops the HTTP    *)
(* server and the controller when the process is told to end.              *)
(*                                                                         *)
(* A call that the loop can run is run long before 30 s are over, so a     *)
(* call times out only if it sleeps or cannot be run.  What the calls do   *)
(* to the machines is in module Controller; of what they are given, this   *)
(* module keeps by which of it a spawn_manual fails that has begun: a rate *)
(* that is not a number, and a load from which no type can be drawn.       *)
(***************************************************************************)
EXTENDS FiniteSets

CONSTANTS Conns,   \* connections, used again when their thread has ended
          Browsers \* those on which only the dashboard sends requests

ASSUME BrowsersAssumption == Browsers \subseteq Conns

VARIABLES
  main,     \* where async_main is
  serving,  \* serve_forever accepts connections
  at,       \* what each connection's thread does: reads, waits, or is none
  req,      \* the route of the request it has read last
  answer,   \* the status it has answered to that, 0 if none
  call,     \* the coroutine of that request, and then its outcome
  touched,  \* calls that have changed the state of the controller
  locked,   \* coroutines that sleep with the controller's lock
  garbled,  \* connections with an unread body before the next request
  doomed,   \* coroutines that asyncio.run has cancelled
  body,     \* what a request to spawn has asked for, "none" for the others
  drawable, \* the weights of the load have a finite total
  outdone   \* history: calls during whose sleep the load became undrawable

master == <<main, serving, doomed>>
calls == <<call, touched, locked, drawable, outdone>>
vars == <<master, at, req, answer, calls, garbled, body>>

Init == /\ main = "serving" /\ serving = TRUE
        /\ at = [c \in Conns |-> "none"]
        /\ req = [c \in Conns |-> "page"]
        /\ answer = [c \in Conns |-> 0]
        /\ call = [c \in Conns |-> "none"]
        /\ touched = {} /\ locked = {} /\ garbled = {} /\ doomed = {}
        /\ body = [c \in Conns |-> "none"]
        /\ drawable = TRUE /\ outdone = {}

-----------------------------------------------------------------------------
(* Requests.  A body that is not a JSON object is broken; one that names a *)
(* machine type, or gives a rate that is a NaN, is told from the others.   *)
Bodies == {"none", "object", "named", "nan", "broken"}
AnyRequest == [route : {"page", "unknown", "read", "load", "spawn", "stop", "break"},
               body : Bodies]

(* static/app.js                                                           *)
DashboardRequest ==
  {r \in AnyRequest : /\ r.route # "unknown"
                      /\ r.body \in CASE r.route = "load" -> {"object"}
                                       [] r.route = "spawn" -> {"object", "named"}
                                       [] OTHER -> {"none"}}

-----------------------------------------------------------------------------
(* The thread of a connection.                                             *)

(* A coroutine that a thread has given up belongs to no connection any     *)
(* more; the model keeps it where it is until it has ended.                *)
Connect(c) == /\ serving
              /\ at[c] = "none" /\ call[c] = "none"
              /\ at' = [at EXCEPT ![c] = "reads"]
              /\ answer' = [answer EXCEPT ![c] = 0]
              /\ garbled' = garbled \ {c}
              /\ UNCHANGED <<master, req, calls, body>>

(* The client closes a connection that waits for its next request.         *)
Disconnect(c) == /\ at[c] = "reads"
                 /\ at' = [at EXCEPT ![c] = "none"]
                 /\ UNCHANGED <<master, req, answer, calls, garbled, body>>

(* The status and the body are written; if the client has gone meanwhile   *)
(* the thread ends.                                                        *)
Respond(c, status) == /\ answer' = [answer EXCEPT ![c] = status]
                      /\ \E then \in {"reads", "none"} : at' = [at EXCEPT ![c] = then]

Received(c, r, routes) == /\ at[c] = "reads" /\ c \notin garbled
                          /\ r.route \in routes
                          /\ req' = [req EXCEPT ![c] = r.route]
                          /\ body' = [body EXCEPT ![c] =
                                        IF r.route = "spawn" THEN r.body ELSE "none"]
                          /\ touched' = touched \ {c}
                          /\ outdone' = outdone \ {c}
                          /\ UNCHANGED <<master, locked, drawable>>

(* _call: the coroutine is handed to the loop and the thread waits.        *)
Submit(c) == /\ at' = [at EXCEPT ![c] = "waits"]
             /\ call' = [call EXCEPT ![c] = "queued"]
             /\ answer' = [answer EXCEPT ![c] = 0]

LeftUnread(c, r) == IF r.body = "none" THEN garbled ELSE garbled \union {c}

(* The dashboard, its files, healthz and the machine types need no call,   *)
(* and neither does a path that is not known.                              *)
LocalRequest(c, r) == /\ Received(c, r, {"page", "unknown"})
                      /\ \/ r.route = "page" /\ Respond(c, 200)
                         \/ Respond(c, 404)
                      /\ garbled' = LeftUnread(c, r)
                      /\ UNCHANGED call

(* status, machines, stop_all and break_machine take nothing from a body.  *)
PlainCall(c, r) == /\ Received(c, r, {"read", "stop", "break"})
                   /\ Submit(c)
                   /\ garbled' = LeftUnread(c, r)

(* Wrong: the body of PUT /api/load is read by nobody.                     *)
BodyCallUnread(c, r) == /\ Received(c, r, {"load", "spawn"})
                        /\ Submit(c)
                        /\ garbled' = IF r.route = "load" THEN LeftUnread(c, r) ELSE garbled

(* set_load and spawn_manual take the body, or {} if there is none.        *)
BodyCall(c, r) == /\ Received(c, r, {"load", "spawn"})
                  /\ r.body # "broken"
                  /\ Submit(c)
                  /\ UNCHANGED garbled

(* Without a usable Content-Length the body is not even read.              *)
BodyRefused(c, r) == /\ Received(c, r, {"load", "spawn"})
                     /\ r.body = "broken"
                     /\ Respond(c, 400)
                     /\ garbled' \in {garbled, garbled \union {c}}
                     /\ UNCHANGED call

(* The next request starts in the middle of an unread body: its method is  *)
(* not one the server knows, and the connection is closed.                 *)
GarbledRequest(c, r) == /\ at[c] = "reads" /\ c \in garbled
                        /\ req' = [req EXCEPT ![c] = r.route]
                        /\ answer' = [answer EXCEPT ![c] = 501]
                        /\ at' = [at EXCEPT ![c] = "none"]
                        /\ UNCHANGED <<master, calls, garbled, body>>

Status(outcome) == CASE outcome = "result" -> 200
                     [] outcome = "ValueError" -> 400
                     [] outcome = "KeyError" -> 404

(* _handle_controller_call                                                 *)
Answer(c) == /\ at[c] = "waits"
             /\ call[c] \in {"result", "ValueError", "KeyError"}
             /\ Respond(c, Status(call[c]))
             /\ call' = [call EXCEPT ![c] = "none"]
             /\ UNCHANGED <<master, req, touched, locked, garbled, body, drawable, outdone>>

(* The coroutine was cancelled, or has met a number beyond the floats:     *)
(* nothing catches that, the thread ends.                                  *)
AnswerNothing(c) == /\ at[c] = "waits" /\ call[c] \in {"cancelled", "OverflowError"}
                    /\ at' = [at EXCEPT ![c] = "none"]
                    /\ call' = [call EXCEPT ![c] = "none"]
                    /\ UNCHANGED <<master, req, answer, touched, locked, garbled, body,
                                   drawable, outdone>>

LoopRuns == main \in {"serving", "draining", "cancelling"}

Runnable(c) == LoopRuns /\ call[c] = "queued" /\ locked = {}

(* Wrong: result() has no timeout.                                         *)
WaitForEver(c) == FALSE /\ UNCHANGED vars

(* result(timeout=30) raises TimeoutError, which nothing catches: the      *)
(* connection is closed without an answer and the coroutine goes on.       *)
TimeOut(c) == /\ at[c] = "waits"
              /\ call[c] \in {"queued", "asleep"} /\ ~Runnable(c)
              /\ at' = [at EXCEPT ![c] = "none"]
              /\ UNCHANGED <<master, req, answer, calls, garbled, body>>

-----------------------------------------------------------------------------
(* The coroutines, on the loop.                                            *)

(* The outcome is dropped if the thread has given the call up.             *)
Ends(c, outcome) ==
  call' = [call EXCEPT ![c] = IF at[c] = "waits" THEN outcome ELSE "none"]

Untouched(c, outcome) == Ends(c, outcome) /\ UNCHANGED touched
Changes(c, outcome) == Ends(c, outcome) /\ touched' = touched \union {c}

FallsAsleep(c) == /\ call' = [call EXCEPT ![c] = "asleep"]
                  /\ touched' = touched \union {c}

Coroutine(c) == Runnable(c) /\ UNCHANGED <<master, at, req, answer, garbled, body>>

(* What the parsers of a payload raise.                                    *)
Invalid(c) == \E error \in {"ValueError", "OverflowError"} : Untouched(c, error)

(* set_load replaces the mix, whatever the total of its weights is.        *)
Reloads(c) == /\ Changes(c, "result")
              /\ drawable' \in BOOLEAN
              /\ outdone' = IF drawable' THEN outdone
                            ELSE outdone \union {d \in Conns : call[d] = "asleep"}

(* status and machines; set_load; break_machine; stop_all.                 *)
RunPlain(c) ==
  /\ Coroutine(c)
  /\ \/ req[c] = "load" /\ Reloads(c)
     \/ /\ \/ req[c] = "read" /\ Untouched(c, "result")
           \/ req[c] \in {"break", "stop"} /\ Changes(c, "result")
           \/ req[c] = "load" /\ Invalid(c)
           \/ req[c] = "break" /\ Untouched(c, "KeyError")
        /\ UNCHANGED <<drawable, outdone>>
  /\ UNCHANGED locked

(* _choose_machine_type draws from the load's mix as it is now; a type     *)
(* that the payload names needs no draw.                                   *)
CanDraw(c) == drawable \/ body[c] \in {"named", "nan"}

(* Wrong: the rest of the payload is validated after the first machine.    *)
RunSpawnValidatingLate(c) ==
  /\ Coroutine(c) /\ req[c] = "spawn"
  /\ \/ Changes(c, "ValueError")
     \/ Changes(c, "result")
     \/ FallsAsleep(c)
  /\ UNCHANGED <<locked, drawable, outdone>>

(* Wrong: spawn_manual holds the lock while it sleeps.                     *)
RunSpawnHoldingLock(c) ==
  /\ Coroutine(c) /\ req[c] = "spawn"
  /\ \/ Invalid(c) /\ UNCHANGED locked
     \/ Changes(c, "result") /\ UNCHANGED locked
     \/ FallsAsleep(c) /\ locked' = locked \union {c}
  /\ UNCHANGED <<drawable, outdone>>

(* spawn_manual validates the payload, spawns a machine and sleeps if more *)
(* are to come, for which a rate that is a NaN gives no time.              *)
RunSpawn(c) ==
  /\ Coroutine(c) /\ req[c] = "spawn"
  /\ \/ Invalid(c)
     \/ CanDraw(c) /\ Changes(c, "result")
     \/ CanDraw(c) /\ body[c] # "nan" /\ FallsAsleep(c)
     \/ CanDraw(c) /\ body[c] = "nan" /\ Changes(c, "ValueError")
  /\ UNCHANGED <<locked, drawable, outdone>>

(* The sleep is over: a type is drawn again, and the last machine is       *)
(* spawned if one can be.  Those before it leave the coroutine asleep.     *)
Wake(c) == /\ LoopRuns /\ call[c] = "asleep" /\ c \notin doomed
           /\ Changes(c, IF CanDraw(c) THEN "result" ELSE "ValueError")
           /\ locked' = locked \ {c}
           /\ UNCHANGED <<master, at, req, answer, garbled, body, drawable, outdone>>

-----------------------------------------------------------------------------
(* async_main                                                              *)

MainGoes(from, to) == main = from /\ main' = to

(* httpd.shutdown() is called on the thread of the loop and keeps it until *)
(* serve_forever has returned.                                             *)
Signal == /\ MainGoes("serving", "shutdown")
          /\ UNCHANGED <<serving, doomed, at, req, answer, calls, garbled, body>>

ServeForeverEnds == /\ main = "shutdown" /\ serving
                    /\ serving' = FALSE
                    /\ UNCHANGED <<main, doomed, at, req, answer, calls, garbled, body>>

(* Wrong: the threads of the connections are no daemons, so server_close   *)
(* waits for them.                                                         *)
ServerClosedJoining == /\ MainGoes("shutdown", "draining") /\ ~serving
                       /\ \A c \in Conns : at[c] = "none"
                       /\ UNCHANGED <<serving, doomed, at, req, answer, calls, garbled, body>>

ServerClosed == /\ MainGoes("shutdown", "draining") /\ ~serving
                /\ UNCHANGED <<serving, doomed, at, req, answer, calls, garbled, body>>

(* controller.shutdown() returns, and asyncio.run cancels what is left.    *)
ControllerDown == /\ MainGoes("draining", "cancelling")
                  /\ doomed' = {c \in Conns : call[c] = "asleep"}
                  /\ UNCHANGED <<serving, at, req, answer, calls, garbled, body>>

CancelCall(c) == /\ main = "cancelling" /\ c \in doomed
                 /\ Ends(c, "cancelled")
                 /\ doomed' = doomed \ {c}
                 /\ locked' = locked \ {c}
                 /\ UNCHANGED <<main, serving, at, req, answer, touched, garbled, body, drawable, outdone>>

(* The process ends, and every thread with it.                             *)
Exit == /\ MainGoes("cancelling", "exited") /\ doomed = {}
        /\ at' = [c \in Conns |-> "none"]
        /\ call' = [c \in Conns |-> "none"]
        /\ UNCHANGED <<serving, doomed, req, answer, touched, locked, garbled, body, drawable, outdone>>

-----------------------------------------------------------------------------
Reads(c) == \E r \in IF c \in Browsers THEN DashboardRequest ELSE AnyRequest :
              \/ LocalRequest(c, r) \/ PlainCall(c, r)
              \/ BodyCall(c, r) \/ BodyRefused(c, r) \/ GarbledRequest(c, r)

Runs(c) == RunPlain(c) \/ RunSpawn(c) \/ CancelCall(c)
Settles(c) == Answer(c) \/ AnswerNothing(c) \/ TimeOut(c)
Main == ServeForeverEnds \/ ServerClosed \/ ControllerDown \/ Exit

Terminating == main = "exited" /\ UNCHANGED vars

Next == \/ \E c \in Conns : \/ Connect(c) \/ Disconnect(c) \/ Reads(c)
                            \/ Settles(c) \/ Runs(c) \/ Wake(c)
        \/ Signal \/ Main \/ Terminating

(* The loop, the thread that stops the process and the waits of at most    *)
(* 30 s go on.  Clients owe nothing, nobody has to send a signal, and a    *)
(* spawn_manual call may sleep for as long as it likes.                    *)
Spec == /\ Init /\ [][Next]_vars
        /\ WF_vars(Main)
        /\ \A c \in Conns : WF_vars(Runs(c)) /\ WF_vars(Settles(c))
-----------------------------------------------------------------------------
(* Told to end, the process ends, whatever connections stay open and       *)
(* whatever calls sleep.                                                   *)
MasterExits == main = "shutdown" ~> main = "exited"

(* No connection's thread waits for the controller for ever, however the   *)
(* end of the process and a sleeping spawn_manual cross its call.          *)
CallsSettle == \A c \in Conns : at[c] = "waits" ~> at[c] # "waits"

(* A long spawn_manual delays nobody else: only its own call times out, or *)
(* one that finds the loop stopped by httpd.shutdown().                    *)
QuickCallsInTime ==
  [][\A c \in Conns : at[c] = "waits" /\ at'[c] = "none" /\ call[c] \in {"queued", "asleep"}
                        => req[c] = "spawn" \/ main \in {"shutdown", "cancelling"}]_vars

(* A call that is refused has changed nothing, although set_load and       *)
(* spawn_manual validate on one side of their first change only.  The      *)
(* exceptions are two: a spawn_manual that draws its types has slept while *)
(* a load was set from which none can be drawn, or its rate is a NaN, by   *)
(* which it finds no time to sleep.                                        *)
RefusedCallExplained ==
  \A c \in Conns : answer[c] \in {400, 404} /\ c \in touched =>
    req[c] = "spawn" /\ (body[c] = "nan" \/ (body[c] # "named" /\ c \in outdone))

(* What the dashboard sends keeps its connections in step: no request is   *)
(* read from the middle of the body of the one before.                     *)
InStep == \A c \in Browsers : answer[c] # 501
=============================================================================
