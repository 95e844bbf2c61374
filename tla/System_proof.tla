---------------------------- MODULE System_proof ----------------------------
(***************************************************************************)
(* Proofs about System for any machines, backends and buffers: what a      *)
(* backend may conclude from the lines that it reads, what becomes of a    *)
(* job's `done`, which sessions the balancer counts, and that the parts    *)
(* work together as they do alone.                                         *)
(***************************************************************************)
EXTENDS System, TLAPS

Tasks == {"none", "open", "talking", "finished", "closed"}
Sessions == {"fresh", "open", "active", "failed", "completed", "rejected", "dropped"}
Links == {"none", "accepted", "dialing", "piped", "closed", "refused"}

(* The state of every variable that the argument reads has its type.       *)
TypeOK == /\ task \in [Machines -> Tasks]
          /\ session \in [Machines -> Sessions]
          /\ link \in [Machines -> Links]
          /\ up \in [Machines -> Seq(Line)] /\ mid \in [Machines -> Seq(Line)]

(* The lines behind the balancer, v, and before it, u, are what is left of *)
(* hello telemetry* done when the session is in phase s and the machine    *)
(* has come as far as t.                                                   *)
Whole(u) == \A i \in 1 .. Len(u) : u[i] # "fragment"

DoneLast(t, u, v) ==
  /\ \A i \in 1 .. Len(u) : u[i] = "done" => i = Len(u) /\ t \in {"finished", "closed"}
  /\ \A i \in 1 .. Len(v) :
       v[i] = "done" => i = Len(v) /\ Len(u) = 0 /\ t \in {"finished", "closed"}

HelloFirst(t, u, v) ==
  /\ \A i \in 1 .. Len(v) : v[i] = "hello" <=> i = 1
  /\ \A i \in 1 .. Len(u) : u[i] = "hello" <=> (i = 1 /\ Len(v) = 0)
  /\ t \in {"none", "open"} => Len(u) = 0 /\ Len(v) = 0
  /\ t \in {"talking", "finished"} => Len(u) > 0 \/ Len(v) > 0

HelloGone(t, u, v) ==
  /\ \A i \in 1 .. Len(u) : u[i] # "hello"
  /\ \A i \in 1 .. Len(v) : v[i] # "hello"
  /\ t \notin {"none", "open"}

WellFormed(t, s, u, v) ==
  /\ Whole(u) /\ Whole(v) /\ DoneLast(t, u, v)
  /\ s \in {"fresh", "open"} => HelloFirst(t, u, v)
  /\ s = "active" => HelloGone(t, u, v)

(* A machine with task t, session s, link l and the lines u and v is       *)
(* honest, and so is what has become of it.                                *)
Honest(t, s, l, u, v) ==
  /\ s \notin {"failed", "rejected"}
  /\ l # "refused"
  /\ l = "closed" => t = "closed" \/ s \in {"completed", "dropped"}
  /\ s \in {"fresh", "open", "active"} => WellFormed(t, s, u, v)

HonestAt(m) == m \notin trouble => Honest(task[m], session[m], link[m], up[m], mid[m])

IInv == TypeOK /\ \A m \in Machines : HonestAt(m)

-----------------------------------------------------------------------------
(* A line that is written goes to the end, one that is relayed from the    *)
(* head of one half to the end of the other, and one that is read leaves.  *)
LEMMA Written ==
  ASSUME NEW t \in Tasks, NEW after \in Tasks, NEW s, NEW u \in Seq(Line), NEW v \in Seq(Line),
         NEW line, WellFormed(t, s, u, v),
         \/ line = "hello" /\ t = "open" /\ after = "talking" /\ s \in {"fresh", "open", "active"}
         \/ line = "telemetry" /\ t = "talking" /\ after = "talking"
         \/ line = "done" /\ t = "talking" /\ after = "finished"
  PROVE  WellFormed(after, s, Append(u, line), v)
<1> DEFINE w == Append(u, line)
<1>1. /\ Len(w) = Len(u) + 1 /\ Len(u) \in Nat /\ Len(v) \in Nat
      /\ \A i \in 1 .. Len(u) : w[i] = u[i]
      /\ w[Len(u) + 1] = line
  OBVIOUS
<1> HIDE DEF w
<1>2. Whole(w) /\ DoneLast(after, w, v)
  BY <1>1 DEF WellFormed, Whole, DoneLast, HelloFirst, HelloGone
<1>3. s \in {"fresh", "open"} => HelloFirst(after, w, v)
  BY <1>1 DEF WellFormed, HelloFirst
<1>4. s = "active" => HelloGone(after, w, v)
  BY <1>1 DEF WellFormed, HelloGone
<1> QED BY <1>2, <1>3, <1>4 DEF w, WellFormed

LEMMA Moved ==
  ASSUME NEW t \in Tasks, NEW s, NEW u \in Seq(Line), NEW v \in Seq(Line),
         WellFormed(t, s, u, v), u # <<>>
  PROVE  WellFormed(t, s, Tail(u), v \o SubSeq(u, 1, 1))
<1> DEFINE w == v \o SubSeq(u, 1, 1)
           x == Tail(u)
<1>1. /\ Len(u) \in Nat \ {0} /\ Len(v) \in Nat
      /\ Len(x) = Len(u) - 1 /\ \A i \in 1 .. Len(u) - 1 : x[i] = u[i + 1]
  OBVIOUS
<1>2. /\ Len(w) = Len(v) + 1
      /\ \A i \in 1 .. Len(v) : w[i] = v[i]
      /\ w[Len(v) + 1] = u[1]
  BY <1>1
<1> HIDE DEF w, x
<1>3. Whole(x) /\ Whole(w)
  <2>1. \A i \in 1 .. Len(w) : i \in 1 .. Len(v) \/ i = Len(v) + 1 BY <1>1, <1>2
  <2> QED BY <1>1, <1>2, <2>1 DEF WellFormed, Whole
<1>4. DoneLast(t, x, w)
  <2>1. ASSUME NEW i \in 1 .. Len(x), x[i] = "done"
        PROVE  i = Len(x) /\ t \in {"finished", "closed"}
    <3>1. i + 1 \in 1 .. Len(u) /\ u[i + 1] = "done" BY <1>1, <2>1
    <3>2. i + 1 = Len(u) /\ t \in {"finished", "closed"} BY <3>1 DEF WellFormed, DoneLast
    <3> QED BY <1>1, <3>2
  <2>2. ASSUME NEW i \in 1 .. Len(w), w[i] = "done"
        PROVE  i = Len(w) /\ Len(x) = 0 /\ t \in {"finished", "closed"}
    <3>1. CASE i \in 1 .. Len(v)
      BY <1>1, <1>2, <2>2, <3>1 DEF WellFormed, DoneLast
    <3>2. CASE i = Len(v) + 1
      <4>1. 1 \in 1 .. Len(u) /\ u[1] = "done" BY <1>1, <1>2, <2>2, <3>2
      <4>2. 1 = Len(u) /\ t \in {"finished", "closed"} BY <4>1 DEF WellFormed, DoneLast
      <4>3. i = Len(w) BY <1>2, <3>2
      <4>4. Len(x) = 0
        <5>1. Len(u) = 1 BY <4>2
        <5>2. Len(x) = Len(u) - 1 BY <1>1
        <5> QED BY <5>1, <5>2
      <4> QED BY <4>2, <4>3, <4>4
    <3> QED BY <1>1, <1>2, <3>1, <3>2
  <2> QED BY <2>1, <2>2 DEF DoneLast
<1>5. s \in {"fresh", "open"} => HelloFirst(t, x, w)
  <2> SUFFICES ASSUME HelloFirst(t, u, v) PROVE HelloFirst(t, x, w) BY DEF WellFormed
  <2>1. \A i \in 1 .. Len(w) : w[i] = "hello" <=> i = 1
    <3> TAKE i \in 1 .. Len(w)
    <3>1. CASE i \in 1 .. Len(v) BY <1>1, <1>2, <3>1 DEF HelloFirst
    <3>2. CASE i = Len(v) + 1
      <4>1. 1 \in 1 .. Len(u) /\ w[i] = u[1] BY <1>1, <1>2, <3>2
      <4>2. u[1] = "hello" <=> Len(v) = 0 BY <4>1 DEF HelloFirst
      <4> QED BY <1>1, <3>2, <4>1, <4>2
    <3> QED BY <1>1, <1>2, <3>1, <3>2
  <2>2. \A i \in 1 .. Len(x) : x[i] # "hello" BY <1>1 DEF HelloFirst
  <2> QED BY <1>1, <1>2, <2>1, <2>2 DEF HelloFirst
<1>6. s = "active" => HelloGone(t, x, w)
  <2> SUFFICES ASSUME HelloGone(t, u, v) PROVE HelloGone(t, x, w) BY DEF WellFormed
  <2>1. \A i \in 1 .. Len(w) : i \in 1 .. Len(v) \/ i = Len(v) + 1 BY <1>1, <1>2
  <2> QED BY <1>1, <1>2, <2>1 DEF HelloGone
<1> QED BY <1>3, <1>4, <1>5, <1>6 DEF w, x, WellFormed

LEMMA Consumed ==
  ASSUME NEW t \in Tasks, NEW s \in {"open", "active"}, NEW u \in Seq(Line), NEW v \in Seq(Line),
         WellFormed(t, s, u, v), v # <<>>
  PROVE  /\ Head(v) # "fragment"
         /\ s = "open" => Head(v) = "hello" /\ WellFormed(t, "active", u, Tail(v))
         /\ s = "active" => Head(v) # "hello" /\ WellFormed(t, "active", u, Tail(v))
<1> DEFINE x == Tail(v)
<1>1. /\ Len(v) \in Nat \ {0} /\ Len(u) \in Nat /\ Head(v) = v[1]
      /\ Len(x) = Len(v) - 1 /\ \A i \in 1 .. Len(v) - 1 : x[i] = v[i + 1]
  OBVIOUS
<1> HIDE DEF x
<1>2. s = "open" => Head(v) = "hello" /\ t \notin {"none", "open"}
  BY <1>1 DEF WellFormed, HelloFirst
<1>3. Head(v) # "fragment" /\ (s = "active" => Head(v) # "hello")
  BY <1>1 DEF WellFormed, Whole, HelloGone
<1>4. Whole(u) /\ Whole(x) /\ DoneLast(t, u, x) BY <1>1 DEF WellFormed, Whole, DoneLast
<1>5. HelloGone(t, u, x)
  <2>1. CASE s = "open" BY <1>1, <1>2, <2>1 DEF WellFormed, HelloFirst, HelloGone
  <2>2. CASE s = "active" BY <1>1, <2>2 DEF WellFormed, HelloGone
  <2> QED BY <2>1, <2>2
<1> QED BY <1>2, <1>3, <1>4, <1>5 DEF x, WellFormed

-----------------------------------------------------------------------------
Step(m) == Machine(m) \/ BalancerGoesOn(m) \/ IdleCut(m) \/ BackendGoesOn(m)
           \/ BackendStops(m) \/ BacklogReset(m)

(* A step of one machine's connection touches no other.                    *)
Frame(m) == /\ \A n \in Machines \ {m} :
                 /\ task'[n] = task[n] /\ session'[n] = session[n] /\ link'[n] = link[n]
                 /\ up'[n] = up[n] /\ mid'[n] = mid[n]
            /\ trouble' \in {trouble, trouble \union {m}}

LEMMA OthersUntouched ==
  ASSUME IInv, NEW m \in Machines, TypeOK', Frame(m), HonestAt(m)'
  PROVE  IInv'
BY DEF IInv, Frame, HonestAt

-----------------------------------------------------------------------------
(* The machine.                                                            *)
LEMMA WriteStep ==
  ASSUME IInv, NEW m \in Machines, Hello(m) \/ Telemetry(m) \/ Done(m)
  PROVE  IInv'
<1> USE DEF IInv, M!Talk, M!Finish, M!Move, Hello, Telemetry, Done
<1>1. PICK line \in Line, after \in Tasks :
        /\ Write(m, line) /\ task' = [task EXCEPT ![m] = after]
        /\ \/ line = "hello" /\ task[m] = "open" /\ after = "talking"
           \/ line = "telemetry" /\ task[m] = "talking" /\ after = "talking"
           \/ line = "done" /\ task[m] = "talking" /\ after = "finished"
  BY DEF TypeOK, Tasks, Line
<1>2. up'[m] \in {up[m], Append(up[m], line)} /\ up[m] \in Seq(Line) /\ mid[m] \in Seq(Line)
      /\ up' = [up EXCEPT ![m] = up'[m]]
  BY <1>1 DEF Write, TypeOK
<1>3. TypeOK' /\ Frame(m) BY <1>1, <1>2 DEF Write, TypeOK, Frame
<1>4. HonestAt(m)'
  <2> SUFFICES ASSUME m \notin trouble
               PROVE  Honest(after, session[m], link[m], up'[m], mid[m])
    BY <1>1 DEF Write, HonestAt, TypeOK
  <2>1. Honest(task[m], session[m], link[m], up[m], mid[m]) BY DEF HonestAt
  <2>2. CASE link[m] = "closed"
    BY <1>1, <2>1, <2>2 DEF Honest
  <2>3. CASE link[m] # "closed"
    <3>1. up'[m] = Append(up[m], line) BY <1>1, <2>1, <2>3 DEF Write, TypeOK, Honest
    <3>2. session[m] \in {"fresh", "open", "active"}
            => WellFormed(after, session[m], Append(up[m], line), mid[m])
      BY <1>1, <1>2, <2>1, Written DEF Honest, TypeOK
    <3> QED BY <2>1, <2>3, <3>1, <3>2 DEF Honest
  <2> QED BY <2>2, <2>3
<1> QED BY <1>3, <1>4, OthersUntouched

LEMMA OpenStep == ASSUME IInv, NEW m \in Machines, Connect(m) PROVE IInv'
<1> USE DEF IInv, Connect, M!Open, M!Move, Link, balancer
<1>1. TypeOK' /\ Frame(m) BY DEF TypeOK, Frame, Tasks, Links
<1>2. HonestAt(m)'
  BY DEF HonestAt, Honest, TypeOK, WellFormed, DoneLast, HelloFirst, HelloGone
<1> QED BY <1>1, <1>2, OthersUntouched

LEMMA LeaveStep ==
  ASSUME IInv, NEW m \in Machines, CloseConnection(m) PROVE IInv'
<1> USE DEF IInv, CloseConnection, M!Close, balancer
<1>1. TypeOK' /\ Frame(m) BY DEF TypeOK, Frame, Tasks
<1>2. HonestAt(m)'
  BY DEF HonestAt, Honest, TypeOK, WellFormed, DoneLast, HelloFirst, HelloGone
<1> QED BY <1>1, <1>2, OthersUntouched

LEMMA NoLines == <<>> \in Seq(Line)
OBVIOUS

(* What is cut off is still a sequence of lines.                           *)
LEMMA CutOffLines ==
  ASSUME NEW lines \in Seq(Line), NEW rest \in CutOff(lines) PROVE rest \in Seq(Line)
<1>1. ASSUME NEW n \in 0 .. Len(lines) PROVE SubSeq(lines, 1, n) \in Seq(Line)
  OBVIOUS
<1>2. \A n \in 0 .. Len(lines) - 1 : n \in 0 .. Len(lines) OBVIOUS
<1>3. \A n \in 0 .. Len(lines) - 1 : Append(SubSeq(lines, 1, n), "fragment") \in Seq(Line)
  <2> TAKE n \in 0 .. Len(lines) - 1
  <2>1. SubSeq(lines, 1, n) \in Seq(Line) BY <1>1, <1>2
  <2> QED BY <2>1 DEF Line
<1> QED BY <1>1, <1>3 DEF CutOff

(* A step that ends the connection from elsewhere puts it in trouble.      *)
LEMMA TroubleStep ==
  ASSUME IInv, NEW m \in Machines,
         \/ Vanish(m) \/ NoneToAssign(m) \/ DialFails(m) \/ SendFails(m) \/ IdleCut(m)
         \/ BackendStops(m) \/ BacklogReset(m)
  PROVE  IInv'
<1> USE DEF IInv
<1>1. m \in trouble'
  BY DEF Vanish, NoneToAssign, DialFails, SendFails, IdleCut, BackendStops, BacklogReset
<1>2. HonestAt(m)' BY <1>1 DEF HonestAt
<1>3. CASE Vanish(m)
  <2>1. PICK rest \in CutOff(up[m]) : up' = [up EXCEPT ![m] = rest] BY <1>3 DEF Vanish
  <2>2. rest \in Seq(Line) BY <2>1, CutOffLines DEF TypeOK
  <2>3. TypeOK' /\ Frame(m)
    BY <1>3, <2>1, <2>2 DEF Vanish, M!Close, TypeOK, Frame, Tasks
  <2> QED BY <1>2, <2>3, OthersUntouched
<1>4. CASE NoneToAssign(m) \/ DialFails(m)
  <2>1. TypeOK' /\ Frame(m)
    BY <1>4 DEF NoneToAssign, DialFails, Link, balancer, TypeOK, Frame, Links
  <2> QED BY <1>2, <2>1, OthersUntouched
<1>5. CASE IdleCut(m)
  <2>1. PICK part \in {<<>>, <<"fragment">>} : mid' = [mid EXCEPT ![m] = @ \o part]
    BY <1>5 DEF IdleCut
  <2>2. <<"fragment">> \in Seq(Line) BY DEF Line
  <2>3. part \in Seq(Line) BY <2>1, <2>2, NoLines
  <2>4. mid[m] \o part \in Seq(Line) BY <2>3 DEF TypeOK
  <2>5. TypeOK' /\ Frame(m)
    BY <1>5, <2>1, <2>4, NoLines DEF IdleCut, HangUp, Link, balancer, TypeOK, Frame, Links
  <2> QED BY <1>2, <2>5, OthersUntouched
<1>6. CASE BackendStops(m)
  <2>1. TypeOK' /\ Frame(m)
    BY <1>6, NoLines DEF BackendStops, backendOnly, balancer, B!Drop, B!Move, TypeOK, Frame, Sessions
  <2> QED BY <1>2, <2>1, OthersUntouched
<1>7. CASE SendFails(m) \/ BacklogReset(m)
  <2>1. TypeOK' /\ Frame(m)
    BY <1>7, NoLines DEF SendFails, BacklogReset, Link, balancer, TypeOK, Frame, Links
  <2> QED BY <1>2, <2>1, OthersUntouched
<1> QED BY <1>3, <1>4, <1>5, <1>6, <1>7

-----------------------------------------------------------------------------
(* The balancer.                                                           *)
LEMMA RelayStep == ASSUME IInv, NEW m \in Machines, Relay(m) PROVE IInv'
<1> USE DEF IInv, Relay, Relayed, balancer
<1>1. up[m] \in Seq(Line) /\ mid[m] \in Seq(Line) /\ up[m] # <<>> BY DEF TypeOK
<1>2. Tail(up[m]) \in Seq(Line) /\ mid[m] \o SubSeq(up[m], 1, 1) \in Seq(Line)
  <2>1. Len(up[m]) \in Nat \ {0} BY <1>1
  <2>2. SubSeq(up[m], 1, 1) \in Seq(Line) BY <1>1, <2>1
  <2> QED BY <1>1, <2>2
<1>3. TypeOK' /\ Frame(m) BY <1>2 DEF TypeOK, Frame
<1>4. HonestAt(m)'
  <2> SUFFICES ASSUME m \notin trouble
               PROVE  Honest(task[m], session[m], link[m],
                             Tail(up[m]), mid[m] \o SubSeq(up[m], 1, 1))
    BY DEF HonestAt, TypeOK
  <2>1. Honest(task[m], session[m], link[m], up[m], mid[m]) BY DEF HonestAt
  <2> QED BY <1>1, <2>1, Moved DEF Honest, TypeOK
<1> QED BY <1>3, <1>4, OthersUntouched

LEMMA HangUpStep ==
  ASSUME IInv, NEW m \in Machines, ClientOver(m) \/ BackendOver(m) PROVE IInv'
<1> USE DEF IInv, ClientOver, BackendOver, HangUp, Link, balancer
<1>1. TypeOK' /\ Frame(m) BY NoLines DEF TypeOK, Frame, Links
<1>2. CASE ClientOver(m)
  <2>1. HonestAt(m)' BY <1>2 DEF HonestAt, Honest, TypeOK
  <2> QED BY <1>1, <2>1, OthersUntouched
<1>3. CASE BackendOver(m)
  <2>1. HonestAt(m)' BY <1>3 DEF HonestAt, Honest, TypeOK, Over
  <2> QED BY <1>1, <2>1, OthersUntouched
<1> QED BY <1>2, <1>3

LEMMA AssignStep ==
  ASSUME IInv, NEW m \in Machines, Assign(m) \/ Dial(m) \/ Release(m) PROVE IInv'
<1> USE DEF IInv, Assign, Dial, Release, Link, balancer
<1>1. TypeOK' /\ Frame(m) BY DEF TypeOK, Frame, Links
<1>2. HonestAt(m)' BY DEF HonestAt, Honest, TypeOK
<1> QED BY <1>1, <1>2, OthersUntouched

-----------------------------------------------------------------------------
(* The backend.                                                            *)
LEMMA ReadStep ==
  ASSUME IInv, NEW m \in Machines, NEW line \in Line, Read(m, line) PROVE IInv'
<1> USE DEF IInv, Read, backendOnly, balancer, B!Begin, B!Complete, B!Reject, B!Move
<1>1. /\ session[m] \in {"open", "active"} /\ mid[m] # <<>> /\ line = Head(mid[m])
      /\ up[m] \in Seq(Line) /\ mid[m] \in Seq(Line)
  BY DEF Expected, TypeOK
<1>2. Tail(mid[m]) \in Seq(Line) BY <1>1
<1>3. TypeOK' /\ Frame(m) BY <1>2 DEF TypeOK, Frame, Sessions
<1>4. HonestAt(m)'
  <2> SUFFICES ASSUME m \notin trouble
               PROVE  Honest(task[m], session'[m], link[m], up[m], Tail(mid[m]))
    BY DEF HonestAt, TypeOK
  <2>1. Honest(task[m], session[m], link[m], up[m], mid[m]) BY DEF HonestAt
  <2>2. WellFormed(task[m], session[m], up[m], mid[m]) BY <1>1, <2>1 DEF Honest
  <2>3. /\ line # "fragment"
        /\ session[m] = "open" => line = "hello" /\ WellFormed(task[m], "active", up[m], Tail(mid[m]))
        /\ session[m] = "active" => line # "hello" /\ WellFormed(task[m], "active", up[m], Tail(mid[m]))
    BY <1>1, <2>2, Consumed DEF TypeOK
  <2>4. line \in Expected[session[m]] BY <1>1, <2>3 DEF Expected, Line
  <2>5. session'[m] \in {"active", "completed"}
    BY <1>1, <2>3, <2>4 DEF Expected, TypeOK
  <2> QED BY <1>1, <2>1, <2>3, <2>5 DEF Honest
<1> QED BY <1>3, <1>4, OthersUntouched

LEMMA SessionStep ==
  ASSUME IInv, NEW m \in Machines, AcceptSession(m) \/ EndSession(m) \/ EndOfInput(m)
  PROVE  IInv'
<1> USE DEF IInv, AcceptSession, EndSession, EndOfInput, backendOnly, balancer,
            B!Open, B!Clear, B!Drop, B!Move
<1>1. TypeOK' /\ Frame(m) BY DEF TypeOK, Frame, Sessions
<1>2. HonestAt(m)' BY DEF HonestAt, Honest, TypeOK, WellFormed
<1> QED BY <1>1, <1>2, OthersUntouched

-----------------------------------------------------------------------------
LEMMA Initially == Init => IInv
BY DEF Init, M!Init, LB!Init, B!Init, IInv, TypeOK, Tasks, Sessions, Links, HonestAt, Honest,
       WellFormed, Whole, DoneLast, HelloFirst, HelloGone

LEMMA EveryStep == ASSUME IInv, NEW m \in Machines, Step(m) PROVE IInv'
BY OpenStep, WriteStep, LeaveStep, TroubleStep, RelayStep, HangUpStep, AssignStep,
   ReadStep, SessionStep
   DEF Step, Machine, BalancerGoesOn, BackendGoesOn

(* No step of one connection is felt by another.                           *)
LEMMA OnlyItsOwn == ASSUME IInv, NEW m \in Machines, Step(m) PROVE Frame(m)
<1> USE DEF IInv, TypeOK, Frame
<1>1. CASE Machine(m)
  BY <1>1 DEF Machine, Connect, Hello, Telemetry, Done, CloseConnection, Vanish, Write, Link,
              balancer, M!Open, M!Talk, M!Finish, M!Close, M!Move
<1>2. CASE BalancerGoesOn(m)
  BY <1>2 DEF BalancerGoesOn, Assign, NoneToAssign, Dial, DialFails, SendFails, Relay, Relayed,
              ClientOver, BackendOver, Release, HangUp, Link
<1>3. CASE IdleCut(m) BY <1>3 DEF IdleCut, HangUp, Link
<1>4. CASE BackendGoesOn(m)
  BY <1>4 DEF BackendGoesOn, AcceptSession, Read, EndSession, EndOfInput, backendOnly,
              B!Open, B!Begin, B!Complete, B!Reject, B!Clear, B!Drop, B!Move
<1>5. CASE BackendStops(m) BY <1>5 DEF BackendStops, backendOnly, B!Drop, B!Move
<1>6. CASE BacklogReset(m) BY <1>6 DEF BacklogReset, Link
<1> QED BY <1>1, <1>2, <1>3, <1>4, <1>5, <1>6 DEF Step

(* The inductive invariant: what is on its way to a backend, over both     *)
(* halves of the connection, is what is left of hello telemetry* done.     *)
THEOREM Invariance == Spec => []IInv
<1>1. ASSUME IInv, NEW m \in Machines, Step(m) PROVE IInv'
  BY <1>1, EveryStep
<1>2. ASSUME IInv, UNCHANGED vars PROVE IInv'
  BY <1>2 DEF IInv, vars, TypeOK, HonestAt
<1>3. IInv /\ [Next]_vars => IInv' BY <1>1, <1>2 DEF Next, Step, Terminating
<1> QED BY <1>3, Initially, PTL DEF Spec

(* No backend takes an honest machine's session for a protocol error       *)
(* unless the machine vanished or something cut its stream.                *)
THEOREM HonestNeverRejected == Spec => []OnlyCutSessionsRejected
<1>1. IInv => OnlyCutSessionsRejected
  BY DEF IInv, HonestAt, Honest, OnlyCutSessionsRejected
<1> QED BY <1>1, Invariance, PTL

-----------------------------------------------------------------------------
(* What becomes of the `done` that a machine has written.                  *)
HasDone(u) == \E i \in 1 .. Len(u) : u[i] = "done"

(* It is on its way, or its backend has completed the session.             *)
DoneUnderWay(s, u, v) == s = "completed" \/ HasDone(u) \/ HasDone(v)

(* Before a machine has finished there is no `done` anywhere, whatever has *)
(* happened to its connection.                                             *)
NotBefore(m) == task[m] \notin {"finished", "closed"} => ~DoneUnderWay(session[m], up[m], mid[m])

(* Once it has, its `done` is under way unless something else has ended    *)
(* the connection.  A balancer that has closed one has relayed it all.     *)
Delivers(t, s, l, u, v) == /\ t = "finished" => DoneUnderWay(s, u, v)
                           /\ s = "dropped" => l = "closed" /\ t = "closed"
                           /\ l = "closed" => Len(u) = 0

DeliversAt(m) == m \notin trouble => Delivers(task[m], session[m], link[m], up[m], mid[m])

DInv == \A m \in Machines : NotBefore(m) /\ DeliversAt(m)

(* The sequences that the steps make hold what they held before.           *)
LEMMA DoneAppended ==
  ASSUME NEW u \in Seq(Line), NEW line
  PROVE  HasDone(Append(u, line)) <=> (HasDone(u) \/ line = "done")
<1> DEFINE w == Append(u, line)
<1>1. /\ Len(w) = Len(u) + 1 /\ Len(u) \in Nat
      /\ \A i \in 1 .. Len(u) : w[i] = u[i]
      /\ w[Len(u) + 1] = line
  OBVIOUS
<1> HIDE DEF w
<1>2. \A i \in 1 .. Len(w) : i \in 1 .. Len(u) \/ i = Len(u) + 1 BY <1>1
<1>3. \A i \in 1 .. Len(u) : i \in 1 .. Len(w) BY <1>1
<1>4. Len(u) + 1 \in 1 .. Len(w) BY <1>1
<1> QED BY <1>1, <1>2, <1>3, <1>4 DEF w, HasDone

LEMMA DoneMoved ==
  ASSUME NEW u \in Seq(Line), NEW v \in Seq(Line), u # <<>>
  PROVE  HasDone(Tail(u)) \/ HasDone(v \o SubSeq(u, 1, 1)) <=> HasDone(u) \/ HasDone(v)
<1> DEFINE w == v \o SubSeq(u, 1, 1)
           x == Tail(u)
<1>1. /\ Len(u) \in Nat \ {0} /\ Len(v) \in Nat
      /\ Len(x) = Len(u) - 1 /\ \A i \in 1 .. Len(u) - 1 : x[i] = u[i + 1]
  OBVIOUS
<1>2. /\ Len(w) = Len(v) + 1
      /\ \A i \in 1 .. Len(v) : w[i] = v[i]
      /\ w[Len(v) + 1] = u[1]
  BY <1>1
<1> HIDE DEF w, x
<1>3. ASSUME HasDone(u) PROVE HasDone(x) \/ HasDone(w)
  <2>1. PICK i \in 1 .. Len(u) : u[i] = "done" BY <1>3 DEF HasDone
  <2>2. CASE i = 1
    <3>1. Len(v) + 1 \in 1 .. Len(w) BY <1>1, <1>2
    <3> QED BY <1>2, <2>1, <2>2, <3>1 DEF HasDone
  <2>3. CASE i # 1
    <3>1. i - 1 \in 1 .. Len(x) /\ x[i - 1] = u[i] BY <1>1, <2>3
    <3> QED BY <2>1, <3>1 DEF HasDone
  <2> QED BY <2>2, <2>3
<1>4. HasDone(v) => HasDone(w) BY <1>1, <1>2 DEF HasDone
<1>5. HasDone(x) => HasDone(u)
  <2>1. ASSUME NEW i \in 1 .. Len(x), x[i] = "done" PROVE HasDone(u)
    <3>1. i + 1 \in 1 .. Len(u) /\ u[i + 1] = "done" BY <1>1, <2>1
    <3> QED BY <3>1 DEF HasDone
  <2> QED BY <2>1 DEF HasDone
<1>6. HasDone(w) => HasDone(u) \/ HasDone(v)
  <2>1. ASSUME NEW i \in 1 .. Len(w), w[i] = "done" PROVE HasDone(u) \/ HasDone(v)
    <3>1. CASE i \in 1 .. Len(v) BY <1>2, <2>1, <3>1 DEF HasDone
    <3>2. CASE i \notin 1 .. Len(v)
      <4>1. i = Len(v) + 1 /\ 1 \in 1 .. Len(u) BY <1>1, <1>2, <3>2
      <4> QED BY <1>2, <2>1, <4>1 DEF HasDone
    <3> QED BY <3>1, <3>2
  <2> QED BY <2>1 DEF HasDone
<1> QED BY <1>3, <1>4, <1>5, <1>6 DEF w, x

LEMMA DoneConsumed ==
  ASSUME NEW v \in Seq(Line), v # <<>>
  PROVE  HasDone(v) <=> (Head(v) = "done" \/ HasDone(Tail(v)))
<1> DEFINE x == Tail(v)
<1>1. /\ Len(v) \in Nat \ {0} /\ Head(v) = v[1]
      /\ Len(x) = Len(v) - 1 /\ \A i \in 1 .. Len(v) - 1 : x[i] = v[i + 1]
  OBVIOUS
<1> HIDE DEF x
<1>2. ASSUME NEW i \in 1 .. Len(v), v[i] = "done", i # 1 PROVE HasDone(x)
  <2>1. i - 1 \in 1 .. Len(x) /\ x[i - 1] = v[i] BY <1>1, <1>2
  <2> QED BY <1>2, <2>1 DEF HasDone
<1>3. ASSUME NEW i \in 1 .. Len(x), x[i] = "done" PROVE HasDone(v)
  <2>1. i + 1 \in 1 .. Len(v) /\ v[i + 1] = "done" BY <1>1, <1>3
  <2> QED BY <2>1 DEF HasDone
<1>4. v[1] = "done" => HasDone(v) BY <1>1 DEF HasDone
<1> QED BY <1>1, <1>2, <1>3, <1>4 DEF HasDone, x

LEMMA DoneNowhere == ~HasDone(<<>>) /\ \A u \in Seq(Line) : Len(u) = 0 => ~HasDone(u)
BY DEF HasDone

(* Cutting lines off adds no `done`.                                       *)
LEMMA DoneCutOff ==
  ASSUME NEW lines \in Seq(Line), NEW rest \in CutOff(lines), HasDone(rest)
  PROVE  HasDone(lines)
<1>1. ASSUME NEW n \in 0 .. Len(lines), HasDone(SubSeq(lines, 1, n)) PROVE HasDone(lines)
  <2>1. /\ Len(SubSeq(lines, 1, n)) = n
        /\ \A i \in 1 .. n : SubSeq(lines, 1, n)[i] = lines[i] /\ i \in 1 .. Len(lines)
    OBVIOUS
  <2> QED BY <1>1, <2>1 DEF HasDone
<1>2. ASSUME NEW n \in 0 .. Len(lines) - 1, HasDone(Append(SubSeq(lines, 1, n), "fragment"))
      PROVE  HasDone(lines)
  <2> DEFINE part == SubSeq(lines, 1, n)
  <2>1. n \in 0 .. Len(lines) OBVIOUS
  <2>2. part \in Seq(Line) BY <2>1
  <2>3. HasDone(part) => HasDone(lines) BY <1>1, <2>1
  <2>4. HasDone(Append(part, "fragment")) BY <1>2
  <2> HIDE DEF part
  <2> QED BY <2>2, <2>3, <2>4, DoneAppended
<1> QED BY <1>1, <1>2 DEF CutOff

-----------------------------------------------------------------------------
UnderWayAt(m) == DoneUnderWay(session[m], up[m], mid[m])

(* A `done` that is under way stays so: it is lost only with a connection  *)
(* that something else ends.                                               *)
StaysUnderWay(m) == m \notin trouble' /\ UnderWayAt(m) => UnderWayAt(m)'

(* None comes up for a machine that has closed its connection.             *)
NoneMadeUp(m) == task[m] = "closed" /\ ~UnderWayAt(m) => ~UnderWayAt(m)'

Fate(m) == NotBefore(m)' /\ DeliversAt(m)' /\ StaysUnderWay(m) /\ NoneMadeUp(m)

-----------------------------------------------------------------------------
LEMMA FateOpened ==
  ASSUME IInv, DInv, NEW m \in Machines, Connect(m) \/ CloseConnection(m) PROVE Fate(m)
<1> USE DEF IInv, DInv, TypeOK, Connect, CloseConnection, M!Open, M!Close, M!Move, Link, balancer
<1> QED BY DEF Fate, NotBefore, DeliversAt, Delivers, StaysUnderWay, NoneMadeUp, UnderWayAt

LEMMA FateWritten ==
  ASSUME IInv, DInv, NEW m \in Machines, Hello(m) \/ Telemetry(m) \/ Done(m) PROVE Fate(m)
<1> USE DEF IInv, DInv
<1>1. PICK line \in Line :
        /\ Write(m, line) /\ task[m] \in {"open", "talking"}
        /\ task'[m] \in {"talking", "finished"}
        /\ line = "done" <=> task'[m] = "finished"
  BY DEF M!Talk, M!Finish, M!Move, Hello, Telemetry, Done, TypeOK, Line
<1>2. up[m] \in Seq(Line) /\ mid[m] \in Seq(Line) BY DEF TypeOK
<1>3. /\ session'[m] = session[m] /\ mid'[m] = mid[m] /\ link'[m] = link[m] /\ trouble' = trouble
      /\ up'[m] = IF link[m] \in {"closed", "refused"} THEN up[m] ELSE Append(up[m], line)
  BY <1>1 DEF Write, TypeOK
<1>4. HasDone(Append(up[m], line)) <=> HasDone(up[m]) \/ line = "done"
  BY <1>2, DoneAppended
<1>5. ~UnderWayAt(m) BY <1>1 DEF NotBefore, UnderWayAt
<1>6. NotBefore(m)' /\ StaysUnderWay(m) /\ NoneMadeUp(m)
  BY <1>1, <1>3, <1>4, <1>5 DEF NotBefore, StaysUnderWay, NoneMadeUp, UnderWayAt, DoneUnderWay
<1>7. ASSUME m \notin trouble PROVE Delivers(task[m], session[m], link[m], up[m], mid[m])'
  <2>1. link[m] \notin {"closed", "refused"}
    BY <1>1, <1>5, <1>7 DEF HonestAt, Honest, DeliversAt, Delivers, UnderWayAt, DoneUnderWay
  <2> QED BY <1>1, <1>3, <1>4, <1>7, <2>1 DEF DeliversAt, Delivers, DoneUnderWay
<1> QED BY <1>3, <1>6, <1>7 DEF Fate, DeliversAt

LEMMA FateTroubled ==
  ASSUME IInv, DInv, NEW m \in Machines,
         \/ Vanish(m) \/ NoneToAssign(m) \/ DialFails(m) \/ SendFails(m) \/ IdleCut(m)
         \/ BackendStops(m) \/ BacklogReset(m)
  PROVE  Fate(m)
<1> USE DEF IInv, DInv
<1>1. m \in trouble'
  BY DEF Vanish, NoneToAssign, DialFails, SendFails, IdleCut, BackendStops, BacklogReset
<1>2. UnderWayAt(m)' => UnderWayAt(m)
  <2>1. CASE Vanish(m)
    <3>1. PICK rest \in CutOff(up[m]) : up'[m] = rest BY <2>1 DEF Vanish, TypeOK
    <3>2. HasDone(rest) => HasDone(up[m]) BY DoneCutOff DEF TypeOK
    <3> QED BY <2>1, <3>1, <3>2 DEF Vanish, UnderWayAt, DoneUnderWay
  <2>2. CASE NoneToAssign(m) \/ DialFails(m)
    BY <2>2 DEF NoneToAssign, DialFails, UnderWayAt
  <2>3. CASE IdleCut(m)
    <3>1. up'[m] = <<>> /\ session' = session
      BY <2>3 DEF IdleCut, HangUp, TypeOK
    <3>2. mid'[m] \in {mid[m], Append(mid[m], "fragment")}
      <4>1. PICK part \in {<<>>, <<"fragment">>} : mid'[m] = mid[m] \o part
        BY <2>3 DEF IdleCut, TypeOK
      <4>2. mid[m] \in Seq(Line) BY DEF TypeOK
      <4>3. CASE part = <<>> BY <4>1, <4>2, <4>3
      <4>4. CASE part = <<"fragment">> BY <4>1, <4>2, <4>4
      <4> QED BY <4>1, <4>3, <4>4
    <3>3. HasDone(mid'[m]) => HasDone(mid[m])
      <4>1. HasDone(Append(mid[m], "fragment")) => HasDone(mid[m])
        BY DoneAppended DEF TypeOK
      <4> QED BY <3>2, <4>1
    <3> QED BY <3>1, <3>3, DoneNowhere DEF UnderWayAt, DoneUnderWay
  <2>4. CASE BackendStops(m)
    <3>1. mid'[m] = <<>> /\ up' = up /\ session'[m] # "completed"
      BY <2>4 DEF BackendStops, backendOnly, B!Drop, B!Move, TypeOK
    <3> QED BY <3>1, DoneNowhere DEF UnderWayAt, DoneUnderWay
  <2>5. CASE SendFails(m) \/ BacklogReset(m)
    <3>1. up'[m] = <<>> /\ mid'[m] \in {<<>>, mid[m]} /\ session' = session
      BY <2>5 DEF SendFails, BacklogReset, TypeOK
    <3> QED BY <3>1, DoneNowhere DEF UnderWayAt, DoneUnderWay
  <2> QED BY <2>1, <2>2, <2>3, <2>4, <2>5
<1>3. task[m] \in {"finished", "closed"} => task'[m] \in {"finished", "closed"}
  BY DEF Vanish, M!Close, NoneToAssign, DialFails, SendFails, IdleCut, HangUp, BackendStops,
         BacklogReset, backendOnly, TypeOK
<1> QED
  BY <1>1, <1>2, <1>3 DEF Fate, NotBefore, DeliversAt, StaysUnderWay, NoneMadeUp, UnderWayAt

LEMMA FateRelayed ==
  ASSUME IInv, DInv, NEW m \in Machines, Relay(m) PROVE Fate(m)
<1> USE DEF IInv, DInv, Relay, Relayed
<1>1. up[m] \in Seq(Line) /\ mid[m] \in Seq(Line) /\ up[m] # <<>> BY DEF TypeOK
<1>2. /\ up'[m] = Tail(up[m]) /\ mid'[m] = mid[m] \o SubSeq(up[m], 1, 1)
      /\ task' = task /\ session' = session /\ link' = link /\ trouble' = trouble
      /\ link[m] = "piped"
  BY DEF TypeOK
<1>3. UnderWayAt(m)' <=> UnderWayAt(m)
  BY <1>1, <1>2, DoneMoved DEF UnderWayAt, DoneUnderWay
<1> QED
  BY <1>2, <1>3 DEF Fate, NotBefore, DeliversAt, Delivers, StaysUnderWay, NoneMadeUp, UnderWayAt

LEMMA FateHungUp ==
  ASSUME IInv, DInv, NEW m \in Machines, ClientOver(m) \/ BackendOver(m) PROVE Fate(m)
<1> USE DEF IInv, DInv, ClientOver, BackendOver, HangUp, Link
<1>1. /\ task' = task /\ session' = session /\ mid' = mid /\ trouble' = trouble
      /\ link[m] = "piped" /\ up'[m] = <<>> /\ up[m] \in Seq(Line)
  BY DEF TypeOK
<1>2. UnderWayAt(m)' => UnderWayAt(m) BY <1>1, DoneNowhere DEF UnderWayAt, DoneUnderWay
<1>3. m \notin trouble /\ UnderWayAt(m) => UnderWayAt(m)'
  <2>1. CASE ClientOver(m) BY <1>1, <2>1 DEF UnderWayAt
  <2>2. CASE BackendOver(m)
    <3>1. m \notin trouble => session[m] = "completed"
      BY <1>1, <2>2 DEF Over, HonestAt, Honest, DeliversAt, Delivers
    <3> QED BY <1>1, <3>1 DEF UnderWayAt, DoneUnderWay
  <2> QED BY <2>1, <2>2
<1>4. m \notin trouble => Delivers(task[m], session[m], link[m], up[m], mid[m])'
  <2>1. Len(up'[m]) = 0 BY <1>1
  <2>2. m \notin trouble => session[m] # "dropped" BY <1>1 DEF DeliversAt, Delivers
  <2> QED BY <1>1, <1>3, <2>1, <2>2 DEF DeliversAt, Delivers, UnderWayAt
<1> QED BY <1>1, <1>2, <1>3, <1>4 DEF Fate, NotBefore, DeliversAt, StaysUnderWay, NoneMadeUp, UnderWayAt

LEMMA FateAssigned ==
  ASSUME IInv, DInv, NEW m \in Machines, Assign(m) \/ Dial(m) \/ Release(m) PROVE Fate(m)
<1> USE DEF IInv, DInv, Assign, Dial, Release, Link
<1>1. /\ task' = task /\ session' = session /\ mid' = mid /\ up' = up /\ trouble' = trouble
      /\ link'[m] = "closed" => link[m] = "closed"
      /\ link[m] = "closed" => link'[m] = "closed"
  BY DEF TypeOK
<1> QED
  BY <1>1 DEF Fate, NotBefore, DeliversAt, Delivers, StaysUnderWay, NoneMadeUp, UnderWayAt

LEMMA FateRead ==
  ASSUME IInv, DInv, NEW m \in Machines, NEW line \in Line, Read(m, line) PROVE Fate(m)
<1> USE DEF IInv, DInv, Read
<1>1. /\ session[m] \in {"open", "active"} /\ mid[m] # <<>> /\ line = Head(mid[m])
      /\ mid[m] \in Seq(Line) /\ mid'[m] = Tail(mid[m])
      /\ task' = task /\ link' = link /\ up' = up /\ trouble' = trouble
  BY DEF Expected, TypeOK, backendOnly
<1>2. HasDone(mid[m]) <=> line = "done" \/ HasDone(mid'[m]) BY <1>1, DoneConsumed
<1>3. session'[m] = "completed" => line = "done"
  BY <1>1 DEF B!Begin, B!Complete, B!Reject, B!Move, TypeOK
<1>4. UnderWayAt(m)' => UnderWayAt(m) BY <1>1, <1>2, <1>3 DEF UnderWayAt, DoneUnderWay
<1>5. m \notin trouble /\ line = "done" => session'[m] = "completed"
  <2>1. IInv' BY ReadStep
  <2>2. m \notin trouble => session'[m] \notin {"failed", "rejected"}
    BY <1>1, <2>1 DEF HonestAt, Honest
  <2> QED BY <1>1, <2>2 DEF B!Begin, B!Complete, B!Reject, B!Move, TypeOK
<1>6. m \notin trouble /\ UnderWayAt(m) => UnderWayAt(m)'
  BY <1>1, <1>2, <1>5 DEF UnderWayAt, DoneUnderWay
<1>7. session'[m] # "dropped"
  BY <1>1 DEF B!Begin, B!Complete, B!Reject, B!Move, TypeOK
<1> QED
  BY <1>1, <1>4, <1>6, <1>7
     DEF Fate, NotBefore, DeliversAt, Delivers, StaysUnderWay, NoneMadeUp, UnderWayAt

LEMMA FateSession ==
  ASSUME IInv, DInv, NEW m \in Machines, AcceptSession(m) \/ EndSession(m) \/ EndOfInput(m)
  PROVE  Fate(m)
<1> USE DEF IInv, DInv, AcceptSession, EndSession, EndOfInput, B!Open, B!Clear, B!Drop, B!Move
<1>1. /\ task' = task /\ link' = link /\ up' = up /\ mid' = mid /\ trouble' = trouble
      /\ session[m] # "completed" /\ session'[m] # "completed"
  BY DEF TypeOK, backendOnly
<1>2. UnderWayAt(m)' <=> UnderWayAt(m) BY <1>1 DEF UnderWayAt, DoneUnderWay
<1>3. m \notin trouble /\ session'[m] = "dropped" => link[m] = "closed" /\ task[m] = "closed"
  BY <1>1 DEF TypeOK, HonestAt, Honest, DeliversAt, Delivers
<1> QED
  BY <1>1, <1>2, <1>3
     DEF Fate, NotBefore, DeliversAt, Delivers, StaysUnderWay, NoneMadeUp, UnderWayAt

(* The other connections are as they were.                                 *)
LEMMA FateOther ==
  ASSUME DInv, NEW m \in Machines, NEW n \in Machines,
         task'[n] = task[n], session'[n] = session[n], link'[n] = link[n],
         up'[n] = up[n], mid'[n] = mid[n], n \in trouble => n \in trouble'
  PROVE  Fate(n)
BY DEF DInv, Fate, NotBefore, DeliversAt, StaysUnderWay, NoneMadeUp, UnderWayAt

LEMMA FateOfAll ==
  ASSUME IInv, DInv, NEW m \in Machines, Step(m) PROVE \A n \in Machines : Fate(n)
<1>1. Fate(m)
  BY FateOpened, FateWritten, FateTroubled, FateRelayed, FateHungUp, FateAssigned, FateRead,
     FateSession
     DEF Step, Machine, BalancerGoesOn, BackendGoesOn
<1>2. Frame(m) BY OnlyItsOwn
<1> QED BY <1>1, <1>2, FateOther DEF Frame

LEMMA FateOfStep ==
  ASSUME IInv, DInv, [Next]_vars PROVE \A n \in Machines : Fate(n)
<1>1. CASE \E m \in Machines : Step(m) BY <1>1, FateOfAll
<1>2. CASE UNCHANGED vars
  <2>1. \A n \in Machines : /\ task'[n] = task[n] /\ session'[n] = session[n] /\ link'[n] = link[n]
                            /\ up'[n] = up[n] /\ mid'[n] = mid[n] /\ trouble' = trouble
    BY <1>2 DEF vars
  <2> QED BY <2>1, FateOther
<1> QED BY <1>1, <1>2 DEF Next, Step, Terminating

LEMMA DInitially == Init => DInv
BY DoneNowhere DEF Init, M!Init, B!Init, DInv, NotBefore, DeliversAt, Delivers, DoneUnderWay

LEMMA DInvariance == Spec => []DInv
<1>1. IInv /\ DInv /\ [Next]_vars => DInv' BY FateOfStep DEF DInv, Fate
<1> QED BY <1>1, DInitially, Invariance, PTL DEF Spec

(* What a machine has written last is never lost with its connection open: *)
(* as long as nothing else ends the connection, a `done` is on its way     *)
(* from the moment it is written until its session is completed, and that  *)
(* is never undone.  This is the safety part of FinishedJobsComplete.      *)
NoDoneLost == [][\A m \in Machines : StaysUnderWay(m)]_vars

FinishedUnderWay ==
  \A m \in Machines : task[m] = "finished" => UnderWayAt(m) \/ m \in trouble

(* A finished job's `done` stays on its way until a backend has completed  *)
(* the session, unless something else has ended the connection.            *)
THEOREM DoneDelivered == Spec => []FinishedUnderWay /\ NoDoneLost
<1>1. DInv => FinishedUnderWay
  BY DEF DInv, DeliversAt, Delivers, FinishedUnderWay, UnderWayAt
<1>2. IInv /\ DInv /\ [Next]_vars => [\A m \in Machines : StaysUnderWay(m)]_vars
  BY FateOfStep DEF Fate
<1> QED BY <1>1, <1>2, Invariance, DInvariance, PTL DEF Spec, NoDoneLost

(* No backend completes a session whose machine has not finished its job,  *)
(* and no `done` comes up after a machine has closed its connection:       *)
(* neither a cut stream nor a fragment is ever taken for one.              *)
CompletedOnlyFinished ==
  \A m \in Machines : session[m] = "completed" => task[m] \in {"finished", "closed"}

NoDoneMadeUp == [][\A m \in Machines : NoneMadeUp(m)]_vars

(* A backend completes a session only for a `done` that its machine wrote. *)
THEOREM NoFalseCompletion == Spec => []CompletedOnlyFinished /\ NoDoneMadeUp
<1>1. IInv /\ DInv => CompletedOnlyFinished
  BY DEF IInv, TypeOK, DInv, NotBefore, DoneUnderWay, CompletedOnlyFinished
<1>2. IInv /\ DInv /\ [Next]_vars => [\A m \in Machines : NoneMadeUp(m)]_vars
  BY FateOfStep DEF Fate
<1> QED BY <1>1, <1>2, Invariance, DInvariance, PTL DEF Spec, NoDoneMadeUp

-----------------------------------------------------------------------------
(* What is counted.  The balancer holds an assignment for every connection *)
(* that it dials or pipes, and a backend has a session only for one that   *)
(* has been piped.                                                         *)
Holds(a, s, l) == /\ l \in {"dialing", "piped"} => a # NoBackend
                  /\ l \in {"none", "accepted"} => a = NoBackend
                  /\ l \in {"none", "accepted", "dialing", "refused"} => s = "fresh"

CInv == /\ pool \subseteq Backends /\ assigned \in [Machines -> pool \union {NoBackend}]
        /\ \A m \in Machines : Holds(assigned[m], session[m], link[m])

LEMMA CountedStep ==
  ASSUME IInv, CInv, NEW m \in Machines, Step(m) PROVE CInv'
<1> USE DEF IInv, TypeOK, CInv
<1>1. \A n \in Machines \ {m} : session'[n] = session[n] /\ link'[n] = link[n]
  BY OnlyItsOwn DEF Frame
<1> DEFINE Counted == /\ pool' = pool /\ assigned' \in [Machines -> pool \union {NoBackend}]
                      /\ \A n \in Machines \ {m} : assigned'[n] = assigned[n]
                      /\ Holds(assigned'[m], session'[m], link'[m])
<1>2. SUFFICES Counted BY <1>1
<1> USE DEF Holds, balancer, backendOnly, Link
<1>3. CASE Machine(m)
  BY <1>3 DEF Machine, Connect, Hello, Telemetry, Done, CloseConnection, Vanish, Write
<1>4. CASE Assign(m)
  <2>1. PICK a \in LB!LeastLoaded : assigned' = [assigned EXCEPT ![m] = a]
    BY <1>4 DEF Assign, LB!Assign
  <2>2. a \in pool /\ a # NoBackend BY <2>1, NoBackendAssumption DEF LB!LeastLoaded
  <2> QED BY <1>4, <2>1, <2>2 DEF Assign, LB!Assign
<1>5. CASE Release(m) BY <1>5 DEF Release, LB!Release
<1>6. CASE NoneToAssign(m) \/ Dial(m) \/ DialFails(m) \/ SendFails(m) \/ Relay(m)
           \/ BacklogReset(m)
  BY <1>6 DEF NoneToAssign, Dial, DialFails, SendFails, Relay, Relayed, BacklogReset
<1>7. CASE ClientOver(m) \/ BackendOver(m) \/ IdleCut(m)
  BY <1>7 DEF ClientOver, BackendOver, IdleCut, HangUp
<1>8. CASE AcceptSession(m) BY <1>8 DEF AcceptSession, B!Open, B!Move
<1>9. CASE EndSession(m) \/ EndOfInput(m) \/ BackendStops(m) \/ \E line \in Line : Read(m, line)
  <2>1. session[m] # "fresh" /\ pool' = pool /\ assigned' = assigned /\ link' = link
    BY <1>9 DEF EndSession, EndOfInput, BackendStops, Read, Expected, B!Clear, B!Drop, B!Move
  <2> QED BY <2>1
<1> QED
  BY <1>3, <1>4, <1>5, <1>6, <1>7, <1>8, <1>9 DEF Step, BalancerGoesOn, BackendGoesOn

LEMMA CountedInvariance == Spec => []CInv
<1>1. Init => CInv
  BY DEF Init, M!Init, LB!Init, B!Init, CInv, Holds
<1>2. IInv /\ CInv /\ UNCHANGED vars => CInv' BY DEF vars, CInv, Holds
<1>3. IInv /\ CInv /\ [Next]_vars => CInv'
  BY <1>2, CountedStep DEF Next, Step, Terminating
<1> QED BY <1>1, <1>3, Invariance, PTL DEF Spec

(* Every session that a backend lists is counted at its address by the     *)
(* balancer, until the balancer has closed the connection: capacity is     *)
(* never given out while a session that still has its connection uses it.  *)
SessionsCounted ==
  \A m \in Machines : session[m] \in {"open", "active", "failed"} /\ link[m] # "closed"
                        => assigned[m] \in pool

(* The counters of the balancer cover every session that is listed over a  *)
(* connection it has not closed.                                           *)
THEOREM ListedIsCounted == Spec => []SessionsCounted
<1>1. IInv /\ CInv => SessionsCounted BY DEF IInv, TypeOK, Links, CInv, Holds, SessionsCounted
<1> QED BY <1>1, Invariance, CountedInvariance, PTL

(* Capacity that a machine has freed stays free: once a machine has gone   *)
(* and is neither counted nor listed, nothing that is still on its way     *)
(* brings it back.  This is the safety part of CapacityFreed.              *)
StayFreed == [][\A m \in Machines : task[m] = "closed" /\ Freed(m) => Freed(m)']_vars

(* The capacity of a machine that has gone is freed once and for all.      *)
THEOREM FreedForGood == Spec => StayFreed
<1>1. ASSUME IInv, CInv, NEW m \in Machines, Step(m), task[m] = "closed", Freed(m) PROVE Freed(m)'
  <2> USE <1>1 DEF IInv, TypeOK, Freed
  <2>1. CASE Machine(m)
    BY <2>1 DEF Machine, Connect, Hello, Telemetry, Done, CloseConnection, Vanish,
                M!Open, M!Talk, M!Finish, M!Close, M!Move
  <2>2. CASE BalancerGoesOn(m) \/ IdleCut(m)
    <3>1. link[m] # "accepted" BY DEF Links
    <3> QED
      BY <2>2, <3>1 DEF BalancerGoesOn, Assign, NoneToAssign, Dial, DialFails, SendFails,
              Relay, Relayed, ClientOver, BackendOver, Release, HangUp, IdleCut, Link, LB!Release
  <2>3. CASE BackendGoesOn(m) \/ BackendStops(m) \/ BacklogReset(m)
    BY <2>3 DEF BackendGoesOn, BackendStops, BacklogReset, AcceptSession, Read, Expected, EndSession,
                EndOfInput, backendOnly, balancer, Link, B!Open, B!Clear, B!Drop, B!Move
  <2> QED BY <2>1, <2>2, <2>3 DEF Step
<1>2. ASSUME CInv, NEW m \in Machines, NEW n \in Machines \ {m}, Step(m)
      PROVE  assigned'[n] = assigned[n]
  BY <1>2 DEF CInv, Step, Machine, BalancerGoesOn, BackendGoesOn, Connect, Hello, Telemetry, Done,
       CloseConnection, Vanish, Write, Assign, NoneToAssign, Dial, DialFails, SendFails, Relay,
       Relayed, ClientOver, BackendOver, Release, HangUp, IdleCut, AcceptSession, Read, EndSession,
       EndOfInput, BackendStops, BacklogReset, backendOnly, balancer, LB!Assign, LB!Release
<1>3. ASSUME IInv, CInv, [Next]_vars, NEW n \in Machines, task[n] = "closed", Freed(n)
      PROVE  Freed(n)'
  <2>1. CASE UNCHANGED vars BY <1>3, <2>1 DEF vars, Freed
  <2>2. CASE \E m \in Machines : Step(m)
    <3>1. PICK m \in Machines : Step(m) BY <2>2
    <3>2. CASE m = n BY <1>1, <1>3, <3>1, <3>2
    <3>3. CASE m # n
      <4>1. Frame(m) BY <1>3, <3>1, OnlyItsOwn
      <4>2. assigned'[n] = assigned[n] BY <1>2, <1>3, <3>1, <3>3, <4>1
      <4> QED BY <1>3, <3>3, <4>1, <4>2 DEF Frame, Freed
    <3> QED BY <3>2, <3>3
  <2> QED BY <1>3, <2>1, <2>2 DEF Next, Step, Terminating
<1>4. IInv /\ CInv /\ [Next]_vars
        => [\A m \in Machines : task[m] = "closed" /\ Freed(m) => Freed(m)']_vars
  BY <1>3
<1> QED BY <1>4, Invariance, CountedInvariance, PTL DEF Spec, StayFreed

-----------------------------------------------------------------------------
(* The parts work in the whole as they do alone: every behaviour of System *)
(* is one of the machines, of the balancer and of the backends, so that    *)
(* what is shown of each part carries over.                                *)
THEOREM Composition == Spec => M!Safety /\ LB!Safety /\ B!Safety
<1>1. Init => M!Init /\ LB!Init /\ B!Init BY DEF Init
<1>2. ASSUME NEW m \in Machines, Step(m)
      PROVE  [M!Next]_task /\ [LB!Next]_(LB!vars) /\ [B!Next]_session
  <2> USE DEF balancer, backendOnly, LB!vars
  <2>1. CASE Machine(m)
    BY <2>1 DEF Machine, Connect, Hello, Telemetry, Done, CloseConnection, Vanish, Write, M!Next
  <2>2. CASE BalancerGoesOn(m)
    BY <2>2 DEF BalancerGoesOn, Assign, NoneToAssign, Dial, DialFails, SendFails, Relay, Relayed,
                ClientOver, BackendOver, Release, HangUp, LB!Next
  <2>3. CASE IdleCut(m) BY <2>3 DEF IdleCut, HangUp
  <2>4. CASE BackendGoesOn(m)
    BY <2>4 DEF BackendGoesOn, AcceptSession, Read, EndSession, EndOfInput, B!Next
  <2>5. CASE BackendStops(m) \/ BacklogReset(m)
    BY <2>5 DEF BackendStops, BacklogReset, B!Next
  <2> QED BY <1>2, <2>1, <2>2, <2>3, <2>4, <2>5 DEF Step
<1>3. UNCHANGED vars => UNCHANGED task /\ UNCHANGED LB!vars /\ UNCHANGED session
  BY DEF vars, LB!vars
<1>4. [Next]_vars => [M!Next]_task /\ [LB!Next]_(LB!vars) /\ [B!Next]_session
  BY <1>2, <1>3 DEF Next, Step, Terminating
<1> QED BY <1>1, <1>4, PTL DEF Spec, M!Safety, LB!Safety, B!Safety
=============================================================================
