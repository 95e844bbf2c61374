----------------------------- MODULE Relay_proof -----------------------------
(***************************************************************************)
(* Proofs about Relay for any timeout, buffer and rate, and any choice of  *)
(* the peers that may talk.                                                *)
(***************************************************************************)
EXTENDS Relay, Integers, TLAPS

Causes == {"none", "eof", "idle", "stalled", "refused", "gone"}

(* The state of every variable that the argument reads has its type.       *)
TypeOK == /\ relay \in [Directions -> {"read", "write", "returned"}]
          /\ cause \in [Directions -> Causes]
          /\ wait \in [Directions -> Nat] /\ silence \in [Directions -> Nat]
          /\ inbox \in [Directions -> Nat] /\ outbox \in [Directions -> Nat]
          /\ owed \in [Directions -> Int]

(* A relay that waits for its source has waited no longer than the source  *)
(* has been silent, unless the source has closed.                          *)
Timed(d) ==
  /\ cause[d] # "none" <=> relay[d] = "returned"
  /\ wait[d] <= IdleTimeout
  /\ relay[d] = "read" /\ inbox[d] = 0 /\ Source(d) \notin closed => wait[d] <= silence[d]
  /\ cause[d] = "idle" => silence[d] >= IdleTimeout

AllTimed == \A d \in Directions : Timed(d)

(* Nothing ever moves in the direction of a backend that does not talk,    *)
(* and its relay waits from the start.                                     *)
Quiet == "backend" \notin talkers => /\ inbox["down"] = 0 /\ outbox["down"] = 0
                                     /\ relay["down"] # "write"
                                     /\ silence["down"] = wait["down"]

(* What the client has sent is somewhere on its way until the up relay     *)
(* returns, and delivered or in the last buffer if it returned at the end  *)
(* of the stream.                                                          *)
Conserved ==
  /\ cause["up"] = "eof" => "client" \in closed
  /\ "backend" \notin closed \union talkers =>
       /\ relay["up"] # "returned" => owed["up"] = inbox["up"] + InHand("up") + outbox["up"]
       /\ cause["up"] = "eof" => owed["up"] = outbox["up"]

IInv == TypeOK /\ AllTimed /\ Quiet /\ Conserved

-----------------------------------------------------------------------------
LEMMA Initially == Init => IInv
BY TimeAssumption
   DEF Init, IInv, TypeOK, Causes, AllTimed, Timed, Quiet, Conserved, InHand, Directions, Peers

USE DEF Directions, Source, Dest, From, Toward

(* The steps of the peers.                                                 *)
LEMMA SendStep == ASSUME IInv, NEW p \in Peers, PeerSend(p) PROVE IInv'
<1> USE DEF IInv, PeerSend, Peers
<1>1. TypeOK' BY DEF TypeOK
<1>2. AllTimed' BY DEF TypeOK, AllTimed, Timed
<1>3. Quiet' BY DEF TypeOK, Quiet
<1>4. Conserved' BY DEF TypeOK, Conserved, InHand
<1> QED BY <1>1, <1>2, <1>3, <1>4

LEMMA ReceiveStep == ASSUME IInv, NEW p \in Peers, PeerReceive(p) PROVE IInv'
<1> USE DEF IInv, PeerReceive, Peers
<1>1. TypeOK' BY DEF TypeOK
<1>2. AllTimed' BY DEF TypeOK, AllTimed, Timed
<1>3. Quiet' BY DEF TypeOK, Quiet
<1>4. Conserved' BY DEF TypeOK, Conserved, InHand
<1> QED BY <1>1, <1>2, <1>3, <1>4

LEMMA CloseStep == ASSUME IInv, NEW p \in Peers, PeerClose(p) PROVE IInv'
<1> USE DEF IInv, PeerClose, Peers, Survivors
<1>1. TypeOK' BY DEF TypeOK
<1>2. AllTimed' BY DEF TypeOK, AllTimed, Timed
<1>3. Quiet' BY DEF TypeOK, Quiet
<1>4. Conserved' BY DEF TypeOK, Quiet, AllTimed, Timed, Conserved, InHand
<1> QED BY <1>1, <1>2, <1>3, <1>4

(* The steps of the relays.                                                *)
LEMMA ReadStep == ASSUME IInv, NEW d \in Directions, Read(d) PROVE IInv'
<1> USE DEF IInv, Read
<1>1. TypeOK' BY DEF TypeOK
<1>2. AllTimed' BY TimeAssumption DEF TypeOK, AllTimed, Timed
<1>3. Quiet' BY DEF TypeOK, Quiet
<1>4. Conserved' BY DEF TypeOK, AllTimed, Timed, Conserved, InHand
<1> QED BY <1>1, <1>2, <1>3, <1>4

LEMMA WriteStep == ASSUME IInv, NEW d \in Directions, Write(d) PROVE IInv'
<1> USE DEF IInv, Write
<1>1. TypeOK' BY DEF TypeOK
<1>2. AllTimed' BY TimeAssumption DEF TypeOK, AllTimed, Timed
<1>3. Quiet' BY DEF TypeOK, Quiet
<1>4. Conserved' BY DEF TypeOK, AllTimed, Timed, Conserved, InHand
<1> QED BY <1>1, <1>2, <1>3, <1>4

(* A relay returns for a reason that is true.                              *)
LEMMA ReturnStep ==
  ASSUME IInv, NEW d \in Directions, NEW why \in Causes \ {"none"}, Return(d, why),
         relay[d] # "returned",
         why = "idle" => /\ relay[d] = "read" /\ inbox[d] = 0
                         /\ Source(d) \notin closed /\ wait[d] = IdleTimeout,
         why = "eof" => /\ relay[d] = "read" /\ inbox[d] = 0 /\ Source(d) \in closed
  PROVE  IInv'
<1> USE DEF IInv, Return, traffic
<1>1. TypeOK' BY DEF TypeOK
<1>2. AllTimed' BY TimeAssumption DEF TypeOK, AllTimed, Timed, Causes
<1>3. Quiet' BY DEF TypeOK, Quiet
<1>4. Conserved' BY DEF TypeOK, AllTimed, Timed, Conserved, InHand
<1> QED BY <1>1, <1>2, <1>3, <1>4

LEMMA RelayKeeps == ASSUME IInv, NEW d \in Directions, RelayStep(d) PROVE IInv'
<1>1. CASE Read(d) BY <1>1, ReadStep
<1>2. CASE Write(d) BY <1>2, WriteStep
<1>3. CASE ReadEof(d) BY <1>3, ReturnStep DEF ReadEof, Causes
<1>4. CASE ReadTimeout(d) BY <1>4, ReturnStep DEF ReadTimeout, Causes
<1>5. CASE WriteTimeout(d) BY <1>5, ReturnStep DEF WriteTimeout, Causes
<1>6. CASE WriteRefused(d) BY <1>6, ReturnStep DEF WriteRefused, Causes
<1>7. CASE SocketGone(d) BY <1>7, ReturnStep DEF SocketGone, Causes
<1> QED BY <1>1, <1>2, <1>3, <1>4, <1>5, <1>6, <1>7 DEF RelayStep

(* The handler closes a socket.                                            *)
LEMMA SocketStep == ASSUME IInv, CloseBackend \/ CloseClient PROVE IInv'
<1> USE DEF IInv, CloseBackend, CloseClient, CloseSocket, Survivors
<1>1. TypeOK' BY DEF TypeOK
<1>2. AllTimed' BY DEF TypeOK, AllTimed, Timed
<1>3. Quiet' BY DEF TypeOK, Quiet
<1>4. Conserved' BY DEF TypeOK, Quiet, Conserved, InHand
<1> QED BY <1>1, <1>2, <1>3, <1>4

(* Time passes for both relays at once.                                    *)
LEMMA TickStep == ASSUME IInv, Tick PROVE IInv'
<1> USE DEF IInv, Tick, Blocked
<1>1. TypeOK' BY DEF TypeOK
<1>2. AllTimed' BY TimeAssumption DEF TypeOK, AllTimed, Timed
<1>3. Quiet' BY TimeAssumption DEF TypeOK, Quiet
<1>4. Conserved' BY DEF TypeOK, Conserved, InHand
<1> QED BY <1>1, <1>2, <1>3, <1>4

LEMMA IdleStep == ASSUME IInv, FirstDone \/ UNCHANGED vars PROVE IInv'
<1> USE DEF IInv, FirstDone, vars, traffic
<1>1. TypeOK' BY DEF TypeOK
<1>2. AllTimed' BY DEF AllTimed, Timed
<1>3. Quiet' BY DEF Quiet
<1>4. Conserved' BY DEF Conserved, InHand
<1> QED BY <1>1, <1>2, <1>3, <1>4

-----------------------------------------------------------------------------
(* The inductive invariant: types, deadlines no older than the silence of  *)
(* the source, a silent backend's direction at rest, and chunks of the     *)
(* client conserved on their way.                                          *)
THEOREM Invariance == Spec => []IInv
<1>1. IInv /\ [Next]_vars => IInv'
  BY SendStep, ReceiveStep, CloseStep, RelayKeeps, SocketStep, TickStep, IdleStep
     DEF Next, Terminating
<1> QED BY <1>1, Initially, PTL DEF Spec

(* Nothing that a client wrote before it closed is lost on the way to a    *)
(* backend that does not talk.                                             *)
THEOREM NothingLost == Spec => []CleanCloseLosesNothing
<1>1. IInv => CleanCloseLosesNothing BY DEF IInv, Conserved, CleanCloseLosesNothing
<1> QED BY <1>1, Invariance, PTL

(* A session whose backend never writes lasts one idle timeout at most.    *)
THEOREM SessionsCapped == Spec => []SilentBackendCapsSession
<1>1. IInv => SilentBackendCapsSession
  BY DEF IInv, AllTimed, Timed, Quiet, SilentBackendCapsSession
<1> QED BY <1>1, Invariance, PTL

(* No relay gives up as idle a source that has sent within the timeout.    *)
THEOREM TimeoutsHonest == Spec => []IdleMeansSilent
<1>1. IInv => IdleMeansSilent BY DEF IInv, AllTimed, Timed, IdleMeansSilent
<1> QED BY <1>1, Invariance, PTL

-----------------------------------------------------------------------------
(* The channel `done` and the closing of the sockets.                      *)

Token(d) == IF relay[d] = "returned" THEN 1 ELSE 0
Taken == IF handler = "waiting" THEN 0 ELSE 1

(* Each relay that has returned left one token, of which the handler took  *)
(* one; the sockets are closed one after the other.                        *)
Wound == /\ done \in Nat /\ done + Taken = Token("up") + Token("down")
         /\ handler \in {"waiting", "closeBackend", "closeClient", "ended"}
         /\ sockOpen = CASE handler = "ended" -> {}
                         [] handler = "closeClient" -> {"client"}
                         [] OTHER -> Peers

(* Why a session ends that the balancer has not begun to close itself.     *)
Grounds == {"eof", "idle", "stalled", "refused"}

(* The handler closes the sockets of a session only when a relay has found *)
(* a peer gone, silent or stalled, never because it has closed one itself. *)
CutForCause == IF handler = "waiting" THEN \A d \in Directions : cause[d] # "gone"
               ELSE \E d \in Directions : cause[d] \in Grounds

LEMMA ReturnWinds ==
  ASSUME IInv, Wound, CutForCause, NEW d \in Directions, NEW why \in Causes \ {"none"},
         relay[d] # "returned", Return(d, why), why = "gone" => handler # "waiting"
  PROVE  Wound' /\ CutForCause'
<1> USE DEF Return, IInv, TypeOK
<1>1. done' + Taken' = Token("up")' + Token("down")' /\ done' \in Nat
  BY DEF Wound, Token, Taken
<1>2. Wound' BY <1>1 DEF Wound
<1>3. cause[d] = "none" BY DEF AllTimed, Timed
<1>4. CutForCause' BY <1>3 DEF CutForCause, Grounds, Causes
<1> QED BY <1>2, <1>4

LEMMA WoundStep == ASSUME IInv, Wound, CutForCause, [Next]_vars PROVE Wound' /\ CutForCause'
<1>1. CASE UNCHANGED <<relay, cause, done, handler, sockOpen>>
  BY <1>1 DEF Wound, CutForCause, Token, Taken
<1>2. CASE FirstDone
  <2>1. Wound' BY <1>2 DEF FirstDone, Wound, Token, Taken
  <2>2. PICK d \in Directions : relay[d] = "returned"
    BY <1>2 DEF FirstDone, Wound, Token, Taken
  <2>3. cause[d] \in Grounds
    BY <1>2, <2>2 DEF FirstDone, IInv, TypeOK, AllTimed, Timed, CutForCause, Causes, Grounds
  <2>4. UNCHANGED cause /\ handler' # "waiting" BY <1>2 DEF FirstDone
  <2>5. CutForCause' BY <2>3, <2>4 DEF CutForCause
  <2> QED BY <2>1, <2>5
<1>3. CASE CloseBackend \/ CloseClient
  <2>1. sockOpen' = CASE handler' = "ended" -> {}
                      [] handler' = "closeClient" -> {"client"}
                      [] OTHER -> Peers
    BY <1>3 DEF CloseBackend, CloseClient, CloseSocket, Wound, Peers
  <2>2. UNCHANGED <<relay, cause, done>> /\ handler # "waiting"
        /\ handler' \in {"closeClient", "ended"}
    BY <1>3 DEF CloseBackend, CloseClient, CloseSocket
  <2> QED BY <2>1, <2>2 DEF Wound, CutForCause, Token, Taken
<1>4. ASSUME NEW d \in Directions, Read(d) \/ Write(d) PROVE Wound' /\ CutForCause'
  <2>1. Token("up")' = Token("up") /\ Token("down")' = Token("down")
    BY <1>4 DEF Read, Write, Token, IInv, TypeOK
  <2>2. UNCHANGED <<cause, done, handler, sockOpen>> BY <1>4 DEF Read, Write
  <2> QED BY <2>1, <2>2 DEF Wound, CutForCause, Taken
<1>5. ASSUME NEW d \in Directions, ReadEof(d) \/ ReadTimeout(d) \/ WriteTimeout(d) \/ WriteRefused(d)
      PROVE  Wound' /\ CutForCause'
  BY <1>5, ReturnWinds DEF ReadEof, ReadTimeout, WriteTimeout, WriteRefused, Causes
<1>6. ASSUME NEW d \in Directions, SocketGone(d) PROVE Wound' /\ CutForCause'
  <2>1. handler # "waiting" BY <1>6 DEF SocketGone, Wound, Peers
  <2> QED BY <1>6, <2>1, ReturnWinds DEF SocketGone, Causes
<1>7. CASE Tick \/ UNCHANGED vars BY <1>1, <1>7 DEF Tick, vars
<1>8. ASSUME NEW p \in Peers, PeerSend(p) \/ PeerReceive(p) \/ PeerClose(p)
      PROVE  Wound' /\ CutForCause'
  BY <1>1, <1>8 DEF PeerSend, PeerReceive, PeerClose
<1> QED BY <1>2, <1>3, <1>4, <1>5, <1>6, <1>7, <1>8 DEF Next, RelayStep, Terminating

LEMMA AlwaysWound == Spec => [](Wound /\ CutForCause)
<1>1. Init => Wound /\ CutForCause
  BY DEF Init, Wound, CutForCause, Token, Taken, Directions
<1> QED BY <1>1, WoundStep, Invariance, PTL DEF Spec

(* The send of a relay on `done` never blocks: there is room for the token *)
(* of each relay that has yet to return.                                   *)
RoomForToken == \A d \in Directions : relay[d] # "returned" => done < 2

(* No relay goroutine can be left behind in its send on the channel `done`.*)
THEOREM SendsNeverBlock == Spec => []RoomForToken
<1>1. IInv /\ Wound => RoomForToken BY DEF Wound, Token, Taken, RoomForToken
<1> QED BY <1>1, Invariance, AlwaysWound, PTL

(* Both sockets are closed once the handler has ended: whatever Read or    *)
(* Write a relay is in fails, and all it can do then is return.            *)
WakesRelays ==
  handler = "ended" =>
    \A d \in Directions : relay[d] # "returned" =>
      /\ done < 2 /\ Source(d) \notin sockOpen /\ Dest(d) \notin sockOpen

(* Closing both sockets, as handleClient defers, is enough to end a relay  *)
(* that is still blocked.  This is the safety part of RelaysFollow.        *)
THEOREM ClosingWakesRelays == Spec => []WakesRelays
<1>1. IInv /\ Wound => WakesRelays BY DEF Wound, Token, Taken, WakesRelays
<1> QED BY <1>1, Invariance, AlwaysWound, PTL

(* The balancer begins to close a session only for a cause outside itself. *)
THEOREM SessionsCutForCause == Spec => []CutForCause
<1> QED BY AlwaysWound, PTL
=============================================================================
