------------------- MODULE BlackholeArcMessageQueueProofs -------------------
(***************************************************************************)
(* Proofs about BlackholeArcMessageQueue, for every ring size, number of   *)
(* callers and number of calls, with timeouts and crashes: the two rings   *)
(* are bounded FIFOs, and answers match calls.  The invariant says that    *)
(* the ARC_MSG lock makes the pointer a caller has read the current one    *)
(* (LockInv, PushInv, PopInv) and that a ring never holds more than its    *)
(* size (BoundInv).                                                        *)
(***************************************************************************)
EXTENDS MCArcQueue, RingProofs

USE SizeAssumption, QueueAssumption

LockInv == \A c \in Caller : pc[c] # "idle" => holders = {c}

PushInv == \A c \in Caller :
  /\ pc[c] # "idle" => request[c] \in Call
  /\ pc[c] \in {"pushing", "writing", "publishing"} => ptr[c] = reqWptr
  /\ pc[c] \in {"writing", "publishing"} => Occupied(reqWptr, reqRptr) < Size
  /\ pc[c] = "publishing" => reqEntry[ptr[c] % Size] = request[c]

PopInv == \A c \in Caller :
  /\ pc[c] \in {"popping", "reading", "advancing"} => ptr[c] = respRptr
  /\ pc[c] \in {"reading", "advancing"} => respRptr # respWptr

BoundInv ==
  /\ Occupied(reqWptr, reqRptr) <= Size
  /\ Occupied(respWptr, respRptr) <= Size

Inv == TypeOK /\ LockInv /\ PushInv /\ PopInv /\ BoundInv

(* The full test of push_request, written with abs on the double-wrapping  *)
(* pointers, is true exactly when Size entries are occupied.               *)
THEOREM FullTest ==
  ASSUME NEW w \in Pointer, NEW r \in Pointer
  PROVE  Full(r, w) <=> Occupied(w, r) = Size
<1> DEFINE k == 2 * Size
<1>1. k \in Nat \ {0} /\ Abs(r - w) \in 0 .. k - 1
  BY DEF Pointer, Abs
<1>2. Abs(r - w) % k = Abs(r - w)
  BY <1>1, ModBelow
<1> QED
  BY <1>2, OccupiedIs DEF Pointer, Full, Abs

\* A pointer modulo the ring size names a slot of the ring.
LEMMA EntrySlot == ASSUME NEW p \in Pointer PROVE p % Size \in Slot
BY ModRange DEF Pointer, Slot

(* Init establishes the invariant.                                         *)
LEMMA InitInvariant == Init => Inv
<1> SUFFICES ASSUME Init PROVE Inv
  OBVIOUS
<1>1. TypeOK
  <2>1. None \in Response /\ 0 \in Pointer /\ 0 \in 0 .. MaxCalls
    BY DEF None, Response, Status, Pointer
  <2> QED
    BY <2>1 DEF Init, TypeOK, Labels
<1>2. LockInv /\ PushInv /\ PopInv
  BY DEF Init, LockInv, PushInv, PopInv
<1>3. BoundInv
  BY OccupiedIs DEF Init, BoundInv, Pointer
<1> QED
  BY <1>1, <1>2, <1>3 DEF Inv

-----------------------------------------------------------------------------
(* Steps of a caller: one step per action, one substep per part of the     *)
(* invariant that the action can disturb.                                  *)
LEMMA CallerInvariant ==
  ASSUME Inv, NEW c \in Caller,
         Acquire(c) \/ RejectArgs(c) \/ Proceed(c) \/ Crash(c)
  PROVE  Inv'
<1> USE DEF Inv, TypeOK, callerVars, headerVars, fwVars, Move, Lock!Enter, Lock!Leave
<1>1. CASE Acquire(c)
  <2>1. TypeOK'
    BY <1>1 DEF Acquire, Labels, None, Response, Status
  <2>2. LockInv'
    BY <1>1 DEF Acquire, LockInv
  <2>3. PushInv'
    BY <1>1 DEF Acquire, LockInv, PushInv, Call
  <2>4. PopInv'
    BY <1>1 DEF Acquire, LockInv, PopInv
  <2>5. BoundInv'
    BY <1>1 DEF Acquire, BoundInv
  <2> QED
    BY <2>1, <2>2, <2>3, <2>4, <2>5
<1>2. CASE RejectArgs(c)
  <2>1. TypeOK'
    BY <1>2 DEF RejectArgs, Labels
  <2>2. LockInv'
    BY <1>2 DEF RejectArgs, LockInv
  <2>3. PushInv'
    BY <1>2 DEF RejectArgs, LockInv, PushInv
  <2>4. PopInv'
    BY <1>2 DEF RejectArgs, LockInv, PopInv
  <2>5. BoundInv'
    BY <1>2 DEF RejectArgs, BoundInv
  <2> QED
    BY <2>1, <2>2, <2>3, <2>4, <2>5
<1>3. CASE ReadRequestWptr(c)
  <2>1. TypeOK'
    BY <1>3 DEF ReadRequestWptr, Labels
  <2>2. LockInv'
    BY <1>3 DEF ReadRequestWptr, LockInv
  <2>3. PushInv'
    BY <1>3 DEF ReadRequestWptr, LockInv, PushInv
  <2>4. PopInv'
    BY <1>3 DEF ReadRequestWptr, LockInv, PopInv
  <2>5. BoundInv'
    BY <1>3 DEF ReadRequestWptr, BoundInv
  <2> QED
    BY <2>1, <2>2, <2>3, <2>4, <2>5
<1>4. CASE RequestHasRoom(c)
  <2>0. ptr[c] = reqWptr /\ Occupied(reqWptr, reqRptr) < Size
    <3>1. ptr[c] = reqWptr /\ Occupied(reqWptr, reqRptr) # Size
      BY <1>4, FullTest DEF RequestHasRoom, PushInv
    <3>2. Occupied(reqWptr, reqRptr) \in 0 .. Size
      BY PushOccupies DEF BoundInv
    <3> QED
      BY <3>1, <3>2
  <2>1. TypeOK'
    BY <1>4 DEF RequestHasRoom, Labels
  <2>2. LockInv'
    BY <1>4 DEF RequestHasRoom, LockInv
  <2>3. PushInv'
    BY <1>4, <2>0 DEF RequestHasRoom, LockInv, PushInv
  <2>4. PopInv'
    BY <1>4 DEF RequestHasRoom, LockInv, PopInv
  <2>5. BoundInv'
    BY <1>4 DEF RequestHasRoom, BoundInv
  <2> QED
    BY <2>1, <2>2, <2>3, <2>4, <2>5
<1>5. CASE WriteRequest(c)
  <2>0. ptr[c] % Size \in Slot
    BY EntrySlot
  <2>1. TypeOK'
    BY <1>5, <2>0 DEF WriteRequest, Labels
  <2>2. LockInv'
    BY <1>5 DEF WriteRequest, LockInv
  <2>3. PushInv'
    BY <1>5, <2>0 DEF WriteRequest, LockInv, PushInv
  <2>4. PopInv'
    BY <1>5 DEF WriteRequest, LockInv, PopInv
  <2>5. BoundInv'
    BY <1>5 DEF WriteRequest, BoundInv
  <2> QED
    BY <2>1, <2>2, <2>3, <2>4, <2>5
<1>6. CASE WriteRequestWptr(c)
  <2>0. /\ ptr[c] = reqWptr /\ Advance(reqWptr) \in Pointer
        /\ Occupied(reqWptr, reqRptr) < Size
        /\ Occupied(Advance(reqWptr), reqRptr) = Occupied(reqWptr, reqRptr) + 1
        /\ Occupied(reqWptr, reqRptr) \in 0 .. Size
    BY <1>6, AdvanceIs, PushOccupies DEF WriteRequestWptr, PushInv, BoundInv
  <2>1. TypeOK'
    BY <1>6, <2>0 DEF WriteRequestWptr, Labels
  <2>2. LockInv'
    BY <1>6 DEF WriteRequestWptr, LockInv
  <2>3. PushInv'
    BY <1>6 DEF WriteRequestWptr, LockInv, PushInv
  <2>4. PopInv'
    BY <1>6 DEF WriteRequestWptr, LockInv, PopInv
  <2>5. BoundInv'
    BY <1>6, <2>0 DEF WriteRequestWptr, BoundInv
  <2> QED
    BY <2>1, <2>2, <2>3, <2>4, <2>5
<1>7. CASE TriggerFwInt(c)
  <2>1. TypeOK'
    BY <1>7 DEF TriggerFwInt, Labels
  <2>2. LockInv'
    BY <1>7 DEF TriggerFwInt, LockInv
  <2>3. PushInv'
    BY <1>7 DEF TriggerFwInt, LockInv, PushInv
  <2>4. PopInv'
    BY <1>7 DEF TriggerFwInt, LockInv, PopInv
  <2>5. BoundInv'
    BY <1>7 DEF TriggerFwInt, BoundInv
  <2> QED
    BY <2>1, <2>2, <2>3, <2>4, <2>5
<1>8. CASE ReadResponseRptr(c)
  <2>1. TypeOK'
    BY <1>8 DEF ReadResponseRptr, Labels
  <2>2. LockInv'
    BY <1>8 DEF ReadResponseRptr, LockInv
  <2>3. PushInv'
    BY <1>8 DEF ReadResponseRptr, LockInv, PushInv
  <2>4. PopInv'
    BY <1>8 DEF ReadResponseRptr, LockInv, PopInv
  <2>5. BoundInv'
    BY <1>8 DEF ReadResponseRptr, BoundInv
  <2> QED
    BY <2>1, <2>2, <2>3, <2>4, <2>5
<1>9. CASE ResponseArrived(c)
  <2>1. TypeOK'
    BY <1>9 DEF ResponseArrived, Labels
  <2>2. LockInv'
    BY <1>9 DEF ResponseArrived, LockInv
  <2>3. PushInv'
    BY <1>9 DEF ResponseArrived, LockInv, PushInv
  <2>4. PopInv'
    BY <1>9 DEF ResponseArrived, LockInv, PopInv
  <2>5. BoundInv'
    BY <1>9 DEF ResponseArrived, BoundInv
  <2> QED
    BY <2>1, <2>2, <2>3, <2>4, <2>5
<1>10. CASE ReadResponse(c)
  <2>0. ptr[c] % Size \in Slot
    BY EntrySlot
  <2>1. TypeOK'
    BY <1>10, <2>0 DEF ReadResponse, Labels
  <2>2. LockInv'
    BY <1>10 DEF ReadResponse, LockInv
  <2>3. PushInv'
    BY <1>10, <2>0 DEF ReadResponse, LockInv, PushInv
  <2>4. PopInv'
    BY <1>10 DEF ReadResponse, LockInv, PopInv
  <2>5. BoundInv'
    BY <1>10 DEF ReadResponse, BoundInv
  <2> QED
    BY <2>1, <2>2, <2>3, <2>4, <2>5
<1>11. CASE WriteResponseRptr(c)
  <2>0. /\ ptr[c] = respRptr /\ Advance(respRptr) \in Pointer
        /\ respRptr # respWptr
        /\ Occupied(respWptr, Advance(respRptr)) = Occupied(respWptr, respRptr) - 1
        /\ Occupied(respWptr, respRptr) \in 0 .. Size
    BY <1>11, AdvanceIs, PushOccupies DEF WriteResponseRptr, PopInv, BoundInv
  <2>1. TypeOK'
    BY <1>11, <2>0 DEF WriteResponseRptr, Labels
  <2>2. LockInv'
    BY <1>11 DEF WriteResponseRptr, LockInv
  <2>3. PushInv'
    BY <1>11 DEF WriteResponseRptr, LockInv, PushInv
  <2>4. PopInv'
    BY <1>11 DEF WriteResponseRptr, LockInv, PopInv
  <2>5. BoundInv'
    BY <1>11, <2>0 DEF WriteResponseRptr, BoundInv
  <2> QED
    BY <2>1, <2>2, <2>3, <2>4, <2>5
<1>12. CASE Return(c)
  <2>1. TypeOK'
    BY <1>12 DEF Return, Labels
  <2>2. LockInv'
    BY <1>12 DEF Return, LockInv
  <2>3. PushInv'
    BY <1>12 DEF Return, LockInv, PushInv
  <2>4. PopInv'
    BY <1>12 DEF Return, LockInv, PopInv
  <2>5. BoundInv'
    BY <1>12 DEF Return, BoundInv
  <2> QED
    BY <2>1, <2>2, <2>3, <2>4, <2>5
<1>13. CASE TimeOut(c)
  <2>1. TypeOK'
    BY <1>13 DEF TimeOut, Labels
  <2>2. LockInv'
    BY <1>13 DEF TimeOut, LockInv
  <2>3. PushInv'
    BY <1>13 DEF TimeOut, LockInv, PushInv
  <2>4. PopInv'
    BY <1>13 DEF TimeOut, LockInv, PopInv
  <2>5. BoundInv'
    BY <1>13 DEF TimeOut, BoundInv
  <2> QED
    BY <2>1, <2>2, <2>3, <2>4, <2>5
<1>14. CASE Crash(c)
  <2>1. TypeOK'
    BY <1>14 DEF Crash, Labels
  <2>2. LockInv'
    BY <1>14 DEF Crash, LockInv
  <2>3. PushInv'
    BY <1>14 DEF Crash, LockInv, PushInv
  <2>4. PopInv'
    BY <1>14 DEF Crash, LockInv, PopInv
  <2>5. BoundInv'
    BY <1>14 DEF Crash, BoundInv
  <2> QED
    BY <2>1, <2>2, <2>3, <2>4, <2>5
<1> QED
  BY <1>1, <1>2, <1>3, <1>4, <1>5, <1>6, <1>7, <1>8, <1>9,
     <1>10, <1>11, <1>12, <1>13, <1>14 DEF Proceed

(* Steps of the firmware.                                                  *)
LEMMA FirmwareInvariant == ASSUME Inv, Firmware PROVE Inv'
<1> USE DEF Inv, TypeOK, callerVars, headerVars
<1>1. CASE FwTake
  <2>0. /\ reqRptr % Size \in Slot /\ Advance(reqRptr) \in Pointer
        /\ Occupied(reqWptr, Advance(reqRptr)) = Occupied(reqWptr, reqRptr) - 1
        /\ Occupied(reqWptr, reqRptr) \in 0 .. Size
    BY <1>1, EntrySlot, AdvanceIs, PushOccupies DEF FwTake, BoundInv
  <2>1. TypeOK' /\ LockInv' /\ PopInv'
    BY <1>1, <2>0 DEF FwTake, LockInv, PopInv
  <2>2. PushInv'
    BY <1>1, <2>0 DEF FwTake, PushInv
  <2>3. BoundInv'
    BY <1>1, <2>0 DEF FwTake, BoundInv
  <2> QED
    BY <2>1, <2>2, <2>3
<1>2. CASE FwAnswer
  <2>0. /\ respWptr % Size \in Slot /\ Advance(respWptr) \in Pointer
        /\ Occupied(respWptr, respRptr) \in 0 .. Size
        /\ Occupied(respWptr, respRptr) # Size
    BY <1>2, EntrySlot, AdvanceIs, PushOccupies DEF FwAnswer, BoundInv
  <2>1. Occupied(Advance(respWptr), respRptr) = Occupied(respWptr, respRptr) + 1
    BY <2>0, PushOccupies DEF BoundInv
  <2>2. respRptr # Advance(respWptr)
    BY <2>0, <2>1, OccupiedIs DEF Pointer
  <2>3. TypeOK' /\ LockInv' /\ PushInv'
    BY <1>2, <2>0 DEF FwAnswer, LockInv, PushInv, Response
  <2>4. PopInv'
    BY <1>2, <2>2 DEF FwAnswer, PopInv
  <2>5. BoundInv'
    BY <1>2, <2>0, <2>1 DEF FwAnswer, BoundInv
  <2> QED
    BY <2>3, <2>4, <2>5
<1>3. CASE FwIdle
  BY <1>3 DEF FwIdle, LockInv, PushInv, PopInv, BoundInv
<1> QED
  BY <1>1, <1>2, <1>3 DEF Firmware

\* Every step of a caller or of the firmware keeps the inductive invariant.
LEMMA NextInvariant == Inv /\ [Next]_vars => Inv'
<1> SUFFICES ASSUME Inv, [Next]_vars PROVE Inv'
  OBVIOUS
<1>1. CASE UNCHANGED vars
  BY <1>1 DEF vars, callerVars, headerVars, fwVars, Inv, TypeOK, LockInv, PushInv,
     PopInv, BoundInv
<1> QED
  BY <1>1, CallerInvariant, FirmwareInvariant DEF Next, Done

(* The inductive invariant holds in every reachable state.                 *)
THEOREM Invariance == Spec => []Inv
BY InitInvariant, NextInvariant, PTL DEF Spec

(* Every variable keeps its type: no pointer leaves 0 .. 2 * Size - 1.     *)
THEOREM TypeCorrect == Spec => []TypeOK
BY Invariance, PTL DEF Inv

-----------------------------------------------------------------------------
(* The rings are bounded FIFOs                                             *)

LEMMA RingsStartEmpty == Init => RequestQueue!Init /\ ResponseQueue!Init
<1> SUFFICES ASSUME Init PROVE Requests = <<>> /\ Responses = <<>>
  BY DEF RequestQueue!Init, ResponseQueue!Init
<1>1. TypeOK
  BY InitInvariant DEF Inv
<1> QED
  BY <1>1, EmptyContents DEF Init, TypeOK, Requests, Responses

(* WriteRequest falls on a free slot.                                      *)
LEMMA RequestWritten ==
  ASSUME Inv, NEW c \in Caller, WriteRequest(c) PROVE Requests' = Requests
<1> USE DEF callerVars, headerVars, fwVars
<1>0. /\ reqEntry \in [Slot -> 0 .. MaxCalls] /\ reqWptr \in Pointer /\ reqRptr \in Pointer
      /\ PushInv /\ Occupied(reqWptr, reqRptr) <= Size
  BY DEF Inv, TypeOK, BoundInv
<1>1. ptr[c] = reqWptr /\ Occupied(reqWptr, reqRptr) < Size
  BY <1>0 DEF WriteRequest, Move, PushInv
<1>2. reqEntry' \in [Slot -> 0 .. MaxCalls]
  BY <1>0, CallerInvariant DEF Inv, TypeOK, Proceed
<1>3. \A s \in Slot : s # reqWptr % Size => reqEntry'[s] = reqEntry[s]
  BY <1>0, <1>1 DEF WriteRequest
<1>4. Contents(reqEntry', reqWptr, reqRptr) = Contents(reqEntry, reqWptr, reqRptr)
  BY <1>0, <1>1, <1>2, <1>3, WriteContents
<1> QED
  BY <1>4 DEF WriteRequest, Requests

(* Publishing a write pointer appends the caller's request.                *)
LEMMA RequestPushed ==
  ASSUME Inv, NEW c \in Caller, WriteRequestWptr(c)
  PROVE  Requests' = Append(Requests, request[c]) /\ Len(Requests) < Size /\ request[c] \in Call
<1> USE DEF callerVars, headerVars, fwVars
<1>0. /\ reqEntry \in [Slot -> 0 .. MaxCalls] /\ reqWptr \in Pointer /\ reqRptr \in Pointer
      /\ PushInv
  BY DEF Inv, TypeOK
<1>1. /\ ptr[c] = reqWptr /\ Occupied(reqWptr, reqRptr) < Size
      /\ reqEntry[reqWptr % Size] = request[c] /\ request[c] \in Call
  BY <1>0 DEF WriteRequestWptr, Move, PushInv
<1>2. Contents(reqEntry, Advance(reqWptr), reqRptr) = Append(Requests, request[c])
  BY <1>0, <1>1, PushContents DEF Requests
<1>3. Len(Requests) < Size
  BY <1>0, <1>1, RoomContents DEF Requests
<1> QED
  BY <1>1, <1>2, <1>3 DEF WriteRequestWptr, Requests

(* The firmware takes the oldest one.                                      *)
LEMMA RequestTaken ==
  ASSUME Inv, FwTake
  PROVE  Requests # <<>> /\ Requests' = Tail(Requests) /\ fw' = Requests[1]
<1>0. /\ reqEntry \in [Slot -> 0 .. MaxCalls] /\ reqWptr \in Pointer /\ reqRptr \in Pointer
      /\ Occupied(reqWptr, reqRptr) <= Size /\ reqRptr # reqWptr
  BY DEF Inv, TypeOK, BoundInv, FwTake
<1>1. /\ Requests # <<>>
      /\ Contents(reqEntry, reqWptr, Advance(reqRptr)) = Tail(Requests)
  BY <1>0, PopContents DEF Requests
<1>2. Requests[1] = reqEntry[reqRptr % Size]
  BY <1>0, FirstContents DEF Requests
<1> QED
  BY <1>1, <1>2 DEF FwTake, Requests

(* Publishing a write pointer is the Put of the request ring, the          *)
(* firmware's FwTake its Get.                                              *)
LEMMA RequestStep == Inv /\ [Next]_vars => [RequestQueue!Next]_Requests
<1> SUFFICES ASSUME Inv, [Next]_vars PROVE RequestQueue!Next \/ Requests' = Requests
  OBVIOUS
<1> USE DEF callerVars, headerVars, fwVars
<1>1. ASSUME NEW c \in Caller, WriteRequest(c) PROVE Requests' = Requests
  BY <1>1, RequestWritten
<1>2. ASSUME NEW c \in Caller, WriteRequestWptr(c) PROVE RequestQueue!Next
  <2>1. RequestQueue!Put(request[c])
    BY <1>2, RequestPushed DEF RequestQueue!Put
  <2> QED
    BY <1>2, <2>1, RequestPushed DEF RequestQueue!Next
<1>3. ASSUME FwTake PROVE RequestQueue!Next
  <2>1. RequestQueue!Get
    BY <1>3, RequestTaken DEF RequestQueue!Get
  <2> QED
    BY <2>1 DEF RequestQueue!Next
<1>4. CASE UNCHANGED <<reqWptr, reqRptr, reqEntry>>
  BY <1>4 DEF Requests
<1>5. ASSUME NEW c \in Caller,
             \/ Acquire(c) \/ RejectArgs(c) \/ ReadRequestWptr(c) \/ RequestHasRoom(c)
             \/ TriggerFwInt(c) \/ ReadResponseRptr(c) \/ ResponseArrived(c)
             \/ ReadResponse(c) \/ WriteResponseRptr(c) \/ Return(c) \/ TimeOut(c)
             \/ Crash(c)
      PROVE UNCHANGED <<reqWptr, reqRptr, reqEntry>>
  BY <1>5 DEF Acquire, RejectArgs, ReadRequestWptr, RequestHasRoom, TriggerFwInt,
     ReadResponseRptr, ResponseArrived, ReadResponse, WriteResponseRptr, Return,
     TimeOut, Crash
<1>6. ASSUME FwAnswer \/ FwIdle \/ Done \/ UNCHANGED vars
      PROVE UNCHANGED <<reqWptr, reqRptr, reqEntry>>
  BY <1>6 DEF FwAnswer, FwIdle, Done, vars
<1> QED
  BY <1>1, <1>2, <1>3, <1>4, <1>5, <1>6 DEF Next, Proceed, Firmware

(* The request ring: no pending request is lost, overwritten, repeated or  *)
(* reordered by push_request, with timeouts and crashes at any step.       *)
THEOREM RequestRefinement == Spec => RequestsFifo
<1>1. Init => RequestQueue!Init
  BY RingsStartEmpty
<1> QED
  BY <1>1, Invariance, RequestStep, PTL DEF Spec, RequestsFifo, RequestQueue!Spec

(* FwAnswer appends the answer to the firmware's message.                  *)
LEMMA ResponsePushed ==
  ASSUME Inv, FwAnswer
  PROVE  \E r \in Response : /\ r.call = fw /\ Responses' = Append(Responses, r)
                             /\ Len(Responses) < Size
<1>0. /\ respEntry \in [Slot -> Response] /\ respWptr \in Pointer /\ respRptr \in Pointer
      /\ Occupied(respWptr, respRptr) <= Size /\ fw \in 0 .. MaxCalls
  BY DEF Inv, TypeOK, BoundInv
<1>1. PICK s \in Status :
        respEntry' = [respEntry EXCEPT ![respWptr % Size] = [call |-> fw, status |-> s]]
  BY DEF FwAnswer
<1> DEFINE m == [call |-> fw, status |-> s]
<1>2. m \in Response
  BY <1>0 DEF Response
<1>3. respWptr % Size \in Slot /\ Occupied(respWptr, respRptr) < Size
  <2>1. Occupied(respWptr, respRptr) \in 0 .. Size /\ Occupied(respWptr, respRptr) # Size
    BY <1>0, PushOccupies DEF FwAnswer
  <2> QED
    BY <1>0, <2>1, EntrySlot
<1>4. respEntry' \in [Slot -> Response] /\ respEntry'[respWptr % Size] = m
  BY <1>0, <1>1, <1>2, <1>3
<1>5. \A t \in Slot : t # respWptr % Size => respEntry'[t] = respEntry[t]
  BY <1>0, <1>1
<1>6. Contents(respEntry', respWptr, respRptr) = Responses
  BY <1>0, <1>3, <1>4, <1>5, WriteContents DEF Responses
<1>7. Contents(respEntry', Advance(respWptr), respRptr) = Append(Responses, m)
  BY <1>0, <1>3, <1>4, <1>6, PushContents
<1>8. Len(Responses) < Size
  BY <1>0, <1>3, RoomContents DEF Responses
<1>9. Responses' = Append(Responses, m)
  BY <1>7 DEF FwAnswer, Responses
<1> QED
  BY <1>2, <1>8, <1>9

(* The store of the read pointer removes the oldest answer, which is the   *)
(* one under the pointer the caller keeps.                                 *)
LEMMA ResponseHead ==
  ASSUME Inv, NEW c \in Caller, pc[c] \in {"reading", "advancing"}
  PROVE  /\ Responses # <<>> /\ ptr[c] = respRptr
         /\ Contents(respEntry, respWptr, Advance(respRptr)) = Tail(Responses)
         /\ Responses[1] = respEntry[ptr[c] % Size]
<1>1. /\ respEntry \in [Slot -> Response] /\ respWptr \in Pointer /\ respRptr \in Pointer
      /\ ptr[c] = respRptr /\ respRptr # respWptr /\ Occupied(respWptr, respRptr) <= Size
  BY DEF Inv, TypeOK, BoundInv, PopInv
<1> QED
  BY <1>1, PopContents, FirstContents DEF Responses

\* Writing the response read pointer takes the head off the response ring.
LEMMA ResponsePopped ==
  ASSUME Inv, NEW c \in Caller, WriteResponseRptr(c)
  PROVE  Responses # <<>> /\ Responses' = Tail(Responses)
<1>1. pc[c] = "advancing" /\ respRptr' = Advance(ptr[c]) /\ UNCHANGED <<respEntry, respWptr>>
  BY DEF WriteResponseRptr, Move
<1> QED
  BY <1>1, ResponseHead DEF Responses

(* FwAnswer is the Put of the response ring, the store of the read pointer *)
(* its Get.                                                                *)
LEMMA ResponseStep == Inv /\ [Next]_vars => [ResponseQueue!Next]_Responses
<1> SUFFICES ASSUME Inv, [Next]_vars PROVE ResponseQueue!Next \/ Responses' = Responses
  OBVIOUS
<1> USE DEF callerVars, headerVars, fwVars
<1>1. ASSUME FwAnswer PROVE ResponseQueue!Next
  <2>1. PICK r \in Response : Responses' = Append(Responses, r) /\ Len(Responses) < Size
    BY <1>1, ResponsePushed
  <2>2. ResponseQueue!Put(r)
    BY <2>1 DEF ResponseQueue!Put
  <2> QED
    BY <2>2 DEF ResponseQueue!Next
<1>2. ASSUME NEW c \in Caller, WriteResponseRptr(c) PROVE ResponseQueue!Next
  <2>1. ResponseQueue!Get
    BY <1>2, ResponsePopped DEF ResponseQueue!Get
  <2> QED
    BY <2>1 DEF ResponseQueue!Next
<1>3. CASE UNCHANGED <<respWptr, respRptr, respEntry>>
  BY <1>3 DEF Responses
<1>4. ASSUME NEW c \in Caller,
             \/ Acquire(c) \/ RejectArgs(c) \/ ReadRequestWptr(c) \/ RequestHasRoom(c)
             \/ WriteRequest(c) \/ WriteRequestWptr(c) \/ TriggerFwInt(c)
             \/ ReadResponseRptr(c) \/ ResponseArrived(c) \/ ReadResponse(c)
             \/ Return(c) \/ TimeOut(c) \/ Crash(c)
      PROVE UNCHANGED <<respWptr, respRptr, respEntry>>
  BY <1>4 DEF Acquire, RejectArgs, ReadRequestWptr, RequestHasRoom, WriteRequest,
     WriteRequestWptr, TriggerFwInt, ReadResponseRptr, ResponseArrived, ReadResponse,
     Return, TimeOut, Crash
<1>5. ASSUME FwTake \/ FwIdle \/ Done \/ UNCHANGED vars
      PROVE UNCHANGED <<respWptr, respRptr, respEntry>>
  BY <1>5 DEF FwTake, FwIdle, Done, vars
<1> QED
  BY <1>1, <1>2, <1>3, <1>4, <1>5 DEF Next, Proceed, Firmware

(* The response ring: pop_response takes every answer once and in order.   *)
THEOREM ResponseRefinement == Spec => ResponsesFifo
<1>1. Init => ResponseQueue!Init
  BY RingsStartEmpty
<1> QED
  BY <1>1, Invariance, ResponseStep, PTL DEF Spec, ResponsesFifo, ResponseQueue!Spec

-----------------------------------------------------------------------------
(* Sequences                                                               *)

(* A sequence is its head and its tail.                                    *)
LEMMA HeadFirst ==
  ASSUME NEW S, NEW s \in Seq(S), s # <<>>
  PROVE  s = <<s[1]>> \o Tail(s) /\ s[1] \in S /\ Tail(s) \in Seq(S) /\ Len(s) \in Nat \ {0}
<1>1. Len(s) \in Nat \ {0}
  BY EmptySeq
<1>2. 1 \in 1 .. Len(s) /\ Len(s) \in 1 .. Len(s)
  BY <1>1
<1>3. SubSeq(s, 1, Len(s)) = <<s[1]>> \o SubSeq(s, 1 + 1, Len(s))
  BY <1>2, SubSeqRecursiveFirst
<1>4. SubSeq(s, 1, Len(s)) = s /\ Tail(s) = SubSeq(s, 2, Len(s))
  BY SubSeqFull, TailIsSubSeq
<1>5. 1 + 1 = 2
  OBVIOUS
<1>6. s[1] \in S /\ Tail(s) \in Seq(S)
  BY <1>2, ElementOfSeq, HeadTailProperties
<1> QED
  BY <1>1, <1>3, <1>4, <1>5, <1>6

\* A single message as a sequence.
LEMMA OneIsSeq == ASSUME NEW S, NEW x \in S PROVE <<x>> \in Seq(S) /\ Len(<<x>>) = 1 /\ <<x>>[1] = x
OBVIOUS

\* Head and tail of a sequence with a message put in front.
LEMMA AfterHead ==
  ASSUME NEW S, NEW x \in S, NEW s \in Seq(S)
  PROVE  <<x>> \o s # <<>> /\ (<<x>> \o s)[1] = x /\ Tail(<<x>> \o s) = s
<1> DEFINE z == <<x>>
           y == z \o s
<1>0. z \in Seq(S) /\ Len(z) = 1 /\ z[1] = x
  BY OneIsSeq
<1> HIDE DEF z
<1>1. PICK n \in Nat : n = Len(s)
  BY LenProperties
<1>2. /\ y \in Seq(S) /\ Len(y) = 1 + n
      /\ \A i \in 1 .. 1 + n : y[i] = IF i <= 1 THEN z[i] ELSE s[i - 1]
  <2>1. /\ y \in Seq(S) /\ Len(y) = Len(z) + Len(s)
        /\ \A i \in 1 .. Len(z) + Len(s) : y[i] = IF i <= Len(z) THEN z[i] ELSE s[i - Len(z)]
    BY <1>0, ConcatProperties
  <2> HIDE DEF y
  <2> QED
    BY <1>0, <1>1, <2>1
<1> HIDE DEF y
<1>3. y # <<>> /\ y[1] = x
  BY <1>0, <1>2, EmptySeq
<1>4. Tail(y) \in Seq(S) /\ Len(Tail(y)) = n /\ \A i \in 1 .. n : Tail(y)[i] = y[i + 1]
  <2>1. /\ Tail(y) \in Seq(S) /\ Len(Tail(y)) = Len(y) - 1
        /\ \A i \in 1 .. Len(Tail(y)) : Tail(y)[i] = y[i + 1]
    BY <1>2, <1>3, HeadTailProperties
  <2>2. Len(Tail(y)) = n
    BY <1>2, <2>1
  <2> QED
    BY <2>1, <2>2
<1>5. \A i \in 1 .. n : Tail(y)[i] = s[i]
  BY <1>2, <1>4
<1>6. Tail(y) = s
  BY <1>1, <1>4, <1>5, SeqEqual
<1> QED
  BY <1>3, <1>6 DEF y, z

-----------------------------------------------------------------------------
(* The pipeline of responses, the firmware's message and requests          *)

CallNo == 0 .. MaxCalls
Calls(p) == [i \in 1 .. Len(p) |-> p[i].call]
Working(f) == IF f = 0 THEN <<>> ELSE <<f>>
Pipe(p, f, q) == (Calls(p) \o Working(f)) \o q

\* The parts of the pipeline are sequences of call numbers.
LEMMA PartsAre ==
  /\ \A p \in Seq(Response) : Calls(p) \in Seq(CallNo) /\ Len(Calls(p)) = Len(p)
  /\ \A f \in CallNo : Working(f) \in Seq(CallNo)
<1>1. ASSUME NEW p \in Seq(Response) PROVE Calls(p) \in Seq(CallNo) /\ Len(Calls(p)) = Len(p)
  <2>1. Len(p) \in Nat /\ p \in [1 .. Len(p) -> Response]
    BY LenProperties
  <2>2. Calls(p) \in [1 .. Len(p) -> CallNo]
    BY <2>1 DEF Response, Calls, CallNo
  <2> QED
    BY <2>1, <2>2, FunctionIsSeq
<1>2. ASSUME NEW f \in CallNo PROVE Working(f) \in Seq(CallNo)
  BY OneIsSeq, EmptySeq DEF Working
<1> QED
  BY <1>1, <1>2

\* The call numbers of the responses, after a response is appended.
LEMMA CallsAppend ==
  ASSUME NEW p \in Seq(Response), NEW r \in Response
  PROVE  Calls(Append(p, r)) = Append(Calls(p), r.call)
<1>1. PICK n \in Nat : n = Len(p)
  BY LenProperties
<1>2. /\ Append(p, r) \in Seq(Response) /\ Len(Append(p, r)) = n + 1
      /\ (\A i \in 1 .. n : Append(p, r)[i] = p[i]) /\ Append(p, r)[n + 1] = r
  BY <1>1, AppendProperties
<1>3. /\ Append(p, r) \in [1 .. n + 1 -> Response] /\ p \in [1 .. n -> Response]
  BY <1>1, <1>2, LenProperties
<1> DEFINE f == Calls(p)
           g == Calls(Append(p, r))
<1>4. /\ f \in [1 .. n -> CallNo] /\ g \in [1 .. n + 1 -> CallNo]
      /\ (\A i \in 1 .. n : g[i] = f[i]) /\ g[n + 1] = r.call
  BY <1>1, <1>2, <1>3 DEF Calls, Response, CallNo
<1> HIDE DEF f, g
<1>5. g = Append(f, g[n + 1])
  BY <1>4, FunctionAppend
<1> QED
  BY <1>4, <1>5 DEF f, g

\* The call numbers of the responses, after the first one is taken.
LEMMA CallsTail ==
  ASSUME NEW p \in Seq(Response), p # <<>>
  PROVE  Calls(p) # <<>> /\ Calls(Tail(p)) = Tail(Calls(p)) /\ Calls(p)[1] = p[1].call
<1>1. PICK n \in Nat \ {0} : n = Len(p)
  BY EmptySeq
<1>2. /\ Tail(p) \in Seq(Response) /\ Len(Tail(p)) = n - 1
      /\ \A i \in 1 .. n - 1 : Tail(p)[i] = p[i + 1]
  BY <1>1, HeadTailProperties
<1>3. p \in [1 .. n -> Response] /\ Tail(p) \in [1 .. n - 1 -> Response]
  BY <1>1, <1>2, LenProperties
<1> DEFINE f == Calls(p)
           g == Calls(Tail(p))
<1>4. /\ f \in [1 .. n -> CallNo] /\ g \in [1 .. n - 1 -> CallNo]
      /\ (\A i \in 1 .. n - 1 : g[i] = f[i + 1]) /\ f[1] = p[1].call
  BY <1>1, <1>2, <1>3 DEF Calls, Response, CallNo
<1> HIDE DEF f, g
<1>5. f # <<>> /\ g = Tail(f)
  BY <1>4, FunctionTail
<1> QED
  BY <1>4, <1>5 DEF f, g

\* The pipeline is a sequence of call numbers, and so is its part before the requests.
LEMMA PipeIs ==
  ASSUME NEW p \in Seq(Response), NEW f \in CallNo, NEW q \in Seq(CallNo)
  PROVE  /\ Pipe(p, f, q) \in Seq(CallNo)
         /\ Calls(p) \o Working(f) \in Seq(CallNo)
<1>1. Calls(p) \o Working(f) \in Seq(CallNo)
  BY PartsAre, ConcatProperties
<1> QED
  BY <1>1, ConcatProperties DEF Pipe

(* A push into the requests is a push into the pipeline.                   *)
LEMMA PipePush ==
  ASSUME NEW p \in Seq(Response), NEW f \in CallNo, NEW q \in Seq(CallNo), NEW x \in CallNo
  PROVE  Pipe(p, f, Append(q, x)) = Append(Pipe(p, f, q), x)
<1> DEFINE a == Calls(p) \o Working(f)
           z == <<x>>
<1>1. a \in Seq(CallNo) /\ a \o q \in Seq(CallNo) /\ z \in Seq(CallNo)
  BY PipeIs, OneIsSeq DEF Pipe
<1>2. Append(q, x) = q \o z /\ Append(a \o q, x) = (a \o q) \o z
  BY <1>1, AppendIsConcat
<1> HIDE DEF a, z
<1>3. (a \o q) \o z = a \o (q \o z)
  BY <1>1, ConcatAssociative
<1> QED
  BY <1>2, <1>3 DEF Pipe, a

(* The firmware takes a request: it stays where it is in the pipeline.     *)
LEMMA PipeTake ==
  ASSUME NEW p \in Seq(Response), NEW q \in Seq(CallNo), q # <<>>, q[1] # 0
  PROVE  Pipe(p, q[1], Tail(q)) = Pipe(p, 0, q)
<1> DEFINE a == Calls(p)
           z == <<q[1]>>
           t == Tail(q)
<1>1. q = z \o t /\ q[1] \in CallNo /\ t \in Seq(CallNo)
  BY HeadFirst
<1>2. a \in Seq(CallNo) /\ z \in Seq(CallNo)
  BY <1>1, OneIsSeq, PartsAre
<1>3. Working(q[1]) = z /\ Working(0) = <<>>
  BY DEF Working
<1> HIDE DEF a, z, t
<1>4. a \o <<>> = a
  BY <1>2, ConcatEmptySeq
<1>5. (a \o z) \o t = a \o (z \o t)
  <2>1. a \in Seq(CallNo) /\ z \in Seq(CallNo) /\ t \in Seq(CallNo)
    BY <1>1, <1>2
  <2> QED
    BY <2>1, ConcatAssociative
<1>6. Pipe(p, q[1], t) = (a \o z) \o t
  BY <1>3 DEF Pipe, a
<1>7. Pipe(p, 0, q) = a \o (z \o t)
  BY <1>1, <1>3, <1>4 DEF Pipe, a
<1> QED
  BY <1>5, <1>6, <1>7 DEF t

(* It answers: the same.                                                   *)
LEMMA PipeAnswer ==
  ASSUME NEW p \in Seq(Response), NEW f \in CallNo, NEW q \in Seq(CallNo),
         NEW r \in Response, r.call = f, f # 0
  PROVE  Pipe(Append(p, r), 0, q) = Pipe(p, f, q)
<1> DEFINE a == Calls(p)
<1>1. Calls(Append(p, r)) = Append(a, f) /\ a \in Seq(CallNo)
  BY CallsAppend, PartsAre
<1> HIDE DEF a
<1>2. Append(a, f) = a \o <<f>> /\ Append(a, f) \in Seq(CallNo)
  BY <1>1, AppendIsConcat, AppendProperties
<1>3. Append(a, f) \o <<>> = Append(a, f)
  BY <1>2, ConcatEmptySeq
<1> QED
  BY <1>1, <1>2, <1>3 DEF Pipe, Working, a

(* A pop from the responses is a pop from the pipeline.                    *)
LEMMA PipePop ==
  ASSUME NEW p \in Seq(Response), p # <<>>, NEW f \in CallNo, NEW q \in Seq(CallNo)
  PROVE  /\ Pipe(p, f, q) # <<>> /\ Pipe(p, f, q)[1] = p[1].call
         /\ Pipe(Tail(p), f, q) = Tail(Pipe(p, f, q))
<1> DEFINE a == Calls(p)
           t == Tail(a)
           x == a[1]
           z == <<x>>
           w == Working(f)
<1>1. /\ a # <<>> /\ a \in Seq(CallNo) /\ Calls(Tail(p)) = t /\ x = p[1].call
      /\ w \in Seq(CallNo)
  BY CallsTail, PartsAre
<1> HIDE DEF a, w
<1>2. a = z \o t /\ x \in CallNo /\ t \in Seq(CallNo)
  BY <1>1, HeadFirst
<1>3. z \in Seq(CallNo)
  BY <1>2, OneIsSeq
<1> HIDE DEF t, x
<1>4. t \o w \in Seq(CallNo) /\ (t \o w) \o q \in Seq(CallNo)
  <2>1. t \o w \in Seq(CallNo)
    BY <1>1, <1>2, ConcatProperties
  <2> QED
    BY <2>1, ConcatProperties
<1>5. /\ z \o ((t \o w) \o q) # <<>> /\ (z \o ((t \o w) \o q))[1] = x
      /\ Tail(z \o ((t \o w) \o q)) = (t \o w) \o q
  BY <1>2, <1>4, AfterHead
<1> HIDE DEF z
<1>6. (z \o t) \o w = z \o (t \o w)
  <2>1. z \in Seq(CallNo) /\ t \in Seq(CallNo) /\ w \in Seq(CallNo)
    BY <1>1, <1>2, <1>3
  <2> QED
    BY <2>1, ConcatAssociative
<1>7. (z \o (t \o w)) \o q = z \o ((t \o w) \o q)
  <2> DEFINE y == t \o w
  <2>1. y \in Seq(CallNo)
    BY <1>4
  <2> HIDE DEF y
  <2>2. (z \o y) \o q = z \o (y \o q)
    BY <1>3, <2>1, ConcatAssociative
  <2> QED
    BY <2>2 DEF y
<1>8. Pipe(p, f, q) = z \o ((t \o w) \o q) /\ Pipe(Tail(p), f, q) = (t \o w) \o q
  BY <1>1, <1>2, <1>6, <1>7 DEF Pipe, a, w
<1> QED
  BY <1>1, <1>5, <1>8

\* The pipeline is built from the two rings and the message the firmware works on.
LEMMA PipelineIs ==
  ASSUME Inv
  PROVE  /\ Pipeline = Pipe(Responses, fw, Requests) /\ Pipeline \in Seq(CallNo)
         /\ Responses \in Seq(Response) /\ fw \in CallNo /\ Requests \in Seq(CallNo)
<1>1. /\ reqEntry \in [Slot -> CallNo] /\ reqWptr \in Pointer /\ reqRptr \in Pointer
      /\ respEntry \in [Slot -> Response] /\ respWptr \in Pointer /\ respRptr \in Pointer
      /\ Occupied(reqWptr, reqRptr) <= Size /\ Occupied(respWptr, respRptr) <= Size
      /\ fw \in CallNo
  BY DEF Inv, TypeOK, BoundInv, CallNo
<1>2. Requests \in Seq(CallNo) /\ Responses \in Seq(Response)
  BY <1>1, ContentsIs DEF Requests, Responses
<1>3. Pipeline = Pipe(Responses, fw, Requests)
  BY DEF Pipeline, Pipe, Calls, Working
<1> QED
  BY <1>1, <1>2, <1>3, PipeIs

(* What a step does to the pipeline: a call publishes at its end and pops  *)
(* at its head; the firmware moves messages along.                         *)
LEMMA PipelinePushed ==
  ASSUME Inv, NEW c \in Caller, WriteRequestWptr(c)
  PROVE  Pipeline' = Append(Pipeline, request[c]) /\ request[c] \in CallNo
<1>1. /\ Requests' = Append(Requests, request[c]) /\ request[c] \in CallNo
  BY RequestPushed DEF Call, CallNo
<1>2. UNCHANGED <<Responses, fw>>
  BY DEF WriteRequestWptr, fwVars, Responses
<1>3. Pipeline' = Pipe(Responses, fw, Append(Requests, request[c]))
  BY <1>1, <1>2 DEF Pipeline, Pipe, Calls, Working
<1> QED
  <2>1. Responses \in Seq(Response) /\ fw \in CallNo /\ Requests \in Seq(CallNo)
    BY PipelineIs
  <2>2. Pipe(Responses, fw, Append(Requests, request[c]))
          = Append(Pipe(Responses, fw, Requests), request[c])
    BY <1>1, <2>1, PipePush
  <2> QED
    BY <1>1, <1>3, <2>2, PipelineIs

\* A caller that takes a response takes the head of the pipeline.
LEMMA PipelinePopped ==
  ASSUME Inv, NEW c \in Caller, WriteResponseRptr(c)
  PROVE  Pipeline # <<>> /\ Pipeline' = Tail(Pipeline)
<1>1. Responses # <<>> /\ Responses' = Tail(Responses)
  BY ResponsePopped
<1>2. UNCHANGED <<Requests, fw>>
  BY DEF WriteResponseRptr, fwVars, Requests
<1>3. Pipeline' = Pipe(Tail(Responses), fw, Requests)
  BY <1>1, <1>2 DEF Pipeline, Pipe, Calls, Working
<1> QED
  <2>1. Responses \in Seq(Response) /\ fw \in CallNo /\ Requests \in Seq(CallNo)
    BY PipelineIs
  <2>2. /\ Pipe(Responses, fw, Requests) # <<>>
        /\ Pipe(Tail(Responses), fw, Requests) = Tail(Pipe(Responses, fw, Requests))
    BY <1>1, <2>1, PipePop
  <2> QED
    BY <1>3, <2>2, PipelineIs

\* The firmware taking a request moves it along the pipeline without changing the order.
LEMMA PipelineTaken ==
  ASSUME Inv, FwTake, \A i \in 1 .. Len(Pipeline) : Pipeline[i] # 0
  PROVE  Pipeline' = Pipeline
<1>1. Requests # <<>> /\ Requests' = Tail(Requests) /\ fw' = Requests[1] /\ fw = 0
  BY RequestTaken DEF FwTake
<1>2. UNCHANGED Responses
  BY DEF FwTake, Responses
<1>3. Requests[1] # 0
  <2> DEFINE a == Calls(Responses)
  <2>1. a \in Seq(CallNo) /\ Requests \in Seq(CallNo)
    BY PipelineIs, PartsAre
  <2>2. a \o Working(0) = a
    BY <2>1, ConcatEmptySeq DEF Working
  <2>3. Pipeline = a \o Requests
    BY <1>1, <2>2, PipelineIs DEF Pipe
  <2> HIDE DEF a
  <2>4. PICK n \in Nat, m \in Nat \ {0} : n = Len(a) /\ m = Len(Requests)
    BY <1>1, <2>1, LenProperties, EmptySeq
  <2>5. /\ Len(a \o Requests) = Len(a) + Len(Requests)
        /\ \A i \in 1 .. Len(a) + Len(Requests) :
             (a \o Requests)[i] = IF i <= Len(a) THEN a[i] ELSE Requests[i - Len(a)]
    BY <2>1, ConcatProperties
  <2>6. n + 1 \in 1 .. n + m /\ ~(n + 1 <= n) /\ n + 1 - n = 1
    BY <2>4
  <2>7. Pipeline[n + 1] = Requests[1] /\ n + 1 \in 1 .. Len(Pipeline)
    BY <2>3, <2>4, <2>5, <2>6
  <2> QED
    BY <2>7
<1>4. Pipeline' = Pipe(Responses, Requests[1], Tail(Requests))
  BY <1>1, <1>2 DEF Pipeline, Pipe, Calls, Working
<1> QED
  BY <1>1, <1>3, <1>4, PipelineIs, PipeTake

\* The firmware answering moves its message into the response ring; the pipeline is the same.
LEMMA PipelineAnswered == ASSUME Inv, FwAnswer PROVE Pipeline' = Pipeline
<1>1. PICK r \in Response : r.call = fw /\ Responses' = Append(Responses, r)
  BY ResponsePushed
<1>2. fw # 0 /\ fw' = 0 /\ UNCHANGED Requests
  BY DEF FwAnswer, Requests
<1>3. Pipeline' = Pipe(Append(Responses, r), 0, Requests)
  BY <1>1, <1>2 DEF Pipeline, Pipe, Calls, Working
<1> QED
  BY <1>1, <1>2, <1>3, PipelineIs, PipeAnswer

(* No other step of a caller touches it.                                   *)
Inside(c) ==
  \/ Acquire(c) \/ RejectArgs(c) \/ ReadRequestWptr(c) \/ RequestHasRoom(c)
  \/ WriteRequest(c) \/ TriggerFwInt(c) \/ ReadResponseRptr(c) \/ ResponseArrived(c)
  \/ ReadResponse(c) \/ Return(c) \/ TimeOut(c) \/ Crash(c)

\* The steps of a call that move no published pointer leave the pipeline alone.
LEMMA PipelineKept == ASSUME Inv, NEW c \in Caller, Inside(c) PROVE Pipeline' = Pipeline
<1>1. Requests' = Requests
  <2>1. CASE WriteRequest(c)
    BY <2>1, RequestWritten
  <2>2. CASE ~WriteRequest(c)
    BY <2>2 DEF Inside, Acquire, RejectArgs, ReadRequestWptr, RequestHasRoom, TriggerFwInt,
       ReadResponseRptr, ResponseArrived, ReadResponse, Return, TimeOut, Crash, headerVars,
       Requests
  <2> QED
    BY <2>1, <2>2
<1>2. UNCHANGED <<Responses, fw>>
  BY DEF Inside, Acquire, RejectArgs, ReadRequestWptr, RequestHasRoom, WriteRequest,
     TriggerFwInt, ReadResponseRptr, ResponseArrived, ReadResponse, Return, TimeOut, Crash,
     headerVars, fwVars, Responses
<1> QED
  BY <1>1, <1>2 DEF Pipeline


-----------------------------------------------------------------------------
(* Answers match calls                                                     *)

BeforePush == {"locked", "pushing", "writing", "publishing"}
AwaitingAnswer == {"triggering", "triggered", "popping", "reading", "advancing"}

(* Calls are numbered under the lock, so that a message is always newer    *)
(* than what is under way when it is pushed; a caller that has read the    *)
(* head of the pipeline pops just that.                                    *)
Ordered ==
  /\ \A i \in 1 .. Len(Pipeline) : Pipeline[i] \in 1 .. calls
  /\ \A i, j \in 1 .. Len(Pipeline) : i < j => Pipeline[i] < Pipeline[j]

OrderAt(c) ==
  /\ pc[c] # "idle" => request[c] = calls
  /\ pc[c] \in BeforePush => \A i \in 1 .. Len(Pipeline) : Pipeline[i] < calls
  /\ pc[c] = "advancing" => response[c].call = Pipeline[1]
  /\ pc[c] = "returning" => \A i \in 1 .. Len(Pipeline) : response[c].call < Pipeline[i]

OrderInv == Ordered /\ \A c \in Caller : OrderAt(c)

(* Until a call is broken off, the pipeline holds what the caller with the *)
(* lock has under way and nothing else.                                    *)
OwnAt(c) ==
  /\ pc[c] \in BeforePush \cup {"returning"} => Pipeline = <<>>
  /\ pc[c] \in AwaitingAnswer => Pipeline = <<request[c]>>
  /\ pc[c] = "returning" => response[c].call = request[c]

OwnInv ==
  ~disturbed => (holders = {} => Pipeline = <<>>) /\ \A c \in Caller : OwnAt(c)

\* Both parts of the strengthening hold before the first call.
LEMMA AnswerInit == MCInit => OrderInv /\ OwnInv
<1> SUFFICES ASSUME MCInit PROVE OrderInv /\ OwnInv
  OBVIOUS
<1>1. Inv /\ Init
  BY InitInvariant DEF MCInit
<1>2. Requests = <<>> /\ Responses = <<>> /\ fw = 0
  BY <1>1, RingsStartEmpty DEF RequestQueue!Init, ResponseQueue!Init, Init
<1>3. Pipeline = <<>> /\ Len(Pipeline) = 0
  <2>1. Calls(<<>>) = <<>>
    BY DEF Calls
  <2>2. Pipeline = (<<>> \o <<>>) \o <<>>
    BY <1>1, <1>2, <2>1, PipelineIs DEF Pipe, Working
  <2> QED
    BY <2>2, ConcatEmptySeq, EmptySeq
<1> QED
  BY <1>1, <1>3 DEF Init, OrderInv, Ordered, OrderAt, OwnInv, OwnAt, BeforePush, AwaitingAnswer

(* Steps that leave the pipeline and the caller with the lock alone.       *)
LEMMA AnswerAside ==
  ASSUME Pipeline' = Pipeline, UNCHANGED callerVars, ~disturbed' => ~disturbed,
         OrderInv, OwnInv
  PROVE  OrderInv' /\ OwnInv'
BY DEF OrderInv, Ordered, OrderAt, OwnInv, OwnAt, callerVars


(* The lock is held by one caller, and the others are out of send_message. *)
LEMMA OneCaller ==
  ASSUME Inv, NEW c \in Caller, pc[c] # "idle"
  PROVE  holders = {c} /\ \A d \in Caller : d # c => pc[d] = "idle"
BY DEF Inv, LockInv

(* Remember only ever sets the history variable, and a step that takes a   *)
(* caller back to "idle" with a message under way sets it.                 *)
LEMMA RememberIs ==
  ASSUME Remember, ~disturbed'
  PROVE  ~disturbed /\ \A c \in Caller : pc'[c] = "idle" =>
           pc[c] \in {"idle", "locked", "returning"}
BY DEF Remember, UnderWay

(* send_message takes the lock: its call is newer than all under way.      *)
LEMMA AnswerAcquire ==
  ASSUME Inv, OrderInv, OwnInv, NEW c \in Caller, Acquire(c), Remember
  PROVE  OrderInv' /\ OwnInv'
<1>0. Pipeline' = Pipeline
  BY PipelineKept DEF Inside
<1>1. /\ calls \in Nat /\ calls' = calls + 1 /\ Pipeline' = Pipeline
      /\ holders = {} /\ holders' = {c}
      /\ pc' = [pc EXCEPT ![c] = "locked"] /\ pc \in [Caller -> Labels]
      /\ request' = [request EXCEPT ![c] = calls + 1] /\ request \in [Caller -> CallNo]
  BY <1>0 DEF Inv, TypeOK, Acquire, Move, Lock!Enter, CallNo
<1>2. \A d \in Caller : pc[d] = "idle"
  BY <1>1 DEF Inv, LockInv
<1>3. /\ pc'[c] = "locked" /\ request'[c] = calls'
      /\ \A d \in Caller : d # c => pc'[d] = "idle"
  BY <1>1, <1>2
<1>4. \A i \in 1 .. Len(Pipeline) : Pipeline[i] \in 1 .. calls'
                                    /\ Pipeline[i] < calls'
  BY <1>1 DEF OrderInv, Ordered
<1>5. OrderInv'
  <2>1. Ordered'
    BY <1>1, <1>4 DEF OrderInv, Ordered
  <2>2. ASSUME NEW d \in Caller PROVE OrderAt(d)'
    BY <1>1, <1>3, <1>4 DEF OrderAt, BeforePush
  <2> QED
    BY <2>1, <2>2 DEF OrderInv
<1>6. OwnInv'
  <2> SUFFICES ASSUME ~disturbed' PROVE \A d \in Caller : OwnAt(d)'
    BY <1>1 DEF OwnInv
  <2>1. Pipeline' = <<>>
    BY <1>1, RememberIs DEF OwnInv
  <2> QED
    BY <1>3, <2>1 DEF OwnAt, BeforePush, AwaitingAnswer
<1> QED
  BY <1>5, <1>6

(* A call that goes on without touching the pipeline.                      *)
Along(c) ==
  \/ ReadRequestWptr(c) \/ RequestHasRoom(c) \/ WriteRequest(c)
  \/ TriggerFwInt(c) \/ ReadResponseRptr(c) \/ ResponseArrived(c)

\* The steps of a call that leave the pipeline alone keep the strengthening.
LEMMA AnswerAlong ==
  ASSUME Inv, OrderInv, OwnInv, NEW c \in Caller, Along(c), Remember
  PROVE  OrderInv' /\ OwnInv'
<1>1. Pipeline' = Pipeline
  BY PipelineKept DEF Inside, Along
<1>2. PICK to \in BeforePush \cup {"triggered", "popping", "reading"} :
        /\ pc' = [pc EXCEPT ![c] = to] /\ pc[c] # "idle"
        /\ to \in BeforePush => pc[c] \in BeforePush
        /\ to \notin BeforePush => pc[c] \in AwaitingAnswer
  BY DEF Along, ReadRequestWptr, RequestHasRoom, WriteRequest, TriggerFwInt,
     ReadResponseRptr, ResponseArrived, Move, BeforePush, AwaitingAnswer
<1>3. UNCHANGED <<holders, request, response, calls>>
  BY DEF Along, ReadRequestWptr, RequestHasRoom, WriteRequest, TriggerFwInt,
     ReadResponseRptr, ResponseArrived
<1>4. /\ holders = {c} /\ pc'[c] = to
      /\ \A d \in Caller : d # c => pc[d] = "idle" /\ pc'[d] = "idle"
  BY <1>2, OneCaller DEF Inv, TypeOK
<1>5. to # "idle" /\ to \notin {"advancing", "returning"}
  BY <1>2 DEF BeforePush
<1>6. OrderInv'
  <2>1. Ordered'
    BY <1>1, <1>3 DEF OrderInv, Ordered
  <2>2. ASSUME NEW d \in Caller PROVE OrderAt(d)'
    BY <1>1, <1>2, <1>3, <1>4, <1>5 DEF OrderInv, OrderAt, BeforePush
  <2> QED
    BY <2>1, <2>2 DEF OrderInv
<1>7. OwnInv'
  <2> SUFFICES ASSUME ~disturbed', NEW d \in Caller PROVE OwnAt(d)'
    BY <1>3, <1>4 DEF OwnInv
  <2>1. OwnAt(c)
    BY RememberIs DEF OwnInv
  <2> QED
    BY <1>1, <1>2, <1>3, <1>4, <1>5, <2>1 DEF OwnAt, BeforePush, AwaitingAnswer
<1> QED
  BY <1>6, <1>7

(* A call that ends: undisturbed, it has nothing in the pipeline.          *)
LEMMA AnswerEnd ==
  ASSUME Inv, OrderInv, OwnInv, NEW c \in Caller, Remember,
         RejectArgs(c) \/ Return(c) \/ TimeOut(c) \/ Crash(c)
  PROVE  OrderInv' /\ OwnInv'
<1>1. Pipeline' = Pipeline
  BY PipelineKept DEF Inside
<1>2. pc' = [pc EXCEPT ![c] = "idle"] /\ pc[c] # "idle" /\ UNCHANGED calls
  BY DEF RejectArgs, Return, TimeOut, Crash, Move
<1>3. \A d \in Caller : pc'[d] = "idle"
  BY <1>2, OneCaller DEF Inv, TypeOK
<1>4. OrderInv'
  BY <1>1, <1>2, <1>3 DEF OrderInv, Ordered, OrderAt, BeforePush
<1>5. OwnInv'
  <2> SUFFICES ASSUME ~disturbed' PROVE Pipeline' = <<>>
    BY <1>3 DEF OwnInv, OwnAt, BeforePush, AwaitingAnswer
  <2>1. pc[c] \in BeforePush \cup {"returning"} /\ OwnAt(c)
    BY <1>2, <1>3, RememberIs DEF OwnInv, BeforePush
  <2> QED
    BY <1>1, <2>1 DEF OwnAt
<1> QED
  BY <1>4, <1>5

(* The request is published at the end of the pipeline.                    *)
LEMMA AnswerPush ==
  ASSUME Inv, OrderInv, OwnInv, NEW c \in Caller, WriteRequestWptr(c), Remember
  PROVE  OrderInv' /\ OwnInv'
<1>1. /\ Pipeline' = Append(Pipeline, request[c]) /\ Pipeline \in Seq(CallNo)
      /\ request[c] \in CallNo
  BY PipelinePushed, PipelineIs
<1>2. /\ pc' = [pc EXCEPT ![c] = "triggering"] /\ pc[c] = "publishing"
      /\ UNCHANGED <<holders, request, response, calls>>
  BY DEF WriteRequestWptr, Move
<1>3. /\ holders = {c} /\ pc'[c] = "triggering"
      /\ \A d \in Caller : d # c => pc[d] = "idle" /\ pc'[d] = "idle"
  BY <1>2, OneCaller DEF Inv, TypeOK
<1>4. /\ request[c] = calls /\ calls \in 1 .. MaxCalls
      /\ \A i \in 1 .. Len(Pipeline) : Pipeline[i] < calls
  BY <1>2 DEF OrderInv, OrderAt, BeforePush, Inv, PushInv, Call
<1>5. PICK n \in Nat : n = Len(Pipeline)
  BY <1>1, LenProperties
<1>6. /\ Len(Append(Pipeline, request[c])) = n + 1
      /\ Append(Pipeline, request[c])[n + 1] = calls
      /\ \A i \in 1 .. n : Append(Pipeline, request[c])[i] = Pipeline[i]
  BY <1>1, <1>4, <1>5, AppendProperties
<1>7. /\ Len(Pipeline') = n + 1 /\ Pipeline'[n + 1] = calls
      /\ \A i \in 1 .. n : Pipeline'[i] = Pipeline[i]
  BY <1>1, <1>6
<1>8. /\ \A i \in 1 .. n : Pipeline[i] \in 1 .. calls /\ Pipeline[i] < calls
      /\ \A i, j \in 1 .. n : i < j => Pipeline[i] < Pipeline[j]
  BY <1>4, <1>5 DEF OrderInv, Ordered
<1>9. OrderInv'
  <2>1. ASSUME NEW i \in 1 .. n + 1 PROVE Pipeline'[i] \in 1 .. calls
    BY <1>4, <1>7, <1>8
  <2>2. ASSUME NEW i \in 1 .. n + 1, NEW j \in 1 .. n + 1, i < j
        PROVE  Pipeline'[i] < Pipeline'[j]
    <3>1. i \in 1 .. n
      BY <2>2
    <3>2. j \in 1 .. n \/ j = n + 1
      OBVIOUS
    <3> QED
      BY <1>7, <1>8, <2>2, <3>1, <3>2
  <2>3. Ordered'
    BY <1>2, <1>7, <2>1, <2>2 DEF Ordered
  <2>4. ASSUME NEW d \in Caller PROVE OrderAt(d)'
    BY <1>2, <1>3, <1>4 DEF OrderAt, BeforePush
  <2> QED
    BY <2>3, <2>4 DEF OrderInv
<1>10. OwnInv'
  <2> SUFFICES ASSUME ~disturbed', NEW d \in Caller PROVE OwnAt(d)'
    BY <1>2, <1>3 DEF OwnInv
  <2>1. Pipeline = <<>>
    BY <1>2, RememberIs DEF OwnInv, OwnAt, BeforePush
  <2>2. Pipeline' = <<request'[c]>>
    BY <1>1, <1>2, <2>1
  <2> QED
    BY <1>3, <2>2 DEF OwnAt, BeforePush, AwaitingAnswer
<1> QED
  BY <1>9, <1>10

(* The caller reads the head of the pipeline.                              *)
LEMMA AnswerRead ==
  ASSUME Inv, OrderInv, OwnInv, NEW c \in Caller, ReadResponse(c), Remember
  PROVE  OrderInv' /\ OwnInv'
<1>1. Pipeline' = Pipeline
  BY PipelineKept DEF Inside
<1>2. /\ pc' = [pc EXCEPT ![c] = "advancing"] /\ pc[c] = "reading"
      /\ response' = [response EXCEPT ![c] = respEntry[ptr[c] % Size]]
      /\ UNCHANGED <<holders, request, calls>>
  BY DEF ReadResponse, Move
<1>3. /\ holders = {c} /\ pc'[c] = "advancing" /\ response'[c] = respEntry[ptr[c] % Size]
      /\ \A d \in Caller : d # c => pc[d] = "idle" /\ pc'[d] = "idle"
  BY <1>2, OneCaller DEF Inv, TypeOK
<1>4. response'[c].call = Pipeline[1]
  <2>1. Responses # <<>> /\ Responses[1] = respEntry[ptr[c] % Size]
    BY <1>2, ResponseHead
  <2>2. Pipe(Responses, fw, Requests)[1] = Responses[1].call
    BY <2>1, PipelineIs, PipePop
  <2> QED
    BY <1>3, <2>1, <2>2, PipelineIs
<1>5. OrderInv'
  <2>1. Ordered'
    BY <1>1, <1>2 DEF OrderInv, Ordered
  <2>2. ASSUME NEW d \in Caller PROVE OrderAt(d)'
    BY <1>1, <1>2, <1>3, <1>4 DEF OrderInv, OrderAt, BeforePush
  <2> QED
    BY <2>1, <2>2 DEF OrderInv
<1>6. OwnInv'
  <2> SUFFICES ASSUME ~disturbed', NEW d \in Caller PROVE OwnAt(d)'
    BY <1>2, <1>3 DEF OwnInv
  <2>1. Pipeline = <<request[c]>>
    BY <1>2, RememberIs DEF OwnInv, OwnAt, AwaitingAnswer
  <2> QED
    BY <1>1, <1>2, <1>3, <2>1 DEF OwnAt, BeforePush, AwaitingAnswer
<1> QED
  BY <1>5, <1>6

(* It pops what it has read.                                               *)
LEMMA AnswerPop ==
  ASSUME Inv, OrderInv, OwnInv, NEW c \in Caller, WriteResponseRptr(c), Remember
  PROVE  OrderInv' /\ OwnInv'
<1>1. Pipeline # <<>> /\ Pipeline' = Tail(Pipeline) /\ Pipeline \in Seq(CallNo)
  BY PipelinePopped, PipelineIs
<1>2. /\ pc' = [pc EXCEPT ![c] = "returning"] /\ pc[c] = "advancing"
      /\ UNCHANGED <<holders, request, response, calls>>
  BY DEF WriteResponseRptr, Move
<1>3. /\ holders = {c} /\ pc'[c] = "returning"
      /\ \A d \in Caller : d # c => pc[d] = "idle" /\ pc'[d] = "idle"
  BY <1>2, OneCaller DEF Inv, TypeOK
<1>4. response[c].call = Pipeline[1] /\ request[c] = calls
  BY <1>2 DEF OrderInv, OrderAt
<1>5. PICK n \in Nat : Len(Pipeline) = n + 1
  <2>1. PICK m \in Nat : m = Len(Pipeline) /\ m # 0
    BY <1>1, LenProperties, EmptySeq
  <2> QED
    BY <2>1, m - 1 \in Nat
<1>6. Len(Tail(Pipeline)) = n /\ \A i \in 1 .. n : Tail(Pipeline)[i] = Pipeline[i + 1]
  BY <1>1, <1>5, HeadTailProperties
<1>7. Len(Pipeline') = n /\ \A i \in 1 .. n : Pipeline'[i] = Pipeline[i + 1]
  BY <1>1, <1>6
<1>8. /\ \A i \in 1 .. n + 1 : Pipeline[i] \in 1 .. calls
      /\ \A i, j \in 1 .. n + 1 : i < j => Pipeline[i] < Pipeline[j]
  BY <1>5 DEF OrderInv, Ordered
<1>9. OrderInv'
  <2>1. ASSUME NEW i \in 1 .. n
        PROVE  Pipeline'[i] \in 1 .. calls /\ response[c].call < Pipeline'[i]
    <3>1. i + 1 \in 1 .. n + 1 /\ 1 \in 1 .. n + 1 /\ 1 < i + 1
      OBVIOUS
    <3> QED
      BY <1>4, <1>7, <1>8, <3>1
  <2>2. ASSUME NEW i \in 1 .. n, NEW j \in 1 .. n, i < j
        PROVE  Pipeline'[i] < Pipeline'[j]
    <3>1. i + 1 \in 1 .. n + 1 /\ j + 1 \in 1 .. n + 1 /\ i + 1 < j + 1
      BY <2>2
    <3> QED
      BY <1>7, <1>8, <3>1
  <2>3. Ordered'
    BY <1>2, <1>7, <2>1, <2>2 DEF Ordered
  <2>4. ASSUME NEW d \in Caller PROVE OrderAt(d)'
    BY <1>2, <1>3, <1>4, <1>7, <2>1 DEF OrderAt, BeforePush
  <2> QED
    BY <2>3, <2>4 DEF OrderInv
<1>10. OwnInv'
  <2> SUFFICES ASSUME ~disturbed', NEW d \in Caller PROVE OwnAt(d)'
    BY <1>2, <1>3 DEF OwnInv
  <2>1. Pipeline = <<request[c]>>
    BY <1>2, RememberIs DEF OwnInv, OwnAt, AwaitingAnswer
  <2>2. Pipeline' = <<>> /\ response[c].call = request[c]
    BY <1>1, <1>4, <2>1
  <2> QED
    BY <1>2, <1>3, <2>2 DEF OwnAt, AwaitingAnswer
<1> QED
  BY <1>9, <1>10

\* Every step keeps the order of the pipeline and the ownership of its messages.
LEMMA AnswerNext ==
  Inv /\ OrderInv /\ OwnInv /\ [MCNext]_<<vars, disturbed>> => OrderInv' /\ OwnInv'
<1> SUFFICES ASSUME Inv, OrderInv, OwnInv, [MCNext]_<<vars, disturbed>>
             PROVE  OrderInv' /\ OwnInv'
  OBVIOUS
<1>1. ASSUME NEW c \in Caller, Acquire(c) \/ RejectArgs(c) \/ Proceed(c) \/ Crash(c), Remember
      PROVE  OrderInv' /\ OwnInv'
  <2>1. \/ Acquire(c) \/ Along(c) \/ WriteRequestWptr(c) \/ ReadResponse(c)
        \/ WriteResponseRptr(c) \/ (RejectArgs(c) \/ Return(c) \/ TimeOut(c) \/ Crash(c))
    BY <1>1, Zenon DEF Proceed, Along
  <2> QED
    BY <1>1, <2>1, AnswerAcquire, AnswerAlong, AnswerPush, AnswerRead, AnswerPop, AnswerEnd
<1>2. Remember => (~disturbed' => ~disturbed)
  BY RememberIs
<1>3. ASSUME Firmware, Remember PROVE OrderInv' /\ OwnInv'
  <2>1. UNCHANGED callerVars
    BY <1>3 DEF Firmware, FwTake, FwAnswer, FwIdle
  <2>2. ~disturbed' => ~disturbed
    BY <1>2, <1>3
  <2>3. Pipeline' = Pipeline
    <3>1. CASE FwTake
      <4>1. \A i \in 1 .. Len(Pipeline) : Pipeline[i] # 0
        BY DEF OrderInv, Ordered, Inv, TypeOK
      <4> QED
        BY <3>1, <4>1, PipelineTaken
    <3>2. CASE FwAnswer
      BY <3>2, PipelineAnswered
    <3>3. CASE FwIdle
      BY <3>3 DEF FwIdle, headerVars, Pipeline, Responses, Requests
    <3> QED
      BY <1>3, <3>1, <3>2, <3>3 DEF Firmware
  <2> QED
    BY <2>1, <2>2, <2>3, AnswerAside
<1>4. ASSUME UNCHANGED vars, Remember \/ UNCHANGED disturbed PROVE OrderInv' /\ OwnInv'
  <2>1. UNCHANGED callerVars /\ (~disturbed' => ~disturbed)
    BY <1>2, <1>4 DEF vars, callerVars
  <2>2. Pipeline' = Pipeline
    BY <1>4 DEF vars, headerVars, fwVars, Pipeline, Responses, Requests
  <2> QED
    BY <2>1, <2>2, AnswerAside
<1> QED
  BY <1>1, <1>3, <1>4 DEF MCNext, Next, Done

(* send_message and the answers, for every ring size and any number of     *)
(* callers and calls, with timeouts and crashes: messages are answered in  *)
(* the order of the calls, and until a call is broken off with its message *)
(* under way, each call returns its own answer and leaves the rings empty. *)
THEOREM AnswersMatch == MCSpec => []AnswersMatchCalls
<1>1. MCInit => Inv /\ OrderInv /\ OwnInv
  BY InitInvariant, AnswerInit DEF MCInit
<1>2. Inv /\ OrderInv /\ OwnInv /\ [MCNext]_<<vars, disturbed>>
        => (Inv /\ OrderInv /\ OwnInv)'
  <2> SUFFICES ASSUME Inv, OrderInv, OwnInv, [MCNext]_<<vars, disturbed>>
               PROVE  Inv' /\ OrderInv' /\ OwnInv'
    OBVIOUS
  <2>1. [Next]_vars
    BY DEF MCNext
  <2> QED
    BY <2>1, NextInvariant, AnswerNext
<1>3. Inv /\ OrderInv /\ OwnInv => AnswersMatchCalls
  BY DEF Inv, OrderInv, Ordered, OrderAt, OwnInv, OwnAt, AnswersMatchCalls,
     AnsweredInOrder, OwnResponse, NothingLeftBehind
<1> QED
  BY <1>1, <1>2, <1>3, PTL DEF MCSpec
=============================================================================
