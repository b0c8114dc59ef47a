---------------------- MODULE BlackholeArcMessageQueue ----------------------
(***************************************************************************)
(* Messages to the ARC firmware of a Blackhole chip: the request and       *)
(* response rings that BlackholeArcMessageQueue shares with the firmware,  *)
(* used by callers of BlackholeArcMessenger::send_message in any number of *)
(* processes under the cross-process ARC_MSG lock.  Every access to device *)
(* memory is a step of its own.  Calls may time out and processes may die  *)
(* between any two accesses; the lock is robust, so both give it back.     *)
(***************************************************************************)
EXTENDS Ring, Sequences

CONSTANTS
  Caller,    \* threads that call send_message
  MaxCalls,  \* bound on the number of calls
  Faults     \* which of "timeout" and "crash" may happen

ASSUME QueueAssumption ==
  /\ MaxCalls \in Nat
  /\ Faults \subseteq {"timeout", "crash"}

VARIABLES
  holders,   \* the caller that has the ARC_MSG lock (see AbstractLock)
  pc,        \* where each caller is in send_message
  ptr,       \* request_queue_wptr or response_queue_rptr read by the caller
  request,   \* the caller's request: the number of its call
  response,  \* the response the caller read
  calls,     \* calls made so far
  reqWptr, reqRptr, respWptr, respRptr,  \* the queue header
  reqEntry, respEntry,                   \* the entries
  irq,       \* the firmware interrupt is raised
  fw         \* request the firmware is working on, 0 when none

callerVars == <<holders, pc, ptr, request, response, calls>>
headerVars == <<reqWptr, reqRptr, respWptr, respRptr>>
fwVars == <<irq, fw>>
vars == <<callerVars, headerVars, reqEntry, respEntry, fwVars>>

Lock == INSTANCE AbstractLock WITH Thread <- Caller

Call == 1 .. MaxCalls
Status == {"ok", "error"}
Response == [call : 0 .. MaxCalls, status : Status]
None == [call |-> 0, status |-> "ok"]

(* Mutant: the ring counts as full one entry too late.                     *)
FullLate(rptr, wptr) == (wptr - rptr) % (2 * Size) > Size

(* The full test of push_request.                                          *)
Abs(i) == IF i < 0 THEN -i ELSE i
Full(rptr, wptr) == Abs(rptr - wptr) % (2 * Size) = Size

Labels == {"idle", "locked", "pushing", "writing", "publishing",
           "triggering", "triggered", "popping", "reading", "advancing",
           "returning"}

TypeOK ==
  /\ holders \in SUBSET Caller
  /\ pc \in [Caller -> Labels]
  /\ ptr \in [Caller -> Pointer]
  /\ request \in [Caller -> 0 .. MaxCalls]
  /\ response \in [Caller -> Response]
  /\ calls \in 0 .. MaxCalls
  /\ reqWptr \in Pointer /\ reqRptr \in Pointer
  /\ respWptr \in Pointer /\ respRptr \in Pointer
  /\ reqEntry \in [Slot -> 0 .. MaxCalls]
  /\ respEntry \in [Slot -> Response]
  /\ irq \in BOOLEAN
  /\ fw \in 0 .. MaxCalls

(* The rings are empty, their pointers wherever earlier messages left them.*)
Init ==
  /\ holders = {}
  /\ pc = [c \in Caller |-> "idle"]
  /\ ptr = [c \in Caller |-> 0]
  /\ request = [c \in Caller |-> 0]
  /\ response = [c \in Caller |-> None]
  /\ calls = 0
  /\ reqWptr \in Pointer /\ reqRptr = reqWptr
  /\ respWptr \in Pointer /\ respRptr = respWptr
  /\ reqEntry = [s \in Slot |-> 0]
  /\ respEntry = [s \in Slot |-> None]
  /\ irq = FALSE
  /\ fw = 0

Move(c, from, to) == pc[c] = from /\ pc' = [pc EXCEPT ![c] = to]

-----------------------------------------------------------------------------
(* BlackholeArcMessenger::send_message takes the ARC_MSG lock.             *)
Acquire(c) ==
  /\ calls < MaxCalls
  /\ Move(c, "idle", "locked")
  /\ Lock!Enter(c)
  /\ calls' = calls + 1
  /\ request' = [request EXCEPT ![c] = calls + 1]
  /\ response' = [response EXCEPT ![c] = None]
  /\ UNCHANGED <<ptr, headerVars, reqEntry, respEntry, fwVars>>

(* More than 7 arguments: send_message throws before it touches the queue. *)
RejectArgs(c) ==
  /\ Move(c, "locked", "idle")
  /\ Lock!Leave(c)
  /\ UNCHANGED <<ptr, request, response, calls, headerVars, reqEntry, respEntry, fwVars>>

(* push_request: read the write pointer once, then poll the read pointer.  *)
ReadRequestWptr(c) ==
  /\ Move(c, "locked", "pushing")
  /\ ptr' = [ptr EXCEPT ![c] = reqWptr]
  /\ UNCHANGED <<holders, request, response, calls, headerVars, reqEntry, respEntry, fwVars>>

RequestHasRoom(c) ==
  /\ ~Full(reqRptr, ptr[c])
  /\ Move(c, "pushing", "writing")
  /\ UNCHANGED <<holders, ptr, request, response, calls, headerVars, reqEntry, respEntry, fwVars>>

WriteRequest(c) ==
  /\ Move(c, "writing", "publishing")
  /\ reqEntry' = [reqEntry EXCEPT ![ptr[c] % Size] = request[c]]
  /\ UNCHANGED <<holders, ptr, request, response, calls, headerVars, respEntry, fwVars>>

WriteRequestWptr(c) ==
  /\ Move(c, "publishing", "triggering")
  /\ reqWptr' = Advance(ptr[c])
  /\ UNCHANGED <<holders, ptr, request, response, calls, reqRptr, respWptr, respRptr,
                 reqEntry, respEntry, fwVars>>

TriggerFwInt(c) ==
  /\ Move(c, "triggering", "triggered")
  /\ irq' = TRUE
  /\ UNCHANGED <<holders, ptr, request, response, calls, headerVars, reqEntry, respEntry, fw>>

(* pop_response: the other way round.                                      *)
ReadResponseRptr(c) ==
  /\ Move(c, "triggered", "popping")
  /\ ptr' = [ptr EXCEPT ![c] = respRptr]
  /\ UNCHANGED <<holders, request, response, calls, headerVars, reqEntry, respEntry, fwVars>>

(* Mutant: pop_response does not wait for the write pointer.               *)
ResponseArrivedNoWait(c) ==
  /\ Move(c, "popping", "reading")
  /\ UNCHANGED <<holders, ptr, request, response, calls, headerVars, reqEntry, respEntry, fwVars>>

ResponseArrived(c) ==
  /\ ptr[c] # respWptr
  /\ Move(c, "popping", "reading")
  /\ UNCHANGED <<holders, ptr, request, response, calls, headerVars, reqEntry, respEntry, fwVars>>

ReadResponse(c) ==
  /\ Move(c, "reading", "advancing")
  /\ response' = [response EXCEPT ![c] = respEntry[ptr[c] % Size]]
  /\ UNCHANGED <<holders, ptr, request, calls, headerVars, reqEntry, respEntry, fwVars>>

(* Mutants: pop_response does not advance the read pointer, or moves it to *)
(* the write pointer.                                                      *)
WriteResponseRptrNot(c) ==
  /\ Move(c, "advancing", "returning")
  /\ UNCHANGED <<holders, ptr, request, response, calls, headerVars,
                 reqEntry, respEntry, fwVars>>

WriteResponseRptrDrains(c) ==
  /\ Move(c, "advancing", "returning")
  /\ respRptr' = respWptr
  /\ UNCHANGED <<holders, ptr, request, response, calls, reqWptr, reqRptr, respWptr,
                 reqEntry, respEntry, fwVars>>

WriteResponseRptr(c) ==
  /\ Move(c, "advancing", "returning")
  /\ respRptr' = Advance(ptr[c])
  /\ UNCHANGED <<holders, ptr, request, response, calls, reqWptr, reqRptr, respWptr,
                 reqEntry, respEntry, fwVars>>

(* An "ok" status returns the response, any other throws: both give the    *)
(* lock back after the response has left the queue.                        *)
Return(c) ==
  /\ Move(c, "returning", "idle")
  /\ Lock!Leave(c)
  /\ UNCHANGED <<ptr, request, response, calls, headerVars, reqEntry, respEntry, fwVars>>

(* Mutant: no timeout while waiting for the response.                      *)
TimeOutPushOnly(c) ==
  /\ "timeout" \in Faults
  /\ Full(reqRptr, ptr[c]) /\ Move(c, "pushing", "idle")
  /\ Lock!Leave(c)
  /\ UNCHANGED <<ptr, request, response, calls, headerVars, reqEntry, respEntry, fwVars>>

(* check_timeout throws out of either poll; nothing is taken back.         *)
TimeOut(c) ==
  /\ "timeout" \in Faults
  /\ \/ Full(reqRptr, ptr[c]) /\ Move(c, "pushing", "idle")
     \/ ptr[c] = respWptr /\ Move(c, "popping", "idle")
  /\ Lock!Leave(c)
  /\ UNCHANGED <<ptr, request, response, calls, headerVars, reqEntry, respEntry, fwVars>>

Crash(c) ==
  /\ "crash" \in Faults
  /\ pc[c] # "idle"
  /\ pc' = [pc EXCEPT ![c] = "idle"]
  /\ Lock!Leave(c)
  /\ UNCHANGED <<ptr, request, response, calls, headerVars, reqEntry, respEntry, fwVars>>

-----------------------------------------------------------------------------
(* The firmware: once interrupted it takes requests in order and answers   *)
(* each, when the response ring has room, until no request is left.        *)
FwTake ==
  /\ irq
  /\ fw = 0
  /\ reqRptr # reqWptr
  /\ fw' = reqEntry[reqRptr % Size]
  /\ reqRptr' = Advance(reqRptr)
  /\ UNCHANGED <<callerVars, reqWptr, respWptr, respRptr, reqEntry, respEntry, irq>>

FwAnswer ==
  /\ fw # 0
  /\ Occupied(respWptr, respRptr) # Size
  /\ \E s \in Status :
       respEntry' = [respEntry EXCEPT ![respWptr % Size] = [call |-> fw, status |-> s]]
  /\ respWptr' = Advance(respWptr)
  /\ fw' = 0
  /\ UNCHANGED <<callerVars, reqWptr, reqRptr, respRptr, reqEntry, irq>>

FwIdle ==
  /\ irq
  /\ fw = 0
  /\ reqRptr = reqWptr
  /\ irq' = FALSE
  /\ UNCHANGED <<callerVars, headerVars, reqEntry, respEntry, fw>>

Firmware == FwTake \/ FwAnswer \/ FwIdle

-----------------------------------------------------------------------------
(* Steps of a call once it has the lock.                                   *)
Proceed(c) ==
  \/ ReadRequestWptr(c) \/ RequestHasRoom(c) \/ WriteRequest(c)
  \/ WriteRequestWptr(c) \/ TriggerFwInt(c) \/ ReadResponseRptr(c)
  \/ ResponseArrived(c) \/ ReadResponse(c) \/ WriteResponseRptr(c)
  \/ Return(c) \/ TimeOut(c)

(* All calls of the bounded model have ended.                              *)
Done ==
  /\ calls = MaxCalls
  /\ holders = {}
  /\ UNCHANGED vars

Next ==
  \/ \E c \in Caller : Acquire(c) \/ RejectArgs(c) \/ Proceed(c) \/ Crash(c)
  \/ Firmware
  \/ Done

Spec == Init /\ [][Next]_vars

(* A caller that has the lock runs; its timeout fires if nothing else does.*)
HostFair == \A c \in Caller : WF_vars(Proceed(c))

(* The firmware is left free to hang.                                      *)
FairSpec == Spec /\ HostFair

-----------------------------------------------------------------------------
Requests == Contents(reqEntry, reqWptr, reqRptr)
Responses == Contents(respEntry, respWptr, respRptr)

RequestQueue == INSTANCE BoundedFifo
  WITH Message <- Call, Capacity <- Size, queue <- Requests
ResponseQueue == INSTANCE BoundedFifo
  WITH Message <- Response, Capacity <- Size, queue <- Responses

(* push_request: with a full test on double-wrapping pointers and one      *)
(* store per step, the request ring is a bounded FIFO: no pending request  *)
(* is overwritten, lost, duplicated or reordered, also when calls time out *)
(* or die half way through a push.                                         *)
RequestsFifo == RequestQueue!Spec

(* pop_response: the response ring is one as well, also when a caller dies *)
(* between reading an entry and advancing the pointer.                     *)
ResponsesFifo == ResponseQueue!Spec

(* What is under way, oldest first: a response, the firmware's message, a  *)
(* request.                                                                *)
Pipeline ==
  [i \in 1 .. Len(Responses) |-> Responses[i].call]
    \o (IF fw = 0 THEN <<>> ELSE <<fw>>) \o Requests

(* Messages are answered in the order of the calls and no call has two     *)
(* messages under way; what a caller has just popped is older than all of  *)
(* them.                                                                   *)
AnsweredInOrder ==
  /\ \A i, j \in 1 .. Len(Pipeline) : i < j => Pipeline[i] < Pipeline[j]
  /\ \A c \in Caller : pc[c] = "returning" =>
       \A i \in 1 .. Len(Pipeline) : response[c].call < Pipeline[i]

(* send_message returns the answer to its own message.  (It holds as long  *)
(* as no earlier call timed out or died with its message under way.)       *)
OwnResponse ==
  \A c \in Caller : pc[c] = "returning" => response[c].call = request[c]

(* A call that ends leaves nothing behind: when the lock is free, both     *)
(* rings are empty and the firmware has no message, error answers included.*)
NothingLeftBehind == holders = {} => Pipeline = <<>>

(* Every call ends: it returns or throws, and the lock is free again.      *)
CallsEnd == \A c \in Caller : pc[c] # "idle" ~> pc[c] = "idle"
=============================================================================
