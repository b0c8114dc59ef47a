------------------------ MODULE WormholeArcMessenger ------------------------
(***************************************************************************)
(* The Wormhole ARC mailbox: several callers, each a WormholeArcMessenger  *)
(* or a WormholeDeviceFirmware of some process, send messages to the ARC   *)
(* firmware of one chip through three scratch registers and a trigger bit. *)
(* A local messenger, a messenger that goes through a gateway chip and a   *)
(* WormholeDeviceFirmware take different locks before they do.  The ARC    *)
(* firmware itself is external: it is what the host code expects of it.    *)
(***************************************************************************)
EXTENDS FirmwareInfo, Bags

CONSTANTS
    Users,          \* callers
    Route,          \* user -> "local", "front" or the gateway it goes through
    Calls,          \* user -> the sequence of messages it sends
    BootStatuses    \* what SCRATCH_STATUS may hold while the firmware boots

VARIABLES mailbox, arcFw, locks, host, executed, probe

msgVars == <<mailbox, arcFw, locks, host, executed, probe>>

ARC_MSG_COMMON_PREFIX == 170
HANG_READ_VALUE == Ones

\* A message code is <<prefix byte, code byte>>; only its log line asks for
\* the prefix 0xAA.
Queued(c) == <<0, c[1] * 256 + c[2]>>
Handling(n) == <<ARC_MSG_COMMON_PREFIX * 256 + n, 0>>
Complete(exit, n) == <<exit, n>>

\* The argument word arg0 | arg1 << 16, <<>> where send_message throws:
\* more than two arguments, or one that is not a uint16_t.
PackArgs(args) ==
    LET Arg(i) == IF i <= Len(args) THEN args[i] ELSE HalfMask
    IN  IF Len(args) > 2 \/ \E i \in 1..Len(args) : args[i] > HalfMask THEN <<>>
        ELSE <<<<Arg(2), Arg(1)>>>>

\* What the firmware answers; distinct messages have distinct answers.
Answer(n, arg) == <<n, arg[2]>>

----------------------------------------------------------------------------
(* Locks.  ArcMessenger's constructor creates the three of them.           *)

LockNames == {"ARC_MSG", "GLOBAL"} \cup {Route[p] : p \in Users}

\* REMOTE_ARC_MSG of the gateway, ARC_MSG of the device, or none: a
\* WormholeDeviceFirmware only takes the system-wide lock.
DeviceLock(p) == CASE Route[p] = "local" -> {"ARC_MSG"}
                   [] Route[p] = "front" -> {}
                   [] OTHER -> {Route[p]}
NoSystemLock(p) == {}                                     \* mutant
SystemLock(p) == {"GLOBAL"}

Free(ls) == \A l \in ls : locks[l] = "none"
Take(ls, p) == [l \in DOMAIN locks |-> IF l \in ls THEN p ELSE locks[l]]
ReleaseAll(p) == [l \in DOMAIN locks |-> IF locks[l] = p THEN "none" ELSE locks[l]]

----------------------------------------------------------------------------
(* A caller.                                                               *)

Fresh == [pc |-> "idle", next |-> 1, clean |-> TRUE, out |-> "none", ret |-> Zero]

MsgInit ==
    /\ mailbox = [res0 |-> Zero, status |-> Zero, trigger |-> FALSE]
    /\ arcFw = [state |-> "boot", code |-> 0, arg |-> Zero]
    /\ locks = [l \in LockNames |-> "none"]
    /\ host = [p \in Users |-> Fresh]
    /\ executed = EmptyBag
    /\ probe = [verdict |-> "none", status |-> Zero, up |-> FALSE]

OwnCall(p) == Calls[p][host[p].next]
Arg(p) == PackArgs(OwnCall(p).args)[1]

At(p, from) == host[p].pc = from
Goto(p, to) == host' = [host EXCEPT ![p].pc = to]

\* Every way out of send_message releases what the call holds.
Leave(p, out) ==
    /\ host' = [host EXCEPT ![p].pc = "left", ![p].out = out]
    /\ locks' = ReleaseAll(p)
    /\ UNCHANGED <<mailbox, arcFw, executed, probe>>

\* The arguments are checked before anything is locked or written.
Begin(p) ==
    /\ At(p, "idle")
    /\ arcFw.state # "boot"
    /\ host' = [host EXCEPT ![p].pc = IF PackArgs(OwnCall(p).args) = <<>> THEN "left" ELSE "device",
                            ![p].out = IF PackArgs(OwnCall(p).args) = <<>> THEN "throw" ELSE "none"]
    /\ UNCHANGED <<mailbox, arcFw, locks, executed, probe>>

LockDevice(p) ==
    /\ At(p, "device") /\ Free(DeviceLock(p))
    /\ locks' = Take(DeviceLock(p), p)
    /\ Goto(p, "system")
    /\ UNCHANGED <<mailbox, arcFw, executed, probe>>

LockSystem(p) ==
    /\ At(p, "system") /\ Free(SystemLock(p))
    /\ locks' = Take(SystemLock(p), p)
    /\ Goto(p, "arg")
    /\ UNCHANGED <<mailbox, arcFw, executed, probe>>

\* clean records that no earlier message was under way in the firmware.
WriteArg(p) ==
    /\ At(p, "arg")
    /\ mailbox' = [mailbox EXCEPT !.res0 = Arg(p)]
    /\ host' = [host EXCEPT ![p].pc = "code", ![p].clean = arcFw.state = "idle" /\ ~mailbox.trigger]
    /\ UNCHANGED <<arcFw, locks, executed, probe>>

WriteCode(p) ==
    /\ At(p, "code")
    /\ mailbox' = [mailbox EXCEPT !.status = Queued(OwnCall(p).code)]
    /\ Goto(p, "flush")
    /\ UNCHANGED <<arcFw, locks, executed, probe>>

\* wait_for_non_mmio_flush: nothing on a local chip; through a gateway it
\* may time out and throw.
Flush(p) ==
    /\ At(p, "flush")
    /\ \/ Goto(p, "trigger") /\ UNCHANGED <<mailbox, arcFw, locks, executed, probe>>
       \/ Route[p] # "local" /\ Leave(p, "throw")

\* check_timeout of the wait for the trigger bit and of the poll: the clock
\* of the caller decides, so they may fire on any look that finds no answer.
NoTriggerTimeout(p) == FALSE                              \* mutant
TriggerTimeout(p) == At(p, "trigger") /\ mailbox.trigger /\ Leave(p, "throw")

SetTrigger(p) ==
    /\ At(p, "trigger") /\ ~mailbox.trigger
    /\ mailbox' = [mailbox EXCEPT !.trigger = TRUE]
    /\ Goto(p, "poll")
    /\ UNCHANGED <<arcFw, locks, executed, probe>>

Answered(p) == mailbox.status[2] = OwnCall(p).code[2]

PollDone(p) ==
    /\ At(p, "poll") /\ Answered(p)
    /\ host' = [host EXCEPT ![p].pc = "result"]
    /\ UNCHANGED <<mailbox, arcFw, locks, executed, probe>>

\* The status of a code the firmware does not know: exit code 0xFFFFFFFF.
PollUnknown(p) ==
    /\ At(p, "poll") /\ ~Answered(p) /\ mailbox.status = HANG_READ_VALUE
    /\ Leave(p, "unknown")

PollTimeout(p) ==
    /\ At(p, "poll") /\ ~Answered(p) /\ mailbox.status # HANG_READ_VALUE
    /\ Leave(p, "throw")

\* The result register is read after the status; is_pcie_hung follows.
ReadResult(p) ==
    /\ At(p, "result")
    /\ host' = [host EXCEPT ![p].pc = "left", ![p].out = "done", ![p].ret = mailbox.res0]
    /\ locks' = ReleaseAll(p)
    /\ UNCHANGED <<mailbox, arcFw, executed, probe>>

\* The caller goes on to its next message.
NextMessage(p) ==
    /\ At(p, "left") /\ host[p].next < Len(Calls[p])
    /\ host' = [host EXCEPT ![p] = [Fresh EXCEPT !.next = host[p].next + 1]]
    /\ UNCHANGED <<mailbox, arcFw, locks, executed, probe>>

\* The process is killed; its robust mutexes fall to the next owner.
Killed(p) ==
    /\ host[p].pc \notin {"idle", "left", "dead"} /\ OwnCall(p).mayDie
    /\ host' = [host EXCEPT ![p].pc = "dead"]
    /\ locks' = ReleaseAll(p)
    /\ UNCHANGED <<mailbox, arcFw, executed, probe>>

MessageStep(p) ==
    \/ Begin(p) \/ LockDevice(p) \/ LockSystem(p) \/ WriteArg(p) \/ WriteCode(p) \/ Flush(p)
    \/ TriggerTimeout(p) \/ SetTrigger(p) \/ PollDone(p) \/ PollUnknown(p) \/ PollTimeout(p)
    \/ ReadResult(p)

\* WormholeArcMessenger::send_message, and the copy of it in
\* WormholeDeviceFirmware, which differs in the locks it takes.
send_message(p) == Route[p] # "front" /\ MessageStep(p)
send_device_command(p) == Route[p] = "front" /\ MessageStep(p)
HostStep(p) == send_message(p) \/ send_device_command(p) \/ NextMessage(p)

----------------------------------------------------------------------------
(* The ARC firmware: external.                                             *)

FwBoots ==
    /\ arcFw.state = "boot"
    /\ \/ /\ \E s \in BootStatuses : mailbox.status # s /\ mailbox' = [mailbox EXCEPT !.status = s]
          /\ UNCHANGED arcFw
       \/ /\ mailbox' = [mailbox EXCEPT !.status = <<0, 1>>]
          /\ arcFw' = [arcFw EXCEPT !.state = "idle"]
    /\ UNCHANGED <<locks, host, executed, probe>>

FwTakes ==
    /\ arcFw.state = "idle" /\ mailbox.trigger
    /\ LET known == mailbox.status[1] = 0 /\ mailbox.status[2] \div 256 = ARC_MSG_COMMON_PREFIX
           n == mailbox.status[2] % 256
       IN  IF known
           THEN /\ arcFw' = [arcFw EXCEPT !.state = "handling", !.code = n]
                /\ mailbox' = [mailbox EXCEPT !.trigger = FALSE, !.status = Handling(n)]
           ELSE /\ mailbox' = [mailbox EXCEPT !.trigger = FALSE, !.status = HANG_READ_VALUE]
                /\ UNCHANGED arcFw
    /\ UNCHANGED <<locks, host, executed, probe>>

FwExecutes ==
    /\ arcFw.state = "handling"
    /\ arcFw' = [arcFw EXCEPT !.state = "answering", !.arg = mailbox.res0]
    /\ executed' = executed (+) SetToBag({<<arcFw.code, mailbox.res0>>})
    /\ UNCHANGED <<mailbox, locks, host, probe>>

FwWritesResult ==
    /\ arcFw.state = "answering"
    /\ mailbox' = [mailbox EXCEPT !.res0 = Answer(arcFw.code, arcFw.arg)]
    /\ arcFw' = [arcFw EXCEPT !.state = "reporting"]
    /\ UNCHANGED <<locks, host, executed, probe>>

FwWritesStatus ==
    /\ arcFw.state = "reporting"
    /\ mailbox' = [mailbox EXCEPT !.status = Complete(0, arcFw.code)]
    /\ arcFw' = [arcFw EXCEPT !.state = "idle"]
    /\ UNCHANGED <<locks, host, executed, probe>>

\* A firmware that hangs never answers again.
FwHangs ==
    /\ arcFw.state = "handling" /\ arcFw' = [arcFw EXCEPT !.state = "hung"]
    /\ UNCHANGED <<mailbox, locks, host, executed, probe>>

FwStep == FwBoots \/ FwTakes \/ FwExecutes \/ FwWritesResult \/ FwWritesStatus

----------------------------------------------------------------------------
(* wait_arc_core_start and init_firmware: what one look at the status, the *)
(* post code and the DMA request says of the firmware.                     *)

STATUS_NO_ACCESS == Ones
STATUS_WATCHDOG_TRIGGERED == <<57005, 49374>>
STATUS_INIT_DONE == {<<0, 1>>, <<65535, 57005>>}
STATUS_BOOT_INCOMPLETE_1 == <<0, 96>>
STATUS_ASLEEP_2 == <<0, 85>>

\* A post code is <<0xC0DE, low>>.
PostCodeIdle(low) == low = 1 \/ low \in 63..127

StartedUnless(s, low, dma) ==
    CASE s \in {STATUS_NO_ACCESS, STATUS_WATCHDOG_TRIGGERED} -> "throw"
      [] s \in STATUS_INIT_DONE -> "started"
      [] OTHER -> IF s # Zero \/ PostCodeIdle(low) THEN "started" ELSE "wait"    \* mutant

ArcStartVerdict(s, low, dma) ==
    LET is_queued == s[1] = 0 /\ s[2] \div 256 = ARC_MSG_COMMON_PREFIX
        is_handling == s[1] \div 256 = ARC_MSG_COMMON_PREFIX /\ s[2] = 0
        is_complete == s[2] > 1
    IN  CASE s \in {STATUS_NO_ACCESS, STATUS_WATCHDOG_TRIGGERED} -> "throw"
          [] s \in STATUS_INIT_DONE -> "started"
          [] s = Zero /\ PostCodeIdle(low) -> "started"
          [] OTHER -> IF ~is_queued /\ ~is_handling /\ is_complete /\ ~dma THEN "started" ELSE "wait"

\* The copy of it in WormholeDeviceFirmware.
init_firmware_verdict(s, low, dma) == ArcStartVerdict(s, low, dma)

\* Another process opens the chip and looks until a look does not say wait or
\* the timeout throws.  The three reads of a look are one step: a firmware
\* that is up stays up, and the post code and the DMA request are external.
Probe ==
    /\ probe.verdict = "none"
    /\ \E low \in {0, 1, 63}, dma \in BOOLEAN :
          LET up == arcFw.state # "boot"
              v == ArcStartVerdict(mailbox.status, IF up THEN low ELSE 0, dma)
          IN  /\ v # "wait"
              /\ probe' = [verdict |-> v, status |-> IF up THEN <<0, 1>> ELSE mailbox.status, up |-> up]
    /\ UNCHANGED <<mailbox, arcFw, locks, host, executed>>

MsgNext ==
    \/ \E p \in Users : HostStep(p) \/ Killed(p)
    \/ FwStep \/ FwHangs \/ Probe

----------------------------------------------------------------------------
(* Properties.                                                             *)

\* A message that began while the firmware was idle and that returned is
\* executed once, with its own argument, and returns its own answer: nobody
\* else wrote the registers in between.  A message that begins while the
\* firmware still works on an abandoned one has no such promise.
\* (send_message, wormhole_arc_messenger.cpp)
OwnAnswer ==
    \A p \in Users :
        (At(p, "left") /\ host[p].out = "done" /\ host[p].clean
             /\ OwnCall(p).code[1] = ARC_MSG_COMMON_PREFIX)
        => /\ host[p].ret = Answer(OwnCall(p).code[2], Arg(p))
           /\ CopiesIn(<<OwnCall(p).code[2], Arg(p)>>, executed) = 1

\* Whatever the firmware and the other callers do, a call ends: both waits of
\* send_message have a timeout, and every way out releases the locks.
MailCallsEnd == \A p \in Users : [](At(p, "device") => <>(host[p].pc \in {"left", "dead"}))

\* A process that opens the chip goes on only when the firmware is up, except
\* for the two statuses whose low half looks like a completed message.
\* (wait_arc_core_start, wormhole_tt_device.cpp)
StartedMeansUpOrKnownGap ==
    probe.verdict = "started" =>
        probe.up \/ probe.status \in {STATUS_BOOT_INCOMPLETE_1, STATUS_ASLEEP_2}
=============================================================================
