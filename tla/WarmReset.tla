------------------------------ MODULE WarmReset ------------------------------
(***************************************************************************)
(* Warm reset of PCIe devices: which devices a request means, the reset    *)
(* sequence of the kernel driver (arch agnostic) and the two older ones    *)
(* (Wormhole, Blackhole), the notifications around it and the retries of   *)
(* WarmResetWithRecovery.  One process resets; the clients and their       *)
(* monitors are those of WarmResetCommunication.                           *)
(***************************************************************************)
EXTENDS WarmResetCommunication, FiniteSets, FiniteSetsExt

CONSTANTS
  Device,      \* the devices, known by their PCI address (BDF)
  Arch,        \* reset sequences a host may need
  MaxAttempts, \* max_attempts of WarmResetWithRecovery
  Wrap         \* values of the low word of the reference clock counter

ASSUME ResetAssumption ==
  /\ IsFiniteSet(Device)
  /\ Arch \subseteq {"agnostic", "wormhole", "blackhole"}
  /\ MaxAttempts \in Nat
  /\ Wrap \in Nat \ {0}

Id == 0 .. Cardinality(Device) - 1
Gone == -1
Foreign == Cardinality(Device)  \* a number no device has
Number == Id \cup {Foreign}
Clock == 0 .. Wrap - 1

(* The devices are interchangeable: each starts with any of the numbers.   *)
DeviceSymmetry == Permutations(Device)

VARIABLES
  arch,   \* the sequence this host needs
  devId,  \* number of each device's node under /dev/tenstorrent
  chip,   \* progress of each device's reset in the current call
  whole,  \* in this call no device was missing except for its own reset
  step,   \* where the resetting process is
  call    \* the local variables of its call

resetVars == <<arch, devId, chip, whole, step, call>>
vars == <<commVars, resetVars>>

(* names, numbers: the devices the caller's names match and the numbers    *)
(* the caller gave; attempts: attempts left, 0 for a call without          *)
(* recovery; targets: pci_device_ids; aimed: the devices they stood for;   *)
(* known: devices on the bus when the sequence began; todo: devices the    *)
(* loop under way has yet to handle; ids: numbers it has yet to handle;    *)
(* prompt: each device had finished or had left the bus when the wait      *)
(* after the reset was over; started: the tt_devices of the Wormhole       *)
(* sequence; old: refclk_values_old; ticks: what the clock of a device     *)
(* advanced until refclk_current was read, since the old value or since    *)
(* its reset; allSet: all_reset_bits_set of the Blackhole sequence;        *)
(* result: reset_success.                                                  *)
NoCall ==
  [names |-> {}, numbers |-> {}, attempts |-> 0, targets |-> {}, aimed |-> {}, known |-> {},
   todo |-> {}, ids |-> {}, prompt |-> TRUE, started |-> {}, old |-> [d \in Device |-> 0],
   ticks |-> [d \in Device |-> 0], allSet |-> TRUE, result |-> FALSE]

Call == [names : SUBSET Device, numbers : SUBSET Number, attempts : 0 .. MaxAttempts,
         targets : SUBSET Number, aimed : SUBSET Device, known : SUBSET Device,
         todo : SUBSET Device, ids : SUBSET Number, prompt : BOOLEAN, started : SUBSET Device,
         old : [Device -> Clock], ticks : [Device -> Clock], allSet : BOOLEAN,
         result : BOOLEAN]

Fresh == [d \in Device |-> "working"]

TypeOK ==
  /\ CommTypeOK
  /\ arch \in Arch /\ devId \in [Device -> Id \cup {Gone}]
  /\ chip \in [Device -> {"working", "resetting", "reset", "restored", "early", "late"}]
  /\ whole \in BOOLEAN /\ call \in Call
  /\ step \in {"idle", "asking", "notifying", "resetting", "awaiting", "polling",
               "starting", "triggering", "restoring", "announcing", "announced"}

Init ==
  /\ CommInit
  /\ arch \in Arch
  /\ devId \in {f \in [Device -> Id] : \A d, e \in Device : d # e => f[d] # f[e]}
  /\ chip = Fresh /\ whole = TRUE /\ step = "idle" /\ call = NoCall

Present == {d \in Device : devId[d] # Gone}

(* Mutant: the ioctls go to every device.                                  *)
TargetDevicesAll == Present

(* The devices behind the target numbers now.                              *)
TargetDevices == {d \in Present : devId[d] \in call.targets}

NumbersOf(ds) == {devId[d] : d \in ds}

(* The call is over, by a return, an exception or the end of its process.  *)
Over ==
  /\ step' = "idle" /\ call' = NoCall /\ chip' = Fresh /\ whole' = TRUE
  /\ UNCHANGED <<arch, devId>>

-----------------------------------------------------------------------------
(* warm_reset_chip_id and warm_reset_pci_bdfs take names, BDFs or places   *)
(* in their order, alone or with recovery (n > 0); names that match no     *)
(* device are skipped, and ds are the devices that remain.  warm_reset     *)
(* takes numbers, which need not be those of devices.                      *)
Ask(ds, ks, n) ==
  /\ step = "idle"
  /\ resets < MaxResets
  /\ call' = [call EXCEPT !.names = ds, !.numbers = ks, !.attempts = n]
  /\ step' = "asking"
  /\ UNCHANGED <<commVars, arch, devId, chip, whole>>

AskAny ==
  \/ \E ds \in SUBSET Device, n \in {0, MaxAttempts} : Ask(ds, {}, n)
  \/ \E ks \in SUBSET Number : Ask({}, ks, 0)

(* The numbers the caller chose.                                           *)
Chosen == call.numbers \cup NumbersOf(call.names \cap Present)

(* Mutant: the default is added to the choice.                             *)
ResolveAll == Chosen \cup NumbersOf(Present)

(* With no number left, because nothing was named or because no name       *)
(* matched, every device is meant.                                         *)
Resolve == IF Chosen = {} THEN NumbersOf(Present) ELSE Chosen

Begin ==
  /\ step = "asking"
  /\ Resolve # {} /\ resets < MaxResets
  /\ call' = [NoCall EXCEPT !.names = call.names, !.numbers = call.numbers,
                            !.attempts = call.attempts, !.targets = Resolve,
                            !.aimed = {d \in Present : devId[d] \in Resolve}]
  /\ chip' = Fresh /\ whole' = (Present = Device)
  /\ resets' = resets + 1
  /\ BeginNote("pre")
  /\ step' = "notifying"
  /\ UNCHANGED <<monitorVars, path, conns, heard, arch, devId>>

NoDevices ==
  /\ step = "asking"
  /\ Resolve = {}
  /\ Over
  /\ UNCHANGED commVars

-----------------------------------------------------------------------------
(* The loops of the sequences handle one number or device after the other. *)

Handle(here, d) ==
  /\ step = here
  /\ d \in call.todo
  /\ UNCHANGED <<commVars, arch, devId, whole, step>>

Without(d) == [call EXCEPT !.todo = @ \ {d}]

(* The device d is behind the next number.                                 *)
HandleNumber(here, d) ==
  /\ step = here
  /\ d \in Present /\ devId[d] \in call.ids
  /\ UNCHANGED <<commVars, arch, devId, whole, step>>

WithoutNumber(d) == [call EXCEPT !.ids = @ \ {devId[d]}]

(* From one loop to the next, with the local variables c.                  *)
Through(here, next, c) ==
  /\ step = here /\ call.todo = {} /\ call.ids = {}
  /\ step' = next
  /\ call' = c
  /\ UNCHANGED <<commVars, arch, devId, chip, whole>>

(* send_reset_ioctl_to_devices looks up who has the numbers.               *)
ToTargets == [call EXCEPT !.ids = NumbersOf(TargetDevices)]

(* send_reset_ioctl_to_devices, to start a reset.                          *)
ResetIoctl(d) ==
  /\ HandleNumber("resetting", d)
  /\ call' = WithoutNumber(d)
  /\ chip' = [chip EXCEPT ![d] = "resetting"]

(* send_reset_ioctl_to_devices, to end one: it does not help a device that *)
(* is not through with its reset.                                          *)
RestoreIoctl(d) ==
  /\ HandleNumber("restoring", d)
  /\ call' = WithoutNumber(d)
  /\ chip' = [chip EXCEPT ![d] = IF @ \in {"reset", "restored", "late"} THEN "restored"
                                                                       ELSE "early"]

(* The pre-reset notification is out and its wait is over.                 *)
ChooseSequence ==
  /\ step = "notifying" /\ note = "none"
  /\ \/ arch = "agnostic" /\ step' = "resetting"
     \/ arch = "blackhole" /\ Present # {} /\ step' = "resetting"
     \/ arch = "wormhole" /\ Present # {} /\ step' = "starting"
     \/ arch # "agnostic" /\ Present = {} /\ step' = "announcing"
  /\ call' = [call EXCEPT !.known = Present,
                          !.ids = CASE step' = "starting" -> call.targets
                                    [] step' = "resetting" -> NumbersOf(TargetDevices)
                                    [] OTHER -> {}]
  /\ UNCHANGED <<commVars, arch, devId, chip, whole>>

-----------------------------------------------------------------------------
(* warm_reset_arch_agnostic: reset, wait, look for every device that was   *)
(* on the bus, and tell the driver.                                        *)

(* post_reset_wait passes, whether or not it is long enough for every      *)
(* device to finish or to leave the bus.                                   *)
Settle ==
  /\ arch = "agnostic"
  /\ Through("resetting", "awaiting",
             [call EXCEPT !.todo = call.known,
                          !.prompt = \A d \in Present : chip[d] # "resetting"])

(* wait_for_pci_bdf_to_reappear.                                           *)
Reappeared(d) ==
  /\ Handle("awaiting", d)
  /\ devId[d] # Gone
  /\ call' = Without(d)
  /\ UNCHANGED chip

NotReappeared ==
  /\ step = "awaiting"
  /\ \E d \in call.todo : devId[d] = Gone
  /\ step' = "announcing"
  /\ call' = [call EXCEPT !.todo = {}]
  /\ UNCHANGED <<commVars, arch, devId, chip, whole>>

(* Mutant: the driver is told as soon as one device is back.               *)
AllReappearedOne ==
  /\ step = "awaiting" /\ call.todo # call.known
  /\ step' = "restoring"
  /\ call' = [ToTargets EXCEPT !.todo = {}]
  /\ UNCHANGED <<commVars, arch, devId, chip, whole>>

AllReappeared == Through("awaiting", "restoring", ToTargets)

-----------------------------------------------------------------------------
(* warm_reset_blackhole_legacy: after the reset was asked for through      *)
(* config space, poll the command byte of every device.                    *)

StartPolling == arch = "blackhole" /\ Through("resetting", "polling", call)

(* Reading the byte of a number without a device throws.                   *)
ConfigReadable == call.targets \subseteq NumbersOf(Present)
BitsSet == \A d \in TargetDevices : chip[d] = "reset"

(* Once a poll has found a bit not set, allSet stays FALSE.                *)
PollAgain ==
  /\ step = "polling" /\ ConfigReadable
  /\ ~(call.allSet /\ BitsSet)
  /\ call' = [call EXCEPT !.allSet = FALSE]
  /\ UNCHANGED <<commVars, arch, devId, chip, whole, step>>

(* The first poll has found all bits set, or the time is up.               *)
PollsDone ==
  /\ ConfigReadable
  /\ call.allSet => BitsSet
  /\ Through("polling", "restoring", ToTargets)

-----------------------------------------------------------------------------
(* warm_reset_wormhole_legacy: ARC messages to the devices behind the      *)
(* numbers, and their reference clock counters as evidence.                *)

ArcStarts(d) ==
  /\ HandleNumber("starting", d)
  /\ call' = [WithoutNumber(d) EXCEPT !.started = @ \cup {d}]
  /\ UNCHANGED chip

(* get_refclk_counter returns the low word of the counter.                 *)
AllStarted ==
  \E old \in [Device -> Clock] :
    /\ \A d \in Device \ call.started : old[d] = 0
    /\ Through("starting", "triggering", [call EXCEPT !.todo = call.started, !.old = old])

TriggerReset(d) ==
  /\ Handle("triggering", d)
  /\ call' = Without(d)
  /\ chip' = [chip EXCEPT ![d] = "resetting"]

AllTriggered == Through("triggering", "restoring", ToTargets)

-----------------------------------------------------------------------------
Finished(d) == chip[d] \in {"reset", "restored", "late"}

(* The counter starts at zero when the device is reset.                    *)
RefclkNow(d, ticks) == ((IF Finished(d) THEN 0 ELSE call.old[d]) + ticks) % Wrap

(* Mutant: the comparison is the other way round.                          *)
RefclkResetNot(d, ticks) == ~(call.old[d] > RefclkNow(d, ticks))

RefclkReset(d, ticks) == ~(call.old[d] < RefclkNow(d, ticks))

(* What each sequence returns.                                             *)
Outcome(ticks) ==
  /\ arch = "blackhole" => call.allSet
  /\ arch = "wormhole" => \A d \in call.started : RefclkReset(d, ticks[d])

SequenceDone ==
  \E ticks \in [Device -> Clock] :
    /\ \A d \in Device \ call.started : ticks[d] = 0
    /\ step = "restoring" /\ call.todo = {} /\ call.ids = {}
    /\ call' = [call EXCEPT !.ticks = ticks, !.result = Outcome(ticks)]
    /\ step' = "announcing"
    /\ UNCHANGED <<commVars, arch, devId, chip, whole>>

(* Any ioctl, config space read, TTDevice or ARC message may throw; the    *)
(* post-reset notification is then not sent.  So may the wait for an ARC   *)
(* core: it throws a UmdException<ArcStartupError>, which the handler for  *)
(* ArcStartupError does not catch.                                         *)
Throws ==
  /\ step \in {"resetting", "polling", "starting", "triggering", "restoring"}
  /\ Over
  /\ UNCHANGED commVars

(* Mutant: a failed reset is not announced.                                *)
AnnounceSuccess ==
  /\ step = "announcing"
  /\ IF call.result THEN BeginNote("post") ELSE UNCHANGED <<note, toVisit>>
  /\ step' = "announced"
  /\ UNCHANGED <<monitorVars, path, conns, heard, resets, arch, devId, chip, whole, call>>

Announce ==
  /\ step = "announcing"
  /\ BeginNote("post")
  /\ step' = "announced"
  /\ UNCHANGED <<monitorVars, path, conns, heard, resets, arch, devId, chip, whole, call>>

(* Mutant: one attempt too many.                                           *)
ReturnOnceMore ==
  /\ step = "announced" /\ note = "none"
  /\ \/ Over
     \/ /\ call.result
        /\ call' = [call EXCEPT !.attempts = @ - 1]
        /\ step' = "asking"
        /\ UNCHANGED <<arch, devId, chip, whole>>
  /\ UNCHANGED commVars

(* warm_reset returns.  With recovery, a successful reset is followed by   *)
(* topology discovery, and a failed discovery by another attempt.          *)
Return ==
  /\ step = "announced" /\ note = "none"
  /\ \/ Over
     \/ /\ call.result /\ call.attempts > 1
        /\ call' = [call EXCEPT !.attempts = @ - 1]
        /\ step' = "asking"
        /\ UNCHANGED <<arch, devId, chip, whole>>
  /\ UNCHANGED commVars

(* The process dies; the connections it has made and not written to, each  *)
(* the newest of its listener, are closed.                                 *)
ResetterDies ==
  LET Closed(s) == IF s # <<>> /\ Last(s).msg = NoMessage THEN Front(s) ELSE s
  IN /\ step # "idle"
     /\ Over
     /\ note' = "none" /\ toVisit' = {}
     /\ conns' = [c \in Client |-> [g \in Gen |-> Closed(conns[c][g])]]
     /\ UNCHANGED <<monitorVars, path, heard, resets>>

-----------------------------------------------------------------------------
(* The devices.  With the arch agnostic reset a device may leave the bus   *)
(* and come back under the lowest free number.                             *)

FreeIds == Id \ {devId[d] : d \in Present}

Completed(c) == CASE c = "resetting" -> "reset" [] c = "early" -> "late" [] OTHER -> c

ResetCompletes(d) ==
  /\ chip[d] \in {"resetting", "early"} /\ devId[d] # Gone
  /\ chip' = [chip EXCEPT ![d] = Completed(@)]
  /\ UNCHANGED <<commVars, arch, devId, whole, step, call>>

LeavesBus(d) ==
  /\ arch = "agnostic"
  /\ chip[d] \in {"resetting", "early"} /\ devId[d] # Gone
  /\ devId' = [devId EXCEPT ![d] = Gone]
  /\ UNCHANGED <<commVars, arch, chip, whole, step, call>>

(* A device may also be removed while clients are being notified.          *)
Disappears(d) ==
  /\ step = "notifying" /\ devId[d] # Gone
  /\ devId' = [devId EXCEPT ![d] = Gone]
  /\ whole' = FALSE
  /\ UNCHANGED <<commVars, arch, chip, step, call>>

ComesBack(d) ==
  /\ devId[d] = Gone
  /\ devId' = [devId EXCEPT ![d] = Min(FreeIds)]
  /\ chip' = [chip EXCEPT ![d] = Completed(@)]
  /\ UNCHANGED <<commVars, arch, whole, step, call>>

Hardware ==
  \E d \in Device : ResetCompletes(d) \/ LeavesBus(d) \/ Disappears(d) \/ ComesBack(d)

-----------------------------------------------------------------------------
Resetter ==
  \/ AskAny
  \/ Begin \/ NoDevices \/ ChooseSequence \/ Settle \/ NotReappeared \/ AllReappeared
  \/ StartPolling \/ PollAgain \/ PollsDone \/ AllStarted \/ AllTriggered
  \/ SequenceDone \/ Throws \/ Announce \/ Return \/ ResetterDies
  \/ \E d \in Device : \/ ResetIoctl(d) \/ RestoreIoctl(d) \/ Reappeared(d)
                       \/ ArcStarts(d) \/ TriggerReset(d)

Next ==
  \/ Resetter \/ Hardware
  \/ (NotifierNext \/ \E c \in Client : ClientNext(c)) /\ UNCHANGED resetVars

(* Threads of living processes run; nobody has to start, stop or reset.    *)
Fairness ==
  \A c \in Client :
    /\ WF_vars(StopIo(c) /\ UNCHANGED resetVars)
    /\ \A g \in Gen : WF_vars(MonitorThread(c, g) /\ UNCHANGED resetVars)

Spec == Init /\ [][Next]_vars /\ Fairness

-----------------------------------------------------------------------------
(* When warm_reset reports success, every device it set out to reset had   *)
(* finished its reset before the driver was told to restore it, although   *)
(* devices are addressed by numbers that are given out anew while they are *)
(* off the bus.  The arch agnostic sequence owes this to a wait that was   *)
(* long enough (prompt), the Blackhole one to its polls.                   *)
SuccessIsReal ==
  step = "announcing" /\ call.result /\ whole /\ arch # "wormhole" /\ call.prompt =>
    \A d \in call.aimed : chip[d] = "restored"

(* The Wormhole sequence owes its result to the low words of the counters: *)
(* a device it reports as reset was reset, if its clock ran and its low    *)
(* word did not wrap between the two readings.                             *)
ClockIsEvidence ==
  step = "announcing" /\ call.result /\ whole /\ arch = "wormhole" =>
    \A d \in call.aimed :
      Finished(d) \/ call.ticks[d] = 0 \/ call.old[d] + call.ticks[d] >= Wrap

(* A reset leaves alone the devices it did not resolve to, also after      *)
(* devices have left the bus and come back under other numbers, early or   *)
(* late; and a caller whose names match some devices gets no other reset   *)
(* (one whose names match none gets all).                                  *)
OthersUntouched ==
  whole => \A d \in Device :
    chip[d] # "working" => d \in call.aimed /\ (call.names # {} => d \in call.names)

(* warm_reset: success is reported only for devices that finished their    *)
(* reset and were restored, as far as the waits and the clocks can tell,   *)
(* and no other device is touched, although devices are numbered anew      *)
(* while they are off the bus.                                             *)
ResetsWhatItSays ==
  /\ TypeOK
  /\ SuccessIsReal
  /\ ClockIsEvidence
  /\ OthersUntouched

(* warm_reset sends the post-reset notification whether or not the reset   *)
(* succeeded: a monitor that got the pre-reset notification of a reset     *)
(* that returned gets the post-reset one as well, unless it is stopped.    *)
PostHeard ==
  \A c \in Client, r \in 1 .. MaxResets :
    /\ step = "announced" /\ note = "none" /\ resets = r
    /\ <<"pre", r>> \in Range(heard[c])
    ~> <<"post", r>> \in Range(heard[c]) \/ ~keep[c]

(* The monitors: stop_monitoring ends them whenever it is called, and one  *)
(* that heard of a reset hears of its end.                                 *)
MonitorsServed == StopsEventually /\ PostHeard
=============================================================================
