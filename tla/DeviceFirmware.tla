--------------------------- MODULE DeviceFirmware ---------------------------
(***************************************************************************)
(* One chip and the processes that open it: each brings its TTDevice up    *)
(* (init_tt_device) while the ARC firmware is still booting and publishing *)
(* its telemetry, then runs one job against the firmware and drops the     *)
(* device.  ARC messages are answered at once here: WormholeArcMessenger   *)
(* and BlackholeArcMessageQueue model how.  Firmware actions are external. *)
(* A loop with a timeout polls at most Polls times.                        *)
(***************************************************************************)
EXTENDS FirmwareInfo

CONSTANTS
    Procs,          \* processes with a device object for the chip
    Scenarios,      \* records [arch, version, harvested, ubb, faulty, jobs]
    Polls,          \* polls before a timeout
    MaxTdp          \* the limit above which the firmware refuses

VARIABLES
    scene,          \* the scenario of this behaviour
    chip,           \* what the hardware and the firmware hold
    dev             \* the TTDevice of each process

devVars == <<scene, chip, dev>>

Channels == {0, 1}
MAX_DRAM_RETRAIN_ATTEMPTS == IF scene.arch = "BLACKHOLE" THEN 3 ELSE 0
AICLK_IDLE_VAL == IF scene.arch = "BLACKHOLE" THEN 800 ELSE 500

----------------------------------------------------------------------------
(* Firmware (external).  published counts what it has made visible: 1 the  *)
(* values pointer, 2 the table pointer too.                                *)

StatusWord ==
    LET Done(x) == {2 * c : c \in {i \in Channels : chip.dram[i][x] # "IN_PROGRESS"}}
        Err(x) == {2 * c + 1 : c \in {i \in Channels : chip.dram[i][x] = "FAIL"}}
        Half16(bits) == LET F[n \in 0..4] == IF n = 0 THEN 0 ELSE F[n - 1] + (IF n - 1 \in bits THEN 2 ^ (n - 1) ELSE 0)
                        IN  F[4]
    IN  <<Half16(Done(2) \cup Err(2)), Half16(Done(1) \cup Err(1))>>

\* The word behind a tag now; the table holds these tags, and of every unit
\* there are two.
Low2(units) == (IF 0 \in units THEN 1 ELSE 0) + (IF 1 \in units THEN 2 ELSE 0)
Published == {TelemetryTag[n] : n \in {"FLASH_BUNDLE_VERSION", "ENABLED_TENSIX_COL", "ENABLED_GDDR", "ENABLED_ETH",
                                       "ENABLED_L2CPU", "PCIE_USAGE", "AICLK", "GDDR_STATUS", "TDP_LIMIT_MAX"}}
ValueNow(t) ==
    CASE t = TelemetryTag.FLASH_BUNDLE_VERSION -> <<256 * scene.version[1] + scene.version[2], 256 * scene.version[3]>>
      [] t = TelemetryTag.ENABLED_TENSIX_COL -> <<0, 3 - Low2(scene.harvested.tensix)>>
      [] t = TelemetryTag.ENABLED_GDDR -> <<0, 3 - Low2(scene.harvested.dram)>>
      [] t = TelemetryTag.ENABLED_ETH -> <<0, 3 - Low2(scene.harvested.eth)>>
      [] t = TelemetryTag.ENABLED_L2CPU -> <<0, 3 - Low2(scene.harvested.l2cpu)>>
      [] t = TelemetryTag.PCIE_USAGE -> <<0, (IF 0 \in scene.harvested.pcie THEN 2 ELSE 1) + 4 * (IF 1 \in scene.harvested.pcie THEN 0 ELSE 1)>>
      [] t = TelemetryTag.AICLK -> <<0, chip.aiclk>>
      [] t = TelemetryTag.GDDR_STATUS -> StatusWord
      [] t = TelemetryTag.TDP_LIMIT_MAX -> <<0, chip.tdp>>
SmBusNow ==
    LET Code(s) == IF s = "IN_PROGRESS" THEN 0 ELSE IF s = "FAIL" THEN 1 ELSE 2
    IN  [t \in 0..49 |->
            CASE t = LegacyTelemetryTag.FW_BUNDLE_VERSION ->
                     IF chip.published = 0 THEN Zero ELSE ValueNow(TelemetryTag.FLASH_BUNDLE_VERSION)
              [] t = LegacyTelemetryTag.DDR_STATUS -> <<0, Code(chip.dram[0][1]) + 16 * Code(chip.dram[1][1])>>
              [] t = LegacyTelemetryTag.AICLK -> <<1000, chip.aiclk>>
              [] OTHER -> Zero]

FwBoot == ~chip.up /\ chip' = [chip EXCEPT !.up = TRUE] /\ UNCHANGED <<scene, dev>>
FwPublish == chip.published < 2 /\ chip' = [chip EXCEPT !.published = @ + 1] /\ UNCHANGED <<scene, dev>>

\* A channel trains, then tests itself; either may fail.  What nobody waits for
\* stays as it is.
Awaited(kind) == \E p \in Procs : dev[p].job.kind = kind
FwTrains(c) ==
    /\ chip.up /\ (\E p \in Procs : dev[p].job.kind = "dram" /\ dev[p].job.channel = c) /\ chip.dram[c][2] = "IN_PROGRESS" /\ chip.dram[c][1] # "FAIL"
    /\ \E s \in {"SUCCESS", "FAIL"} :
        chip' = [chip EXCEPT !.dram[c] = IF @[1] = "IN_PROGRESS" THEN <<s, "IN_PROGRESS">> ELSE <<@[1], s>>]
    /\ UNCHANGED <<scene, dev>>
\* An ethernet core that retrains keeps its old status until it is through.
FwLink ==
    /\ Awaited("eth") /\ (chip.eth.retrain \/ chip.eth.status = "IN_PROGRESS")
    /\ \E s \in {"SUCCESS", "FAIL"}, u \in BOOLEAN : chip' = [chip EXCEPT !.eth = [retrain |-> FALSE, status |-> s, unused |-> u]]
    /\ UNCHANGED <<scene, dev>>
FwClock == chip.aiclk # chip.target /\ chip' = [chip EXCEPT !.aiclk = chip.target] /\ UNCHANGED <<scene, dev>>

\* What a message does; the exit code may also tell of a failure.
Accepts(watts) == watts <= MaxTdp
Handled(msg) ==
    CASE msg.code = "TOGGLE_GDDR_RESET" -> [chip EXCEPT !.dram[msg.arg] = <<"IN_PROGRESS", "IN_PROGRESS">>]
      [] msg.code = "SET_TDP_LIMIT" -> IF Accepts(msg.arg) THEN [chip EXCEPT !.tdp = msg.arg] ELSE chip
      [] msg.code = "RESTORE_TDP_LIMIT" -> [chip EXCEPT !.tdp = MaxTdp]
      [] msg.code = "GO_BUSY" -> [chip EXCEPT !.target = 1000]
      [] msg.code = "GO_IDLE" -> [chip EXCEPT !.target = AICLK_IDLE_VAL]
      [] msg.code = "SETUP_IATU" -> [chip EXCEPT !.iatu[chip.mailbox.region] = <<chip.mailbox.target>>]

----------------------------------------------------------------------------
(* The device of a process.                                                *)

NoneHarvested == [tensix |-> {}, dram |-> {}, eth |-> {}, pcie |-> {}, l2cpu |-> {}]
NewDevice(job) ==
    [pc |-> "closed", polls |-> 0, reader |-> [kind |-> "none", found |-> {}, static |-> <<>>], pointer |-> [table |-> FALSE, values |-> FALSE],
     version |-> <<>>, harvested |-> NoneHarvested, soc |-> FALSE, job |-> job, left |-> 0, regions |-> {}, result |-> "none"]

DevInit ==
    /\ scene \in Scenarios
    /\ chip = [up |-> FALSE, published |-> 0, dram |-> [c \in Channels |-> <<"IN_PROGRESS", "IN_PROGRESS">>],
               eth |-> scene.eth, aiclk |-> AICLK_IDLE_VAL, target |-> AICLK_IDLE_VAL, tdp |-> MaxTdp,
               iatu |-> [r \in 0..4 |-> <<>>], mailbox |-> [region |-> 0, target |-> "none"],
               refused |-> FALSE]
    /\ dev = [p \in Procs |-> NewDevice(scene.jobs[p])]

Become(p, d) == dev' = [dev EXCEPT ![p] = d] /\ UNCHANGED <<scene, chip>>
Go(p, pc) == Become(p, [dev[p] EXCEPT !.pc = pc, !.polls = 0])
Throw(p) == Become(p, [dev[p] EXCEPT !.pc = "thrown", !.result = "throw"])
FinishWith(p, result) == Become(p, [dev[p] EXCEPT !.pc = "done", !.result = result])
Send(p, msg, next) == chip' = Handled(msg) /\ dev' = [dev EXCEPT ![p] = next] /\ UNCHANGED scene

\* One turn of a loop with a timeout: it may be the last.
MayPoll(p) == dev[p].polls < Polls
Poll(p) == MayPoll(p) /\ Become(p, [dev[p] EXCEPT !.polls = @ + 1])

Api(p) == dev[p].job.api

\* The constructor touches nothing of the firmware.
Construct(p) == dev[p].pc = "closed" /\ dev[p].job.kind # "none" /\ Go(p, "new")

\* TTDevice::init_tt_device up to the start of the ARC core: a NOC that hangs
\* throws, and so does an ARC core that is not up in time.
CheckHang(p) == dev[p].pc = "new" /\ (Go(p, "arc") \/ (scene.faulty /\ Throw(p)))
BootStatus == IF chip.up THEN 5 ELSE 2
WaitStart(p) ==
    \/ BootStatus % 8 = 5 /\ Go(p, IF scene.arch = "WORMHOLE_B0" THEN "smbus" ELSE "table")
    \/ BootStatus % 8 # 5 /\ (Poll(p) \/ Throw(p))
wait_arc_core_start(p) == dev[p].pc = "arc" /\ Api(p) = "tt" /\ WaitStart(p)
\* BlackholeDeviceFirmware::init_firmware goes on to find the message queue.
init_firmware(p) == dev[p].pc = "arc" /\ Api(p) = "fw" /\ WaitStart(p)

\* ArcTelemetryReader::create_arc_telemetry_reader on Wormhole: the SMBus table
\* says by its version which reader to keep, once it holds one.
SmBusReader(p) ==
    LET w == SmBusNow[LegacyTelemetryTag.FW_BUNDLE_VERSION]
        kind == ReaderKind(scene.arch, from_firmware_bundle_tag(w))
    IN  /\ dev[p].pc = "smbus"
        /\ \/ w = Zero /\ (Poll(p) \/ Throw(p))
           \/ w # Zero /\ kind = "table" /\ Go(p, "table")
           \/ w # Zero /\ kind = "smbus"
              /\ Become(p, [dev[p] EXCEPT !.pc = "provider", !.polls = 0, !.reader.kind = "smbus"])

\* get_telemetry_address: the order in which the two pointers are read.
ValuesFirst == <<"values", "table">>                                                    \* mutant
PointerOrder == <<"table", "values">>
PointerNow(which) == IF which = "table" THEN chip.published >= 2 ELSE chip.published >= 1
ReadFirstPointer(p) ==
    /\ dev[p].pc = "table"
    /\ Become(p, [dev[p] EXCEPT !.pc = "second", !.pointer[PointerOrder[1]] = PointerNow(PointerOrder[1])])
ReadSecondPointer(p) ==
    /\ dev[p].pc = "second"
    /\ Become(p, [dev[p] EXCEPT !.pc = "check", !.pointer[PointerOrder[2]] = PointerNow(PointerOrder[2])])

\* initialize_telemetry: the tags found and the words read once.  Words behind
\* a values pointer that is not set read zero.
initialize_telemetry(p) ==
    LET Value(t) == IF dev[p].pointer.values THEN ValueNow(t) ELSE Zero
    IN  [kind |-> "table", found |-> Published, static |-> [t \in static_entries \cap Published |-> Value(t)]]
NoTable == [kind |-> "table", found |-> {}, static |-> <<>>]

\* wait_for_telemetry_initialized: a timeout only warns, and nothing is found.
WaitForTheTable(p) ==
    /\ dev[p].pc = "check"
    /\ \/ dev[p].pointer.table /\ Become(p, [dev[p] EXCEPT !.pc = "provider", !.reader = initialize_telemetry(p)])
       \/ ~dev[p].pointer.table /\ Become(p, [dev[p] EXCEPT !.pc = "table"])                \* mutant
wait_for_telemetry_initialized(p) ==
    /\ dev[p].pc = "check"
    /\ \/ dev[p].pointer.table /\ Become(p, [dev[p] EXCEPT !.pc = "provider", !.reader = initialize_telemetry(p)])
       \/ ~dev[p].pointer.table /\ MayPoll(p) /\ Become(p, [dev[p] EXCEPT !.pc = "table", !.polls = @ + 1])
       \/ ~dev[p].pointer.table /\ Become(p, [dev[p] EXCEPT !.pc = "provider", !.reader = NoTable])

\* The provider over the reader: entries that are not static are read again.
ReaderNow(p) ==
    LET r == dev[p].reader
        Dynamic(t) == IF dev[p].pointer.values THEN ValueNow(t) ELSE Zero
    IN  IF r.kind = "smbus" THEN [kind |-> "smbus", words |-> SmBusNow]
        ELSE [kind |-> "table", words |-> [t \in r.found |-> IF t \in static_entries THEN r.static[t] ELSE Dynamic(t)]]
Provider(p) ==
    CHOOSE info \in {create_firmware_info_provider(scene.arch, r, SmBusNow) : r \in {ReaderNow(p)}} : TRUE
MakeProvider(p) ==
    /\ dev[p].pc = "provider"
    /\ \E info \in {Provider(p)} : Become(p, [dev[p] EXCEPT !.pc = "info", !.version = info.version])

\* get_chip_info: Wormhole asks by a message and throws on its exit code;
\* Blackhole complements the telemetry words, takes a missing one as whole, and
\* keeps the PCIe unit that is an endpoint.  The masks are not shuffled yet.
HarvestedBy(r, tag) ==
    IF is_entry_available(r, tag) THEN {c \in {0, 1} : Bit(read_entry(r, tag), c) = 0} ELSE {}
PcieHarvested(r) ==
    LET w == read_entry(r, TelemetryTag.PCIE_USAGE)
    IN  IF is_entry_available(r, TelemetryTag.PCIE_USAGE)
        THEN {c \in {0, 1} : Bit(w, 2 * c) + 2 * Bit(w, 2 * c + 1) # 1} ELSE {}
BlackholeMasks(r) ==
    [tensix |-> HarvestedBy(r, TelemetryTag.ENABLED_TENSIX_COL), dram |-> HarvestedBy(r, TelemetryTag.ENABLED_GDDR),
     eth |-> HarvestedBy(r, TelemetryTag.ENABLED_ETH), pcie |-> PcieHarvested(r),
     l2cpu |-> HarvestedBy(r, TelemetryTag.ENABLED_L2CPU)]
WithChipInfo(p, masks) == Become(p, [dev[p] EXCEPT !.pc = "ready", !.soc = TRUE, !.harvested = masks])
WormholeChipInfo(p) ==
    /\ dev[p].pc = "info" /\ scene.arch = "WORMHOLE_B0"
    /\ WithChipInfo(p, [NoneHarvested EXCEPT !.tensix = scene.harvested.tensix]) \/ (scene.faulty /\ Throw(p))
BlackholeChipInfo(p) ==
    dev[p].pc = "info" /\ scene.arch = "BLACKHOLE" /\ \E r \in {ReaderNow(p)} : WithChipInfo(p, BlackholeMasks(r))

----------------------------------------------------------------------------
(* Jobs.                                                                   *)

StartJob(p) ==
    /\ dev[p].pc = "ready"
    /\ Become(p, [dev[p] EXCEPT !.pc = dev[p].job.kind, !.polls = 0, !.left = MAX_DRAM_RETRAIN_ATTEMPTS])

\* What one look at a channel makes wait_dram_channel_training do: TTDevice's,
\* and those of the two DeviceFirmware.
TTDeviceDram(status, c, left) ==
    CASE status = <<>> -> "unknown"
      [] status # <<>> /\ status[1][c] = "FAIL" -> IF left > 0 THEN "retrain" ELSE "throw"
      [] OTHER -> IF status[1][c] = "SUCCESS" THEN "trained" ELSE "again"
WormholeFirmwareDram(status, c) ==
    CASE status = <<>> -> "unknown"
      [] status # <<>> /\ status[1][c] = "FAIL" -> "throw"
      [] OTHER -> IF status[1][c] = "SUCCESS" THEN "trained" ELSE "again"
BlackholeFirmwareDram(status, c, left) ==
    CASE status = <<>> -> "unknown"
      [] status # <<>> /\ status[1][c] = "FAIL" -> IF left > 0 THEN "retrain" ELSE "throw"
      [] OTHER -> IF status[1][c] = "SUCCESS" THEN "trained" ELSE "again"
DramVerdict(p, status) ==
    IF Api(p) = "tt" THEN TTDeviceDram(status, dev[p].job.channel, dev[p].left)
    ELSE IF scene.arch = "BLACKHOLE" THEN BlackholeFirmwareDram(status, dev[p].job.channel, dev[p].left)
    ELSE WormholeFirmwareDram(status, dev[p].job.channel)

wait_dram_channel_training(p) ==
    /\ dev[p].pc = "dram"
    /\ \E info \in {Provider(p)} : \E status \in {get_dram_training_status(info, 2)} : \E verdict \in {DramVerdict(p, status)} :
        \/ verdict \in {"trained", "unknown"} /\ FinishWith(p, verdict)
        \/ verdict = "retrain" /\ Become(p, [dev[p] EXCEPT !.pc = "retrain"])
        \/ verdict = "again" /\ Poll(p)
        \/ verdict \in {"throw", "again"} /\ Throw(p)

\* retrain_dram_core throws on the exit code; the turn ends with the check of
\* the timeout as any other, and is counted by the attempts left.
Retrain(p) ==
    LET msg == [code |-> "TOGGLE_GDDR_RESET", arg |-> dev[p].job.channel]
    IN  \/ Send(p, msg, [dev[p] EXCEPT !.pc = "dram", !.left = @ - 1])
        \/ Send(p, msg, [dev[p] EXCEPT !.pc = "thrown", !.result = "throw"])
        \/ scene.faulty /\ Throw(p)
retrain_dram_core(p) == dev[p].pc = "retrain" /\ Retrain(p)

\* firmware_utils.cpp: the message's exit code is dropped and the limit is
\* read back.
set_tdp_limit(p) ==
    /\ dev[p].pc = "tdp"
    /\ \E info \in {Provider(p)} :
        IF dev[p].job.watts \notin TDP_LIMIT_MIN_WATTS..TDP_LIMIT_MAX_WATTS \/ ~is_tdp_limit_supported(info) THEN Throw(p)
        ELSE Send(p, [code |-> "SET_TDP_LIMIT", arg |-> dev[p].job.watts], [dev[p] EXCEPT !.pc = "tdp_check"])
BelieveFirmware(p) == dev[p].pc = "tdp_check" /\ FinishWith(p, "applied")                                   \* mutant
CheckTdpLimit(p) ==
    /\ dev[p].pc = "tdp_check"
    /\ \E info \in {Provider(p)} : \E limit \in {Get(info, "get_tdp_limit")} :
        IF limit = <<>> \/ Word(limit[1]) = <<0, dev[p].job.watts>> THEN FinishWith(p, "applied") ELSE Throw(p)
restore_default_tdp_limit(p) ==
    /\ dev[p].pc = "restore"
    /\ \E info \in {Provider(p)} :
        IF is_tdp_limit_supported(info)
        THEN Send(p, [code |-> "RESTORE_TDP_LIMIT"], [dev[p] EXCEPT !.pc = "done", !.result = "restored"])
        ELSE Throw(p)

\* set_clock_state: a message, then a wait that gives up with a warning.
ClockTarget(p, max) ==
    IF dev[p].job.state = "IDLE" THEN AICLK_IDLE_VAL ELSE IF max = <<>> THEN 0 ELSE Word(max[1])[2]
is_within_percentage(a, target) == 20 * (IF a > target THEN a - target ELSE target - a) <= target
ClockMessage(p) ==
    \/ Send(p, [code |-> IF dev[p].job.state = "BUSY" THEN "GO_BUSY" ELSE "GO_IDLE"], [dev[p] EXCEPT !.pc = "aiclk"])
    \/ scene.faulty /\ Throw(p)
AtClock(p, arch, api) == dev[p].pc = "clock" /\ scene.arch = arch /\ Api(p) = api
WormholeTTClock(p) == AtClock(p, "WORMHOLE_B0", "tt") /\ ClockMessage(p)
BlackholeTTClock(p) == AtClock(p, "BLACKHOLE", "tt") /\ ClockMessage(p)
WormholeFirmwareClock(p) == AtClock(p, "WORMHOLE_B0", "fw") /\ ClockMessage(p)
BlackholeFirmwareClock(p) == AtClock(p, "BLACKHOLE", "fw") /\ ClockMessage(p)

\* get_clock: a message on Wormhole, whose exit code throws; Blackhole throws
\* without the entry.
get_clock_throws(p) == scene.arch = "BLACKHOLE" /\ ~is_entry_available(ReaderNow(p), TelemetryTag.AICLK)
GetAiclkFails == scene.arch = "WORMHOLE_B0" /\ scene.faulty
wait_for_aiclk_value(p) ==
    /\ dev[p].pc = "aiclk"
    /\ \E info \in {Provider(p)} : \E max \in {Get(info, "get_max_clock_freq")} :
        LET settled == is_within_percentage(chip.aiclk, ClockTarget(p, max))
        IN  \/ (get_clock_throws(p) \/ GetAiclkFails) /\ Throw(p)
            \/ ~get_clock_throws(p) /\ settled /\ FinishWith(p, "settled")
            \/ ~get_clock_throws(p) /\ ~settled /\ (Poll(p) \/ FinishWith(p, "warned"))

\* read_eth_core_training_status: on Wormhole a core that retrains still shows
\* its last status, and a failure may mean that nothing is connected.
StatusAlone(e) == e.status                                                              \* mutant
WormholeEthStatus(e) ==
    IF e.retrain THEN "IN_PROGRESS" ELSE IF e.status = "FAIL" /\ e.unused THEN "NOT_CONNECTED" ELSE e.status
WormholeFirmwareEthStatus(e) ==
    IF e.retrain THEN "IN_PROGRESS" ELSE IF e.status = "FAIL" /\ e.unused THEN "NOT_CONNECTED" ELSE e.status
BlackholeEthStatus(e) == e.status
BlackholeFirmwareEthStatus(e) == e.status
EthStatusOf(p) ==
    CASE scene.arch = "WORMHOLE_B0" /\ Api(p) = "tt" -> WormholeEthStatus(chip.eth)
      [] scene.arch = "WORMHOLE_B0" /\ Api(p) = "fw" -> WormholeFirmwareEthStatus(chip.eth)
      [] scene.arch = "BLACKHOLE" /\ Api(p) = "tt" -> BlackholeEthStatus(chip.eth)
      [] scene.arch = "BLACKHOLE" /\ Api(p) = "fw" -> BlackholeFirmwareEthStatus(chip.eth)

\* wait_eth_core_training: on a timeout Wormhole throws, unless on a 6U board,
\* and Blackhole goes on.
AtEth(p, arch, api) == dev[p].pc = "eth" /\ scene.arch = arch /\ Api(p) = api
EthLoop(p) ==
    \/ EthStatusOf(p) # "IN_PROGRESS" /\ FinishWith(p, EthStatusOf(p))
    \/ EthStatusOf(p) = "IN_PROGRESS" /\ Poll(p)
EthGoesOn(p) == EthStatusOf(p) = "IN_PROGRESS" /\ FinishWith(p, "untrained")
EthThrows(p) == EthStatusOf(p) = "IN_PROGRESS" /\ Throw(p)
WormholeEthWait(p) == AtEth(p, "WORMHOLE_B0", "tt") /\ (EthLoop(p) \/ (scene.ubb /\ EthGoesOn(p)) \/ (~scene.ubb /\ EthThrows(p)))
WormholeFirmwareEthWait(p) ==
    AtEth(p, "WORMHOLE_B0", "fw") /\ (EthLoop(p) \/ (scene.ubb /\ EthGoesOn(p)) \/ (~scene.ubb /\ EthThrows(p)))
BlackholeEthWait(p) == AtEth(p, "BLACKHOLE", "tt") /\ (EthLoop(p) \/ EthGoesOn(p))
BlackholeFirmwareEthWait(p) == AtEth(p, "BLACKHOLE", "fw") /\ (EthLoop(p) \/ EthGoesOn(p))

\* configure_iatu_region: Blackhole writes the region's registers itself,
\* enabling it first; Wormhole fills a mailbox for a message and uses region 4
\* for 3.
RegionToUse(r) == IF scene.arch = "WORMHOLE_B0" /\ r = 3 THEN 4 ELSE r
BlackholeIatuEnable(p) ==
    /\ dev[p].pc = "iatu" /\ scene.arch = "BLACKHOLE"
    /\ chip' = [chip EXCEPT !.iatu[dev[p].job.region] = IF @ = <<>> THEN <<"none">> ELSE @]
    /\ dev' = [dev EXCEPT ![p].pc = "iatu_target"] /\ UNCHANGED scene
BlackholeIatuTarget(p) ==
    /\ dev[p].pc = "iatu_target" /\ scene.arch = "BLACKHOLE"
    /\ chip' = [chip EXCEPT !.iatu[dev[p].job.region] = IF @ = <<>> THEN @ ELSE <<p>>]
    /\ dev' = [dev EXCEPT ![p].pc = "done", ![p].result = "mapped", ![p].regions = @ \cup {dev[p].job.region}] /\ UNCHANGED scene
WormholeIatuMailbox(p) ==
    /\ dev[p].pc = "iatu" /\ scene.arch = "WORMHOLE_B0"
    /\ chip' = [chip EXCEPT !.mailbox = [region |-> RegionToUse(dev[p].job.region), target |-> p]]
    /\ dev' = [dev EXCEPT ![p].pc = "iatu_message"] /\ UNCHANGED scene
\* The exit code is not looked at: a message the firmware refused ends the call
\* as one it took.
WormholeIatuMessage(p) ==
    LET mapped == [dev[p] EXCEPT !.pc = "done", !.result = "mapped"]
    IN  /\ dev[p].pc = "iatu_message"
        /\ \/ Send(p, [code |-> "SETUP_IATU"], mapped)
           \/ scene.faulty /\ chip' = [chip EXCEPT !.refused = TRUE] /\ dev' = [dev EXCEPT ![p] = mapped] /\ UNCHANGED scene
           \/ scene.faulty /\ Throw(p)

\* ~BlackholeTTDevice turns off the regions this object programmed.
DisableEveryRegion(p) ==
    /\ dev[p].pc \in {"done", "thrown"}
    /\ chip' = [chip EXCEPT !.iatu = [r \in DOMAIN @ |-> <<>>]]
    /\ dev' = [dev EXCEPT ![p].pc = "dropped"] /\ UNCHANGED scene                                        \* mutant
Destroy(p) ==
    /\ dev[p].pc \in {"done", "thrown"}
    /\ chip' = [chip EXCEPT !.iatu = [r \in DOMAIN @ |-> IF r \in dev[p].regions THEN <<>> ELSE @[r]]]
    /\ dev' = [dev EXCEPT ![p].pc = "dropped"] /\ UNCHANGED scene

InitStep(p) ==
    CheckHang(p) \/ wait_arc_core_start(p) \/ init_firmware(p) \/ SmBusReader(p) \/ ReadFirstPointer(p) \/ ReadSecondPointer(p)
    \/ wait_for_telemetry_initialized(p) \/ MakeProvider(p) \/ WormholeChipInfo(p) \/ BlackholeChipInfo(p)
JobStep(p) ==
    StartJob(p) \/ wait_dram_channel_training(p) \/ retrain_dram_core(p) \/ set_tdp_limit(p) \/ CheckTdpLimit(p)
    \/ restore_default_tdp_limit(p) \/ WormholeTTClock(p) \/ BlackholeTTClock(p) \/ WormholeFirmwareClock(p)
    \/ BlackholeFirmwareClock(p) \/ wait_for_aiclk_value(p) \/ WormholeEthWait(p) \/ WormholeFirmwareEthWait(p)
    \/ BlackholeEthWait(p) \/ BlackholeFirmwareEthWait(p) \/ BlackholeIatuEnable(p) \/ BlackholeIatuTarget(p)
    \/ WormholeIatuMailbox(p) \/ WormholeIatuMessage(p)
ProcStep(p) == InitStep(p) \/ JobStep(p)
ChipStep == FwBoot \/ FwPublish \/ (\E c \in Channels : FwTrains(c)) \/ FwLink \/ FwClock
DevNext == (\E p \in Procs : Construct(p) \/ ProcStep(p) \/ Destroy(p)) \/ ChipStep

----------------------------------------------------------------------------
(* Properties.                                                             *)

\* A device that came up with telemetry has the chip's version and
\* harvesting: the two pointers it polls are read one after the other while the
\* firmware sets them, and the SoC descriptor is built from what is behind them.
InitSeesTelemetry ==
    \A p \in Procs : dev[p].soc /\ (dev[p].reader.found # {} \/ dev[p].reader.kind = "smbus") =>
        dev[p].version = scene.version /\ dev[p].harvested = scene.harvested

\* wait_dram_channel_training reports a channel trained only when it is and, on
\* firmware that tests it, has passed its test: for the waiters of a channel
\* that nobody else waits for, who might retrain it afterwards.
DramTrainedIsReal ==
    \A p \in Procs :
        LET tested == scene.arch = "BLACKHOLE" /\ AtLeast(scene.version, V(19, 7, 0))
            alone == \A q \in Procs \ {p} : dev[q].job.kind = "dram" => dev[q].job.channel # dev[p].job.channel
        IN  dev[p].job.kind = "dram" /\ dev[p].result = "trained" /\ alone =>
                /\ chip.dram[dev[p].job.channel][1] = "SUCCESS"
                /\ tested => chip.dram[dev[p].job.channel][2] = "SUCCESS"

\* A wait for an ethernet core that returns a status has seen the core through
\* its training: never the status from before a retrain.
EthStatusIsFresh ==
    \A p \in Procs : dev[p].job.kind = "eth" /\ dev[p].result \in {"SUCCESS", "FAIL", "NOT_CONNECTED"} => ~chip.eth.retrain

\* set_tdp_limit returns only if the firmware took the limit, although the
\* message's exit code is dropped and another process may set its own between.
TdpReturnsApplied == \A p \in Procs : dev[p].result = "applied" => Accepts(dev[p].job.watts)

\* A region that one live device programmed stays mapped to what it asked for,
\* whatever devices of other regions do; Wormhole's mailbox is not locked, so
\* there one process may configure at a time, and the exit code of its message
\* is not looked at, so the firmware must not have refused it.
IatuStays ==
    \A p \in Procs :
        dev[p].job.kind = "iatu" /\ dev[p].pc = "done" /\ dev[p].result = "mapped" /\ ~chip.refused
        /\ (\A q \in Procs \ {p} : dev[q].job.kind = "iatu" =>
                scene.arch = "BLACKHOLE" /\ dev[q].job.region # dev[p].job.region)
        => chip.iatu[RegionToUse(dev[p].job.region)] = <<p>>

\* Every start-up and every job ends, with a result or by throwing: each of the
\* waits on the firmware has its timeout, and retraining has its attempts.
DeviceSettles == \A p \in Procs : dev[p].pc = "new" ~> dev[p].pc \in {"done", "thrown", "dropped"}
=============================================================================
