----------------------------- MODULE MCFirmware -----------------------------
(***************************************************************************)
(* The firmware-facing components side by side: part says which of them a  *)
(* behaviour is about, and the others keep their initial state.            *)
(***************************************************************************)
EXTENDS WormholeArcMessenger, SpiFlash, ArchImplementation, DeviceFirmware

VARIABLE part

MCUsers == {"u1", "u2", "u3"}
MCRoute == [u1 |-> "local", u2 |-> "gw", u3 |-> "front"]
M(prefix, c, args, mayDie) == [code |-> <<prefix, c>>, args |-> args, mayDie |-> mayDie]
MCCalls == [u1 |-> <<M(170, 33, <<1, 2>>, TRUE)>>, u2 |-> <<M(187, 7, <<3>>, FALSE)>>,
            u3 |-> <<M(170, 33, <<65536>>, FALSE), M(170, 33, <<4>>, FALSE)>>]
MCBootStatuses == {Zero, <<0, 96>>, <<4369, 0>>, <<0, 43520>>, <<0, 85>>, <<57005, 49374>>, Ones}

MCBoards ==
    {[arch |-> "WORMHOLE_B0", version |-> V(18, 6, 0), simple |-> FALSE, arcclk |-> 540],
     [arch |-> "WORMHOLE_B0", version |-> V(19, 0, 0), simple |-> FALSE, arcclk |-> 540],
     [arch |-> "WORMHOLE_B0", version |-> V(19, 0, 0), simple |-> TRUE, arcclk |-> 500],
     [arch |-> "BLACKHOLE", version |-> V(18, 9, 0), simple |-> FALSE, arcclk |-> 0],
     [arch |-> "BLACKHOLE", version |-> V(19, 0, 0), simple |-> FALSE, arcclk |-> 0]}
SpiOp(kind, addr, data, skip) == [kind |-> kind, addr |-> addr, data |-> data, skip |-> skip]
MCOperations ==
    {SpiOp("write", 1, <<1, 2>>, FALSE), SpiOp("write", 1, <<1, 2, 3, 4>>, FALSE), SpiOp("write", 2, <<12, 13, 5>>, FALSE),
     SpiOp("write", 3, <<4>>, TRUE), SpiOp("write", 5, <<6>>, FALSE),
     SpiOp("read", 1, <<0, 0, 0>>, FALSE), SpiOp("read", 4, <<0, 0, 0>>, FALSE), SpiOp("read", 2, <<>>, FALSE)}

\* The versions on both sides of every boundary of the feature maps.
MCVersions == {V(80, 18, 0), V(18, 3, 0), V(18, 3, 1), V(18, 4, 0), V(18, 7, 0), V(18, 8, 0), V(19, 6, 0), V(19, 7, 0),
               V(19, 8, 0), V(19, 9, 0), V(19, 10, 0), V(19, 11, 0), V(19, 13, 0)}
MCArches == {"WORMHOLE_B0", "BLACKHOLE"}
Modern == {v \in MCVersions : AtLeast(v, V(18, 4, 0))}
Progress == {"IN_PROGRESS", "SUCCESS", "FAIL"}
Fields == {<<1, 0, 5>>, <<1, 0, 300>>, <<2, 0, 9>>, <<1, 2, 3>>, <<2, 2, 0>>, <<3, 1, 0>>, <<3, 5, 0>>}
MCQueries ==
    [kind : {"tags"}, arch : MCArches, version : MCVersions, newer : MCVersions]
    \cup [kind : {"dram"}, arch : MCArches, version : Modern, channels : {[c \in {0, 1} |-> IF c = 0 THEN a ELSE b]
            : a \in Progress \X Progress, b \in {"SUCCESS", "FAIL"} \X {"SUCCESS", "IN_PROGRESS"}}]
    \cup [kind : {"gddr"}, arch : MCArches, version : {V(18, 8, 0)}, failed : {{}, {0, 3}, {7}}]
    \cup [kind : {"eth"}, arch : MCArches, version : Modern, low : {{}, {0, 13}, {5, 9}}, high : {{1}, {0, 13}},
          harvested : {{}, {5}}]
    \cup [kind : {"version"}, arch : MCArches, version : {V(18, 8, 0)}, of : {"CM_FW_VERSION", "DM_APP_FW_VERSION", "TT_FLASH_VERSION"},
          packed : {<<1, 2, 3, 4>>, <<0, 255, 0, 255>>}]
    \cup [kind : {"fan"}, arch : MCArches, version : Modern, fans : {<<>>, <<1200>>} \X {<<>>, <<0>>}]
    \cup [kind : {"proto"}, fields : UNION {[1..n -> Fields] : n \in 0..3}, field : {1, 2, 3}, padding : {0, 2}]
    \cup [kind : {"arc"}, csm : BOOLEAN, io : {"PCIe", "JTAG", "remote"},
          off : {0, 8, 524284, 524286, 524288, 1048572, 1048575, 1048576}, size : {0, 2, 4, 64}]
    \cup [kind : {"reset"}, arch : MCArches, sel : SUBSET ALL_TENSIX]
    \cup [kind : {"reset"}, arch : {"QUASAR"}, sel : SUBSET ALL_NEO_DMS]

MCResetters == {"r1", "r2"}
MCResetSelections == {{"BRISC"}, {"TRISC1", "NCRISC"}, {"ALL_TRISCS"}, {"DM0"}}

MCProcs == {"p1", "p2"}
Job(kind, api) == [kind |-> kind, api |-> api]
DramJob(api, c) == [kind |-> "dram", api |-> api, channel |-> c]
TdpJob(watts) == [kind |-> "tdp", api |-> "tt", watts |-> watts]
ClockJob(api, state) == [kind |-> "clock", api |-> api, state |-> state]
IatuJob(r) == [kind |-> "iatu", api |-> "tt", region |-> r]
Jobs(a, b) == [p1 |-> a, p2 |-> b]
Harvested(t, d, e, x) == [tensix |-> t, dram |-> d, eth |-> e, pcie |-> x, l2cpu |-> d]
Scene(arch, version, harvested, ubb, faulty, retrain, jobs) ==
    [arch |-> arch, version |-> version, harvested |-> harvested, ubb |-> ubb, faulty |-> faulty, jobs |-> jobs,
     eth |-> [retrain |-> retrain, status |-> IF retrain THEN "SUCCESS" ELSE "IN_PROGRESS", unused |-> FALSE]]
BhScene(v, jobs) == Scene("BLACKHOLE", v, Harvested({0}, {}, {1}, {0}), FALSE, FALSE, FALSE, jobs)
WhScene(v, ubb, faulty, jobs) == Scene("WORMHOLE_B0", v, Harvested({1}, {}, {}, {}), ubb, faulty, TRUE, jobs)
Alone(job) == Jobs(job, Job("none", "tt"))
MCScenarios ==
    {BhScene(V(19, 11, 0), Jobs(DramJob("tt", 0), TdpJob(100))),
     BhScene(V(19, 11, 0), Jobs(TdpJob(100), TdpJob(400))),
     BhScene(V(19, 11, 0), Jobs(IatuJob(0), IatuJob(3))),
     Scene("BLACKHOLE", V(19, 11, 0), NoneHarvested, FALSE, TRUE, FALSE, Jobs(ClockJob("tt", "BUSY"), ClockJob("fw", "IDLE"))),
     BhScene(V(19, 11, 0), Jobs(TdpJob(600), Job("restore", "tt"))),
     BhScene(V(19, 6, 0), Alone(DramJob("fw", 0))), BhScene(V(19, 6, 0), Alone(Job("restore", "tt"))),
     BhScene(V(19, 11, 0), Alone(Job("eth", "tt"))), BhScene(V(19, 11, 0), Alone(Job("eth", "fw"))),
     Scene("BLACKHOLE", V(19, 11, 0), Harvested({}, {1}, {}, {1}), FALSE, TRUE, FALSE, Alone(DramJob("fw", 1))),
     WhScene(V(18, 3, 0), FALSE, FALSE, Jobs(DramJob("tt", 0), Job("restore", "tt"))),
     WhScene(V(19, 9, 0), FALSE, TRUE, Alone(DramJob("fw", 0))), WhScene(V(19, 9, 0), FALSE, TRUE, Alone(ClockJob("tt", "BUSY"))),
     WhScene(V(19, 9, 0), FALSE, FALSE, Jobs(Job("eth", "tt"), IatuJob(3))),
     WhScene(V(19, 9, 0), TRUE, FALSE, Alone(Job("eth", "fw"))), WhScene(V(19, 9, 0), FALSE, FALSE, Alone(Job("eth", "fw"))),
     WhScene(V(19, 9, 0), TRUE, FALSE, Alone(Job("eth", "tt"))), WhScene(V(19, 9, 0), FALSE, TRUE, Alone(IatuJob(3))), WhScene(V(19, 9, 0), TRUE, TRUE, Alone(ClockJob("fw", "IDLE")))}

Parts == {"mailbox", "spi", "query", "device", "reset"}

Mailbox(A) == part = "mailbox" /\ A /\ UNCHANGED <<part, spiVars, query, devVars, resetVars>>
Spi(A) == part = "spi" /\ A /\ UNCHANGED <<part, msgVars, query, devVars, resetVars>>
Pure(A) == part = "query" /\ A /\ UNCHANGED <<part, msgVars, spiVars, devVars, resetVars>>
Device(A) == part = "device" /\ A /\ UNCHANGED <<part, msgVars, spiVars, query, resetVars>>
SoftReset(A) == part = "reset" /\ A /\ UNCHANGED <<part, msgVars, spiVars, query, devVars>>

vars == <<part, msgVars, spiVars, query, devVars, resetVars>>
Quiet == scene = CHOOSE s \in Scenarios : TRUE
FirmwareInit == part \in Parts /\ (part # "device" => Quiet) /\ (part # "reset" => soft_reset = {})
                /\ ResetInit /\ MsgInit /\ SpiInit /\ QueryInit /\ DevInit
FirmwareNext == Mailbox(MsgNext) \/ Spi(SpiNext) \/ Pure(Ask) \/ Device(DevNext) \/ SoftReset(ResetNext)
FirmwareSpec ==
    /\ FirmwareInit /\ [][FirmwareNext]_vars
    /\ \A p \in Users : WF_vars(Mailbox(HostStep(p)))
    /\ WF_vars(Mailbox(FwStep))
    /\ \A p \in Procs : WF_vars(Device(ProcStep(p)))

-----------------------------------------------------------------------------
(* WormholeArcMessenger and the SPI transfers built on ARC messages: a     *)
(* caller gets the answer to its own message, a core reported as started   *)
(* is up save for the boot states the code cannot tell apart, a transfer   *)
(* changes and returns exactly the bytes asked for, whatever its alignment,*)
(* and leaves the flash locked, also when a message fails half way.        *)
MessagesSound ==
  /\ OwnAnswer
  /\ StartedMeansUpOrKnownGap
  /\ SpiTransferExact
  /\ SpiRelocked

(* FirmwareInfoProvider: at every version boundary, the tags belong to the *)
(* reader in use, an upgrade loses no getter, and each packed word (DRAM   *)
(* and ethernet status, GDDR modules, versions, fans, the bundle's         *)
(* protobuf) is decoded as the firmware packs it.                          *)
TelemetryDecoded ==
  /\ TagsMatchReader
  /\ UpgradeKeepsGetters
  /\ DramStatusDecoded
  /\ GddrModulesApart
  /\ EthStatusHalves
  /\ VersionsDecoded
  /\ FansDecoded
  /\ ProtobufField

(* Every transport to an ARC window accepts the same accesses; calls of    *)
(* several callers that change the soft reset of some RISC cores take      *)
(* effect and leave the others as they were, up to the first that writes   *)
(* back a register another one changed; cores nobody selects never change. *)
RegistersExact ==
  /\ ArcRoutesAgree
  /\ SoftResetDecoded
  /\ SoftResetExact

(* TTDevice bring-up by two processes while the firmware comes up: an      *)
(* initialised device has its telemetry, DRAM and ethernet reported as     *)
(* trained are trained, a power limit reported as applied was accepted,    *)
(* and the address translation of a live device stays.                     *)
BringUpSound ==
  /\ InitSeesTelemetry
  /\ DramTrainedIsReal
  /\ EthStatusIsFresh
  /\ TdpReturnsApplied
  /\ IatuStays

(* Every message sent to the mailbox ends for its caller, and the bring-up *)
(* of a device ends, whatever the firmware does.                           *)
FirmwareCallsEnd ==
  /\ MailCallsEnd
  /\ DeviceSettles
=============================================================================
