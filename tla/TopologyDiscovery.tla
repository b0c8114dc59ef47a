------------------------- MODULE TopologyDiscovery -------------------------
(***************************************************************************)
(* Topology discovery: the local devices are opened, then a work list of   *)
(* devices is scanned channel by channel for devices behind the ethernet   *)
(* links, and a cluster descriptor is filled from what was found.          *)
(*                                                                         *)
(* What the code reads from the hardware is the record env, chosen in the  *)
(* initial state: the wiring, the board of every chip, the state of every  *)
(* ethernet core, which chips fail to initialize, the options, and whether *)
(* the program discovers devices, makes up a mock cluster or loads a file  *)
(* (source).  A chip is a number, which is also the ASIC id its neighbours *)
(* and its own trained ethernet cores report.                              *)
(***************************************************************************)
EXTENDS ClusterDescriptor

CONSTANTS
  Env,                \* the systems and options to start from
  RetrainAttempts     \* ETH_RETRAIN_ATTEMPT_COUNT

ASSUME EnvAssumption == RetrainAttempts \in Nat /\ Channel \subseteq Nat

VARIABLES
  env,                \* the system and the options; train is the state of the links
  train,              \* port -> "success", "fail" or "unconnected"
  pc,                 \* what create_ethernet_map does next
  position,           \* position in the list or the channels being walked
  todo,               \* devices_to_discover: ASIC id -> chip
  devices,            \* devices: ASIC id -> chip
  chip_id,            \* asic_id_to_chip_id
  next_chip_id,
  sixU,               \* is_running_on_6u
  board_ids,
  discovered,         \* discovered_devices
  mmio_of,            \* remote_asic_id_to_mmio_device_id
  active,             \* active_eth_channels_per_device
  eth_coords,         \* the ASIC ids that have an ethernet coordinate
  links,              \* ethernet_connections, ports named by ASIC id
  outside,            \* ethernet_connections_to_remote_devices
  expected,           \* <<first_fw_bundle_version, expected_eth_fw_version>>, 0 when unset
  health,             \* the ASIC ids with an entry in health_errors
  current,            \* the ASIC id being scanned
  desc                \* the cluster descriptor

found == <<todo, devices, chip_id, next_chip_id>>
seen == <<discovered, mmio_of, active, eth_coords, links, outside>>
vars == <<env, train, pc, position, sixU, board_ids, expected, health, current, desc,
          found, seen>>

(***************************************************************************)
(* What is read from the devices.                                          *)
(***************************************************************************)
Mock(id) == 100 + id                    \* generate_unhealthy_asic_id
MarkedUnhealthy(asic) == asic >= 100
Wormhole == env.arch = "wormhole"
Action(name) == env.options[name]       \* "throw" or "ignore"

IsEthTrained(chip, ch) == train[<<chip, ch>>] = "success"

\* Wormhole falls back on the board id, Blackhole on the id in the telemetry, which is
\* not the mangled id its neighbours see.
UnconnectedDeviceId(chip) == IF Wormhole THEN 50 + env.board[chip] ELSE 70 + chip

GetAsicId(chip) ==
  IF \E ch \in Channel : IsEthTrained(chip, ch) THEN chip ELSE UnconnectedDeviceId(chip)

BoardId(chip) == <<env.upi[env.board[chip]], env.board[chip]>>
GetBoardType(chip) == GetBoardTypeFromBoardId(BoardId(chip))

\* init_first_device asks the first device.
IsRunningOn6u(chip) == GetBoardType(chip) \in {"UBB", "UBB_BLACKHOLE"}

\* On 6U the ASIC id takes the place of the board id.
LocalBoardId(chip, six) == IF six THEN chip ELSE 50 + env.board[chip]
RemoteChip(chip, ch) == env.link[<<chip, ch>>][1]
RemoteBoardId(chip, ch) == LocalBoardId(RemoteChip(chip, ch), sixU)

\* A Blackhole core reports the channel of its partner without regard to harvesting.
RemoteEthChannel(chip, ch) ==
  env.link[<<chip, ch>>][2] + (IF Wormhole THEN 0 ELSE env.harvested[RemoteChip(chip, ch)])

\* Blackhole firmware before 18.12 (version 2 here) hides the first channels of a P150 in
\* the logical number it reports and reports nothing of use on other boards.
HiddenChannels == 4
Fw18_12 == 3
ReportedLogicalChannel(chip, ch) ==
  env.link[<<chip, ch>>][2] - (IF expected[1] < Fw18_12 THEN HiddenChannels ELSE 0)

\* Mutant of LogicalRemoteEthChannel: the hidden channels are always added.
LogicalChannelShifted(chip, ch) ==
  IF Wormhole THEN env.link[<<chip, ch>>][2]
  ELSE ReportedLogicalChannel(chip, ch) + HiddenChannels

LogicalRemoteEthChannel(chip, ch) ==
  IF Wormhole THEN env.link[<<chip, ch>>][2]
  ELSE ReportedLogicalChannel(chip, ch) + (IF expected[1] < Fw18_12 THEN HiddenChannels ELSE 0)
LogicalRemoteEthChannelThrows(chip) ==
  ~Wormhole /\ expected[1] < Fw18_12 /\ GetBoardType(chip) # "P150"

IsUsingEthCoords == Wormhole /\ ~sixU

Set(f, key, value) == IF key \in DOMAIN f THEN f ELSE f @@ (key :> value)   \* emplace

Throw == pc' = "thrown"

(***************************************************************************)
(* Local devices.                                                          *)
(***************************************************************************)
Init ==
  /\ env \in Env
  /\ train = env.train
  /\ pc = "connect"
  /\ position = 1
  /\ todo = NoMap /\ devices = NoMap /\ chip_id = NoMap /\ next_chip_id = 0
  /\ sixU = FALSE /\ board_ids = {}
  /\ discovered = {} /\ mmio_of = NoMap /\ active = NoMap /\ eth_coords = {}
  /\ links = {} /\ outside = {}
  /\ expected = <<0, 0>> /\ health = {}
  /\ current = 0
  /\ desc = EmptyDescriptor

\* init_device: construct_soc_descriptor needs a known board type.
InitFails(chip) == chip \in env.fails \/ GetBoardType(chip) = "throws"

\* One device of the loop in get_connected_devices.
GetConnectedDevice ==
  /\ pc = "connect" /\ env.source = "devices" /\ position <= Len(env.local)
  /\ position' = position + 1
  /\ LET chip == env.local[position]
         six == IF todo = NoMap THEN IsRunningOn6u(chip) ELSE sixU
     IN \/ /\ env.archOf[chip] # env.arch
           /\ UNCHANGED <<found, health, board_ids, sixU, pc>>
        \/ /\ env.archOf[chip] = env.arch /\ InitFails(chip) /\ Action("init") = "throw"
           /\ Throw
           /\ UNCHANGED <<found, health, board_ids, sixU>>
        \/ /\ env.archOf[chip] = env.arch /\ InitFails(chip) /\ Action("init") = "ignore"
           /\ todo' = Set(todo, Mock(next_chip_id), chip)
           /\ chip_id' = Set(chip_id, Mock(next_chip_id), next_chip_id)
           /\ health' = health \cup {Mock(next_chip_id)}
           /\ next_chip_id' = next_chip_id + 1
           /\ UNCHANGED <<pc, devices, board_ids, sixU>>
        \/ /\ env.archOf[chip] = env.arch /\ ~InitFails(chip)
           /\ sixU' = six
           /\ board_ids' = board_ids \cup {LocalBoardId(chip, six)}
           /\ todo' = Set(todo, GetAsicId(chip), chip)
           /\ chip_id' = Set(chip_id, GetAsicId(chip), next_chip_id)
           /\ next_chip_id' = next_chip_id + 1
           /\ UNCHANGED <<pc, devices, health>>
  /\ UNCHANGED <<env, train, expected, current, desc, seen>>

AllConnected ==
  /\ pc = "connect" /\ env.source = "devices" /\ position > Len(env.local)
  /\ pc' = "retrain" /\ position' = 1
  /\ UNCHANGED <<env, train, sixU, board_ids, expected, health, current, desc, found, seen>>

\* One attempt of retrain_eth_cores: every failed link of the devices found so far is
\* retrained and may come up.  Firmware that is too old ends the attempts; the links
\* before it have been triggered.  RETRAIN_UNCONNECTED is false.
FailedPorts == {p \in DOMAIN train : /\ \E a \in DOMAIN todo : todo[a] = p[1]
                                     /\ train[p] = "fail"}

RetrainNeeded == /\ Wormhole /\ sixU /\ env.options.retrain
                 /\ position <= RetrainAttempts
                 /\ FailedPorts # {}

RetrainEthCores ==
  /\ pc = "retrain" /\ RetrainNeeded
  /\ \E up \in SUBSET {p \in FailedPorts : env.ethFw[p] # 1} :
       train' = [p \in DOMAIN train |->
                   IF p \in up \/ (p \in DOMAIN env.link /\ env.link[p] \in up)
                   THEN "success" ELSE train[p]]
  /\ position' = IF \E p \in FailedPorts : env.ethFw[p] = 1
                   THEN RetrainAttempts + 1 ELSE position + 1
  /\ UNCHANGED <<env, pc, sixU, board_ids, expected, health, current, desc, found, seen>>

\* The end of retraining and the loop at the head of discover_remote_devices.
StartDiscovery ==
  /\ pc = "retrain" /\ ~RetrainNeeded
  /\ pc' = "next"
  /\ discovered' = DOMAIN todo
  /\ mmio_of' = [a \in DOMAIN todo |-> a]
  /\ active' = [a \in DOMAIN todo |-> {}]
  /\ UNCHANGED <<env, train, position, sixU, board_ids, expected, health, current, desc,
                 found, eth_coords, links, outside>>

(***************************************************************************)
(* The work list.                                                          *)
(***************************************************************************)
\* verify_fw_bundle_version: the first device sets the version; 1 is below the minimum.
FwVersionBad(chip) ==
  IF expected[1] # 0 THEN env.fw[chip] # expected[1] ELSE env.fw[chip] = 1

FwAction == IF expected[1] # 0 THEN Action("cmfw_mismatch") ELSE Action("cmfw_unsupported")

\* Mutant of WithoutTaken: the entry is not erased.
StillListed(asic) == todo

WithoutTaken(asic) == Only(todo, DOMAIN todo \ {asic})

\* The map is ordered: the smallest ASIC id is next.
NextDevice ==
  /\ pc = "next" /\ todo # NoMap
  /\ LET asic == Min(DOMAIN todo)
         chip == todo[asic]
     IN /\ todo' = WithoutTaken(asic)
        /\ devices' = Set(devices, asic, chip)
        /\ current' = asic
        /\ position' = 1
        /\ \/ /\ MarkedUnhealthy(asic)
              /\ UNCHANGED <<pc, expected, health>>
           \/ /\ ~MarkedUnhealthy(asic) /\ FwVersionBad(chip) /\ FwAction = "throw"
              /\ Throw
              /\ UNCHANGED <<expected, health>>
           \/ /\ ~MarkedUnhealthy(asic) /\ ~(FwVersionBad(chip) /\ FwAction = "throw")
              /\ expected' = [expected EXCEPT ![1] = IF @ = 0 THEN env.fw[chip] ELSE @]
              /\ health' = IF FwVersionBad(chip) THEN health \cup {asic} ELSE health
              /\ pc' = IF env.options.remote THEN "scan" ELSE "next"
  /\ UNCHANGED <<env, train, sixU, board_ids, desc, chip_id, next_chip_id, seen>>

SortedChannels == SetToSortSeq(Channel, <)
Scanning(ch) == pc = "scan" /\ position <= Len(SortedChannels) /\ SortedChannels[position] = ch
CurrentChip == devices[current]
Core(ch) == env.core[<<CurrentChip, ch>>]

EndOfScan ==
  /\ pc = "scan" /\ position > Len(SortedChannels)
  /\ pc' = "next"
  /\ UNCHANGED <<env, train, position, sixU, board_ids, expected, health, current, desc,
                 found, seen>>

HeartbeatFails(ch) == Wormhole /\ Core(ch) \in {"dead", "corrupt"}

\* A core that is switched off, in reset, or whose firmware gives no sign of life.  Only
\* Wormhole has a port disable mask.  A missing heartbeat is a health error, a wrong
\* signature is not.
SkipCore(ch) ==
  /\ Scanning(ch)
  /\ \/ Wormhole /\ Core(ch) = "disabled"
     \/ Core(ch) = "reset"
     \/ HeartbeatFails(ch)
  /\ IF HeartbeatFails(ch) /\ Action("heartbeat") = "throw" THEN Throw ELSE pc' = pc
  /\ health' = IF Wormhole /\ Core(ch) = "dead" THEN health \cup {current} ELSE health
  /\ position' = position + 1
  /\ UNCHANGED <<env, train, sixU, board_ids, expected, current, desc, found, seen>>

CoreAlive(ch) ==
  /\ Core(ch) # "reset"
  /\ Wormhole => Core(ch) \notin {"disabled", "dead", "corrupt"}

\* verify_eth_core_fw_version.  Version 1 is below the minimum, which is looked at only
\* when the expected version is established.
EthFw(ch) == env.ethFw[<<CurrentChip, ch>>]
ExpectedEthFw(ch) == IF expected[2] # 0 THEN expected[2]
                     ELSE IF env.telemetryEthFw # 0 THEN env.telemetryEthFw ELSE EthFw(ch)
EthFwMismatch(ch) == EthFw(ch) # ExpectedEthFw(ch)
EthFwProblem(ch) == EthFwMismatch(ch) \/ (expected[2] = 0 /\ ExpectedEthFw(ch) = 1)
EthFwAccepted(ch) == Action("eth_fw") = "ignore" \/ ~EthFwProblem(ch)

RoutingBad(ch) == Wormhole /\ env.routing[<<CurrentChip, ch>>] = sixU

\* A live core without a link, or with refused firmware: at most a coordinate is learnt.
ScanUnusableCore(ch) ==
  /\ Scanning(ch) /\ CoreAlive(ch)
  /\ ~(EthFwAccepted(ch) /\ IsEthTrained(CurrentChip, ch))
  /\ expected' = [expected EXCEPT ![2] = ExpectedEthFw(ch)]
  /\ health' = IF EthFwMismatch(ch) THEN health \cup {current} ELSE health
  /\ eth_coords' = IF IsUsingEthCoords /\ EthFwAccepted(ch)
                     THEN eth_coords \cup {current} ELSE eth_coords
  /\ position' = position + 1
  /\ UNCHANGED <<env, train, pc, sixU, board_ids, current, desc, found,
                 discovered, mmio_of, active, links, outside>>

\* What every trained core leads to before the code looks at its partner.
ScanTrainedCore(ch) ==
  /\ Scanning(ch) /\ CoreAlive(ch) /\ EthFwAccepted(ch) /\ IsEthTrained(CurrentChip, ch)
  /\ ~(RoutingBad(ch) /\ Action("routing") = "throw")
  /\ expected' = [expected EXCEPT ![2] = ExpectedEthFw(ch)]
  /\ eth_coords' = IF IsUsingEthCoords THEN eth_coords \cup {current} ELSE eth_coords
  /\ position' = position + 1
  /\ UNCHANGED <<env, train, sixU, board_ids, current, desc, devices>>

CoreErrors(ch) == IF EthFwMismatch(ch) \/ RoutingBad(ch) THEN {current} ELSE {}

\* Mutant of IsOutside: only the board of the finder counts as ours.
IsOutsideBoard(ch) ==
  \/ RemoteBoardId(CurrentChip, ch) # LocalBoardId(CurrentChip, sixU)
  \/ ~Wormhole /\ RemoteChip(CurrentChip, ch) \notin discovered

\* The partner is on a board that is not ours, or, on Blackhole, is not a local device.
IsOutside(ch) ==
  \/ RemoteBoardId(CurrentChip, ch) \notin board_ids
  \/ ~Wormhole /\ RemoteChip(CurrentChip, ch) \notin discovered

IsNewDevice(ch) == ~IsOutside(ch) /\ RemoteChip(CurrentChip, ch) \notin discovered

\* On 6U there is no remote communication: a null device would be initialized.
NewDeviceThrows(ch) ==
  IsNewDevice(ch) /\ (sixU \/ (InitFails(RemoteChip(CurrentChip, ch)) /\ Action("init") = "throw"))

OutsideThrows(ch) == IsOutside(ch) /\ LogicalRemoteEthChannelThrows(CurrentChip)

ScanThrows(ch) ==
  /\ Scanning(ch) /\ CoreAlive(ch) /\ EthFwAccepted(ch) /\ IsEthTrained(CurrentChip, ch)
  /\ \/ RoutingBad(ch) /\ Action("routing") = "throw"
     \/ NewDeviceThrows(ch)
     \/ OutsideThrows(ch)
  /\ Throw
  /\ UNCHANGED <<env, train, position, sixU, board_ids, expected, health, current, desc,
                 found, seen>>

Activated(ch) == [active EXCEPT ![current] = @ \cup {ch}]

LinkToOutside(ch) ==
  /\ ScanTrainedCore(ch) /\ IsOutside(ch) /\ ~OutsideThrows(ch)
  /\ active' = Activated(ch)
  /\ outside' = outside \cup
       {<<<<current, ch>>, <<RemoteChip(CurrentChip, ch), LogicalRemoteEthChannel(CurrentChip, ch)>>>>}
  /\ health' = health \cup CoreErrors(ch)
  /\ UNCHANGED <<pc, todo, chip_id, next_chip_id, discovered, mmio_of, links>>

LinkToKnownDevice(ch) ==
  /\ ScanTrainedCore(ch) /\ ~IsOutside(ch) /\ RemoteChip(CurrentChip, ch) \in discovered
  /\ active' = Activated(ch)
  /\ links' = links \cup
       {<<<<current, ch>>, <<RemoteChip(CurrentChip, ch), RemoteEthChannel(CurrentChip, ch)>>>>}
  /\ health' = health \cup CoreErrors(ch)
  /\ UNCHANGED <<pc, todo, chip_id, next_chip_id, discovered, mmio_of, outside>>

\* Mutant of GatewayOf: the finder itself.
GatewayFinder(asic) == asic

GatewayOf(asic) == mmio_of[asic]

\* A new device behind the link.  It is reached through the local device its finder is
\* reached through.
LinkToNewDevice(ch) ==
  /\ ScanTrainedCore(ch) /\ IsNewDevice(ch) /\ ~NewDeviceThrows(ch)
  /\ LET chip == RemoteChip(CurrentChip, ch)
         failed == InitFails(chip)
         key == IF failed THEN Mock(next_chip_id) ELSE chip
     IN /\ todo' = Set(todo, key, chip)
        /\ chip_id' = Set(Set(chip_id, key, next_chip_id), chip, next_chip_id)
        /\ next_chip_id' = next_chip_id + 1
        /\ active' = Set(Activated(ch), chip, {})
        /\ mmio_of' = Set(mmio_of, chip, GatewayOf(current))
        /\ discovered' = discovered \cup {chip}
        /\ health' = health \cup CoreErrors(ch) \cup (IF failed THEN {key} ELSE {})
  /\ UNCHANGED <<pc, links, outside>>

(***************************************************************************)
(* The descriptor.                                                         *)
(***************************************************************************)
\* Mutant of PatchEthConnections: the channels stay physical.
UnpatchedEthConnections == links

\* patch_eth_connections: on Blackhole the channel at the far end becomes logical.
PatchEthConnections ==
  IF Wormhole THEN links
  ELSE {<<l[1], <<l[2][1], l[2][2] - env.harvested[l[2][1]]>>>> : l \in links}

Healthy == {a \in DOMAIN devices : ~MarkedUnhealthy(a)}

\* The .at() calls that find no entry: the coordinate of a device none of whose cores
\* was accepted, and the device of an ASIC id that failed to initialize.
FillThrows ==
  \/ IsUsingEthCoords /\ eth_coords # {} /\ ~ Healthy \subseteq eth_coords
  \/ \E a \in DOMAIN active : ~MarkedUnhealthy(a) /\ a \notin DOMAIN devices

IsRemote(asic) == mmio_of[asic] # asic

ByChip(S, value(_)) ==
  [c \in {chip_id[a] : a \in S} |-> value(CHOOSE a \in S : chip_id[a] = c)]

FilledDescriptor ==
  LET port(p) == <<chip_id[p[1]], p[2]>>
      both == PatchEthConnections \cup {<<l[2], l[1]>> : l \in PatchEthConnections}
      local == {a \in Healthy : ~IsRemote(a)}
      used == {<<chip_id[a], ch>> : a \in Healthy, ch \in Channel}
                \cap UNION {{<<chip_id[a], ch>> : ch \in active[a]} : a \in Healthy}
  IN [EmptyDescriptor EXCEPT
        !.chips = {chip_id[a] : a \in Healthy},
        !.arch = ByChip(Healthy, LAMBDA a : env.arch),
        !.uid = ByChip(Healthy, LAMBDA a : a),
        !.mmio = ByChip(local, LAMBDA a : devices[a]),
        !.board = ByChip(Healthy, LAMBDA a : BoardId(devices[a])),
        !.type = ByChip(Healthy, LAMBDA a : GetBoardType(devices[a])),
        !.info = ByChip(Healthy, LAMBDA a : [bdf |-> devices[a]]),
        !.location = IF IsUsingEthCoords /\ eth_coords # {}
                       THEN ByChip(Healthy, LAMBDA a : devices[a]) ELSE NoMap,
        !.cluster = IF IsUsingEthCoords /\ eth_coords # {}
                       THEN ByChip(Healthy, LAMBDA a : 0) ELSE NoMap,
        !.cache = IF eth_coords = {} THEN ByChip(Healthy, LAMBDA a : chip_id[mmio_of[a]])
                  ELSE NoMap,
        !.eth = [p \in {port(l[1]) : l \in both} |->
                   port((CHOOSE l \in both : port(l[1]) = p)[2])],
        !.remote = [p \in {port(l[1]) : l \in outside} |->
                      (CHOOSE l \in outside : port(l[1]) = p)[2]],
        !.active = used,
        !.idle = ChipPorts({chip_id[a] : a \in Healthy}) \ used]

FillClusterDescriptorInfo ==
  /\ pc = "next" /\ todo = NoMap
  /\ links' = PatchEthConnections
  /\ IF FillThrows THEN Throw /\ desc' = desc
     ELSE LET grouped == FillChipsGroupedByClosestMmio(MergeClusterIds(FilledDescriptor))
          IN IF grouped = Thrown \/ Verify(grouped) = Thrown THEN Throw /\ desc' = desc
             ELSE pc' = "done" /\ desc' = grouped
  /\ UNCHANGED <<env, train, position, sixU, board_ids, expected, health, current, found,
                 discovered, mmio_of, active, eth_coords, outside>>

(***************************************************************************)
(* What is then done with the descriptor.                                  *)
(***************************************************************************)
UnchangedButDesc == UNCHANGED <<env, train, position, sixU, board_ids, expected, health,
                                current, found, seen>>

MockChips == {i - 1 : i \in DOMAIN env.local}

\* A program for mock chips makes up its descriptor instead of discovering one.
MakeMockCluster ==
  /\ pc = "connect" /\ env.source = "mock"
  /\ desc' = CreateMockCluster(MockChips, env.arch)
  /\ pc' = "mock"
  /\ UnchangedButDesc

\* Or loads one from a file, where somebody wrote a board type next to the board id.
LoadFile ==
  /\ pc = "connect" /\ env.source = "file"
  /\ \E upi \in {\h14, \h99}, type \in {"N300", "UNKNOWN"} :
       LET yaml == [Serialize(CreateMockCluster(MockChips, env.arch)) EXCEPT
                      !.boards = [c \in DOMAIN @ |-> <<upi, c>>],
                      !.board_types = [c \in DOMAIN @ |-> type]]
           loaded == CreateFromYaml(yaml, Cardinality(Channel))
       IN IF loaded = Thrown THEN Throw /\ desc' = desc ELSE pc' = "loaded" /\ desc' = loaded
  /\ UnchangedButDesc


\* Restriction to some of the chips, for a cluster that shows only those.
Constrain ==
  /\ pc \in {"done", "mock", "loaded"}
  /\ \E target \in (SUBSET desc.chips) \ {{}} : desc' \in CreateConstrained(desc, target, {})
  /\ desc' # Thrown
  /\ pc' = "constrained"
  /\ UnchangedButDesc

\* The same with TT_VISIBLE_DEVICES: one BDF, or one number.
ConstrainToVisible ==
  /\ pc \in {"done", "mock", "loaded"}
  /\ \E c \in DOMAIN desc.mmio, bdf \in BOOLEAN :
       desc' \in CreateConstrained(desc, {},
                   {[bdf |-> bdf, value |-> IF bdf THEN desc.info[c].bdf ELSE c]})
  /\ desc' # Thrown
  /\ pc' = "constrained"
  /\ UnchangedButDesc

\* The descriptor is written to a file and loaded, in another process or a simulation.
Reload ==
  /\ pc \in {"done", "mock", "loaded", "constrained"}
  /\ desc' = IF SerializeThrows(desc) THEN Thrown
             ELSE CreateFromYaml(Serialize(desc), Cardinality(Channel))
  /\ pc' = "reloaded"
  /\ UnchangedButDesc

Terminated == pc \in {"thrown", "reloaded"} /\ UNCHANGED vars

Next ==
  \/ GetConnectedDevice \/ AllConnected \/ RetrainEthCores \/ StartDiscovery
  \/ NextDevice \/ EndOfScan
  \/ \E ch \in Channel :
       \/ SkipCore(ch) \/ ScanUnusableCore(ch) \/ ScanThrows(ch)
       \/ LinkToOutside(ch) \/ LinkToKnownDevice(ch) \/ LinkToNewDevice(ch)
  \/ FillClusterDescriptorInfo \/ MakeMockCluster \/ LoadFile
  \/ Constrain \/ ConstrainToVisible \/ Reload
  \/ Terminated

Spec == Init /\ [][Next]_vars

(***************************************************************************)
(* Properties.                                                             *)
(***************************************************************************)
Ended == pc \in {"done", "mock", "loaded", "constrained", "reloaded"}

\* Types of the maps of TopologyDiscovery: the keys of the maps that are looked up with
\* .at() are there when the lookup happens.
TypeOK ==
  /\ DOMAIN todo \cap DOMAIN devices = {}
  /\ DOMAIN todo \cup DOMAIN devices \subseteq DOMAIN chip_id
  /\ pc \in {"next", "scan"} => \A a \in Healthy : a \in DOMAIN mmio_of /\ a \in DOMAIN active
  /\ \A l \in links : {l[1][1], l[2][1]} \subseteq DOMAIN chip_id

\* Ports whose core is alive, speaks the expected firmware and has a link.
Usable(p) ==
  /\ env.core[p] # "reset" /\ (Wormhole => env.core[p] = "ok")
  /\ train[p] = "success"
  /\ Action("eth_fw") = "ignore" \/ env.ethFw[p] = expected[2]

HealthyLocal == {c \in Range(env.local) : env.archOf[c] = env.arch /\ ~InitFails(c)}

\* Reference: what can be reached from the local devices over usable links without
\* leaving the boards of the local devices (Wormhole cards).
ReachableChips ==
  LET included == {c \in DOMAIN env.board : \E l \in HealthyLocal : env.board[l] = env.board[c]}
      step(S) == S \cup {c \in included : /\ ~InitFails(c)
                                       /\ \E p \in DOMAIN env.link :
                                            p[1] \in S /\ Usable(p) /\ env.link[p][1] = c}
      R[n \in 0 .. Cardinality(included)] == IF n = 0 THEN HealthyLocal ELSE step(R[n - 1])
  IN R[Cardinality(included)]

\* discover_remote_devices finds every chip the links lead to, and no chip twice: the
\* healthy devices of the descriptor are exactly the reachable chips, local devices
\* included.
FindsEveryChip ==
  (pc = "done" /\ env.options.remote /\ expected[2] # 1) =>
    /\ {devices[a] : a \in Healthy} = IF Wormhole /\ ~sixU THEN ReachableChips ELSE HealthyLocal
    /\ \A a, b \in Healthy : devices[a] = devices[b] => a = b
    /\ Cardinality(desc.chips) = Cardinality(Healthy)

\* The local device a remote device is reached through (create_remote_device) is a healthy
\* local device that has an active channel and is connected to the remote device.
GatewayLeadsThere ==
  \A a \in DOMAIN mmio_of : (mmio_of[a] # a) =>
    LET g == mmio_of[a]
    IN /\ g \in Healthy /\ devices[g] \in HealthyLocal
       /\ active[g] # {}
       /\ \E b \in Healthy : /\ mmio_of[b] = g
                            /\ \E ch \in active[b] : env.link[<<devices[b], ch>>][1] = a

\* The wiring of a descriptor (fill_cluster_descriptor_info, the restriction, the loading):
\* links join two chips of the descriptor and lead back, a port is not both inside and
\* outside, a linked channel is idle only if its own core could not be used, and a link to
\* the outside names the channel the cable ends in, as the other host numbers it.
SkippedPort(c, ch) ==
  \E a \in Healthy : a = desc.uid[c] /\ ~Usable(<<devices[a], ch>>)

DescriptorWired ==
  Ended =>
    /\ \A p \in DOMAIN desc.eth :
         /\ p[1] \in desc.chips
         /\ desc.eth[p] \in DOMAIN desc.eth /\ desc.eth[desc.eth[p]] = p
         /\ p \in desc.active \/ SkippedPort(p[1], p[2])
    /\ DOMAIN desc.eth \cap DOMAIN desc.remote = {}
    /\ pc = "done" => \A p \in DOMAIN desc.remote :
                        desc.remote[p] = env.link[<<devices[desc.uid[p[1]]], p[2]>>]
    /\ desc.active \cup desc.idle \in {{}, ChipPorts(desc.chips)}
    /\ desc.active \cap desc.idle = {}

\* With coordinates every chip is in exactly one group of chips_grouped_by_closest_mmio,
\* that of a local chip on its board; so Cluster can open a gateway for every remote chip.
EveryChipHasGateway ==
  (Ended /\ DOMAIN desc.location # {}) =>
    /\ UNION {desc.groups[m] : m \in DOMAIN desc.groups} = desc.chips
    /\ \A m \in DOMAIN desc.groups :
         /\ m \in DOMAIN desc.mmio
         /\ \A c \in desc.groups[m] : desc.board[c] = desc.board[m]
         /\ \A n \in DOMAIN desc.groups \ {m} : desc.groups[m] \cap desc.groups[n] = {}

\* Chips with coordinates have the same cluster id exactly if links join them.
ClusterIdsAreComponents ==
  (pc = "done" \/ (pc = "reloaded" /\ DOMAIN desc.cluster = DOMAIN desc.location)) =>
    LET E == {<<p[1], desc.eth[p][1]>> : p \in DOMAIN desc.eth}
        step(S) == S \cup {e[2] : e \in {x \in E : x[1] \in S}}
        Comp[n \in 0 .. Cardinality(desc.chips)] ==
          [c \in desc.chips |-> IF n = 0 THEN {c} ELSE step(Comp[n - 1][c])]
    IN \A c, d \in DOMAIN desc.cluster :
         (desc.cluster[c] = desc.cluster[d]) <=> d \in Comp[Cardinality(desc.chips)][c]

\* Writing a descriptor to YAML and loading it (serialize, create_from_yaml_content) gives
\* the same chips, boards and links; the channels with a link are the active ones.  The
\* board type is recomputed from the board id on the way: that is the type discovered
\* chips and mock Wormhole chips had, while mock chips of the other architectures, whose
\* type is unknown, and chips of a file that says otherwise come back with another one.
RoundTrip ==
  [][pc' = "reloaded" /\ pc # "reloaded" =>
       /\ desc' # Thrown
       /\ \A f \in {"chips", "arch", "location", "mmio", "board", "uid", "info", "eth", "remote"} :
            desc'[f] = desc[f]
       /\ desc'.active = DOMAIN desc.eth \cup DOMAIN desc.remote
       /\ \A c \in desc.chips : desc'.type[c] = BoardUpiMap[desc.board[c][1]]
       /\ devices # NoMap \/ (pc = "mock" /\ Wormhole) => desc'.type = desc.type]_vars

\* A link as the unique ids of its ends, whatever the chips are numbered.
LinksByUid(d) ==
  {<<<<d.uid[p[1]], p[2]>>, <<d.uid[d.eth[p][1]], d.eth[p][2]>>>> : p \in DOMAIN d.eth}
    \cup {<<<<d.uid[p[1]], p[2]>>, d.remote[p]>> : p \in DOMAIN d.remote}

\* Restricting a cluster renumbers the chips and nothing else: every kept chip keeps its
\* board, what is known of it, its active channels and its links (a link to a chip that is
\* hidden becomes one to the outside); boards of at most two chips are kept whole; the
\* new numbers have no gaps and start with the local chips.
RestrictionKeepsIdentity ==
  [][pc' = "constrained" /\ pc # "constrained" =>
       LET kept == Range(desc'.uid)
           old(c) == CHOOSE x \in desc.chips : desc.uid[x] = desc'.uid[c]
           uids(d, board) == {d.uid[c] : c \in BoardChips(d, board)}
       IN /\ LinksByUid(desc') = {l \in LinksByUid(desc) : l[1][1] \in kept}
          /\ \A c \in desc'.chips :
               /\ \A f \in {"board", "type", "arch", "info"} : desc'[f][c] = desc[f][old(c)]
               /\ (c \in DOMAIN desc'.mmio) <=> (old(c) \in DOMAIN desc.mmio)
               /\ \A ch \in Channel : (<<c, ch>> \in desc'.active) <=> (<<old(c), ch>> \in desc.active)
          /\ (\A c \in desc'.chips : Cardinality(BoardChips(desc, desc'.board[c])) <= 2) =>
               \A board \in Range(desc'.board) : uids(desc', board) = uids(desc, board)
          /\ IF kept = Range(desc.uid) THEN desc'.chips = desc.chips
             ELSE /\ desc'.chips = 0 .. Cardinality(kept) - 1
                  /\ DOMAIN desc'.mmio = 0 .. Cardinality(DOMAIN desc'.mmio) - 1]_vars
=============================================================================
