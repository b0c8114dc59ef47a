------------------------- MODULE ArchImplementation -------------------------
(***************************************************************************)
(* The parts of a device that depend on its architecture: which RISC cores *)
(* a soft reset register holds, how calls change it, and which way an      *)
(* access to the ARC core takes; and one query of a caller against the     *)
(* pure ones or against FirmwareInfo, with the properties of the answers.  *)
(* A RiscType is a set of names, a soft reset register a set of bits.      *)
(***************************************************************************)
EXTENDS FirmwareInfo

CONSTANTS
    Queries,
    Resetters,       \* threads and processes that change the soft reset of one core
    ResetSelections, \* the RiscTypes they select
    MaxResets        \* bound on the calls they make

VARIABLES
    query,
    soft_reset,      \* the soft reset register of a Tensix core
    reset_call,      \* per caller, the call whose register read is done, or none
    resets,          \* calls begun
    wanted,          \* the RISC cores held and the stagger signal, as asked for so far
    touched,         \* RISC cores that were selected so far
    reset_lost       \* a call wrote back a register that had changed since its read

resetVars == <<soft_reset, reset_call, resets, wanted, touched, reset_lost>>

----------------------------------------------------------------------------
(* RiscType and the soft reset registers.                                  *)

ALL_TENSIX_TRISCS == {"TRISC0", "TRISC1", "TRISC2"}
ALL_TENSIX_DMS == {"BRISC", "NCRISC"}
ALL_TENSIX == ALL_TENSIX_TRISCS \cup ALL_TENSIX_DMS

\* A NEO triplet is held by one bit, so its four TRISCs are one name here.
ALL_NEO_TRISCS == {"NEO0", "NEO1", "NEO2", "NEO3"}
ALL_NEO_DMS == {"DM0", "DM1", "DM2", "DM3", "DM4", "DM5", "DM6", "DM7"}
ALL_NEO == ALL_NEO_TRISCS \cup ALL_NEO_DMS

RiscType == {"ALL", "ALL_TRISCS", "ALL_DATA_MOVEMENT"} \cup ALL_TENSIX \cup ALL_NEO

TensixBit == [BRISC |-> 11, TRISC0 |-> 12, TRISC1 |-> 13, TRISC2 |-> 14, NCRISC |-> 18]
\* The bits of DM3 .. DM6 are also those of the four triplets.
NeoBit == [DM0 |-> 8, DM1 |-> 9, DM2 |-> 10, DM3 |-> 11, DM4 |-> 12, DM5 |-> 13, DM6 |-> 14, DM7 |-> 15,
           NEO0 |-> 11, NEO1 |-> 12, NEO2 |-> 13, NEO3 |-> 14]

\* The cores that the architecture-agnostic names of a selection stand for.
FillUp(sel, all, triscs, dms) ==
    sel \cup (IF "ALL" \in sel THEN all ELSE {})
        \cup (IF "ALL_TRISCS" \in sel THEN triscs ELSE {})
        \cup (IF "ALL_DATA_MOVEMENT" \in sel THEN dms ELSE {})

\* The agnostic names that a register value sets: each as soon as one core is.
Agnostic(held, triscs, dms) ==
    held \cup (IF held # {} THEN {"ALL"} ELSE {})
         \cup (IF held \cap triscs # {} THEN {"ALL_TRISCS"} ELSE {})
         \cup (IF held \cap dms # {} THEN {"ALL_DATA_MOVEMENT"} ELSE {})

BitsOf(sel, bit) == {bit[r] : r \in sel \cap DOMAIN bit}

\* <<>> where the selection names cores of the other kind.
WormholeSoftResetRegValue(sel) ==
    IF sel \cap ALL_NEO # {} THEN <<>>
    ELSE <<BitsOf(FillUp(sel, ALL_TENSIX, ALL_TENSIX_TRISCS, ALL_TENSIX_DMS), TensixBit)>>
BlackholeSoftResetRegValue(sel) ==
    IF sel \cap ALL_NEO # {} THEN <<>>
    ELSE <<BitsOf(FillUp(sel, ALL_TENSIX, ALL_TENSIX_TRISCS, ALL_TENSIX_DMS), TensixBit)>>
GrendelSoftResetRegValue(sel) ==
    IF sel \cap ALL_TENSIX # {} THEN <<>>
    ELSE <<BitsOf(FillUp(sel, ALL_NEO, ALL_NEO_TRISCS, ALL_NEO_DMS), NeoBit)>>

WormholeSoftResetRiscType(bits) ==
    Agnostic({r \in ALL_TENSIX : TensixBit[r] \in bits}, ALL_TENSIX_TRISCS, ALL_TENSIX_DMS)
BlackholeSoftResetRiscType(bits) ==
    Agnostic({r \in ALL_TENSIX : TensixBit[r] \in bits}, ALL_TENSIX_TRISCS, ALL_TENSIX_DMS)
GrendelSoftResetRiscType(bits) ==
    Agnostic({r \in ALL_NEO : NeoBit[r] \in bits}, ALL_NEO_TRISCS, ALL_NEO_DMS)

get_soft_reset_reg_value(arch, sel) ==
    CASE arch = "WORMHOLE_B0" -> WormholeSoftResetRegValue(sel)
      [] arch = "BLACKHOLE" -> BlackholeSoftResetRegValue(sel)
      [] arch = "QUASAR" -> GrendelSoftResetRegValue(sel)
get_soft_reset_risc_type(arch, bits) ==
    CASE arch = "WORMHOLE_B0" -> WormholeSoftResetRiscType(bits)
      [] arch = "BLACKHOLE" -> BlackholeSoftResetRiscType(bits)
      [] arch = "QUASAR" -> GrendelSoftResetRiscType(bits)

get_soft_reset_staggered_start(arch) == IF arch = "QUASAR" THEN {} ELSE {31}

\* What assert_risc_reset and deassert_risc_reset write after they read current.
AssertWithoutRead(arch, current, sel) == get_soft_reset_reg_value(arch, sel)[1]            \* mutant
Asserted(arch, current, sel) == current \cup get_soft_reset_reg_value(arch, sel)[1]
Deasserted(arch, current, sel, staggered) ==
    (current \ get_soft_reset_reg_value(arch, sel)[1])
      \cup (IF staggered THEN get_soft_reset_staggered_start(arch) ELSE {})

----------------------------------------------------------------------------
(* Calls that change the soft reset of one Tensix core of a Wormhole or    *)
(* Blackhole device.  No lock is held between the read of the register and *)
(* the write.  wanted, touched and reset_lost are history.                 *)

ResetArch == "WORMHOLE_B0"
NoReset == [op |-> "none"]
ResetCalls == [op : {"assert"}, sel : ResetSelections, staggered : {FALSE}]
              \cup [op : {"deassert"}, sel : ResetSelections, staggered : BOOLEAN]

\* The Tensix cores a selection names, by what the names say.
CoresNamed(sel) ==
    {c \in ALL_TENSIX : \/ {c, "ALL"} \cap sel # {}
                        \/ c \in ALL_TENSIX_TRISCS /\ "ALL_TRISCS" \in sel
                        \/ c \in ALL_TENSIX_DMS /\ "ALL_DATA_MOVEMENT" \in sel}

ResetInit ==
    /\ soft_reset \in {{}, BitsOf(ALL_TENSIX, TensixBit)}
    /\ reset_call = [u \in Resetters |-> NoReset]
    /\ resets = 0 /\ touched = {} /\ reset_lost = FALSE
    /\ wanted = [held |-> IF soft_reset = {} THEN {} ELSE ALL_TENSIX, staggered |-> FALSE]

\* get_risc_reset_state at the head of both calls.
ReadResetState(u) ==
    /\ reset_call[u] = NoReset /\ resets < MaxResets
    /\ \E call \in ResetCalls : reset_call' = [reset_call EXCEPT ![u] = [current |-> soft_reset] @@ call]
    /\ resets' = resets + 1
    /\ UNCHANGED <<soft_reset, wanted, touched, reset_lost>>

\* A selection that names cores of another architecture is refused.
RefuseReset(u) ==
    /\ reset_call[u] # NoReset /\ get_soft_reset_reg_value(ResetArch, reset_call[u].sel) = <<>>
    /\ reset_call' = [reset_call EXCEPT ![u] = NoReset]
    /\ UNCHANGED <<soft_reset, resets, wanted, touched, reset_lost>>

WriteResetState(u) ==
    LET call == reset_call[u]
    IN  /\ call # NoReset /\ get_soft_reset_reg_value(ResetArch, call.sel) # <<>>
        /\ soft_reset' = IF call.op = "assert" THEN Asserted(ResetArch, call.current, call.sel)
                         ELSE Deasserted(ResetArch, call.current, call.sel, call.staggered)
        /\ reset_call' = [reset_call EXCEPT ![u] = NoReset]
        /\ wanted' = IF call.op = "assert" THEN [wanted EXCEPT !.held = @ \cup CoresNamed(call.sel)]
                     ELSE [held |-> wanted.held \ CoresNamed(call.sel),
                           staggered |-> wanted.staggered \/ call.staggered]
        /\ touched' = touched \cup CoresNamed(call.sel)
        /\ reset_lost' = (reset_lost \/ call.current # soft_reset)
        /\ UNCHANGED resets

\* Cluster::assert_risc_reset and deassert_risc_reset write the register of every Tensix
\* core of every chip, whole: BRISC alone is started.
BroadcastReset ==
    /\ resets < MaxResets
    /\ \/ /\ soft_reset' = get_soft_reset_reg_value(ResetArch, ALL_TENSIX)[1]
          /\ wanted' = [held |-> ALL_TENSIX, staggered |-> FALSE]
       \/ /\ soft_reset' = get_soft_reset_reg_value(ResetArch, ALL_TENSIX \ {"BRISC"})[1]
                            \cup get_soft_reset_staggered_start(ResetArch)
          /\ wanted' = [held |-> ALL_TENSIX \ {"BRISC"}, staggered |-> TRUE]
    /\ resets' = resets + 1
    /\ touched' = ALL_TENSIX
    /\ UNCHANGED <<reset_call, reset_lost>>

ResetNext ==
    \/ \E u \in Resetters : ReadResetState(u) \/ RefuseReset(u) \/ WriteResetState(u)
    \/ BroadcastReset

----------------------------------------------------------------------------
(* Devices and the way to the ARC core.                                    *)

\* TTDevice::create: the transport of the device made, or "throw".
create(arch, io, use_safe_api) ==
    IF use_safe_api /\ io # "PCIe" THEN "throw"
    ELSE IF io = "remote" THEN IF arch = "WORMHOLE_B0" THEN "remote" ELSE "throw"
    ELSE IF arch \in {"WORMHOLE_B0", "BLACKHOLE"} THEN io ELSE "throw"

\* An access that is made: where to, as registers or as memory, how long.
Bar(off) == [via |-> "bar0", how |-> "word", core |-> "none", off |-> off, size |-> 4]
Noc(how, core, off, size) == [via |-> "noc", how |-> how, core |-> core, off |-> off, size |-> size]
Refused == [via |-> "throw"]

\* Offsets of the windows' last bytes; content decides how memory is moved.
ARC_APB_ADDRESS_RANGE == 1048575
ARC_CSM_ADDRESS_RANGE == 524287
arc_apb == [size_bytes |-> ARC_APB_ADDRESS_RANGE + 1, content |-> "ctrl"]
arc_csm == [size_bytes |-> ARC_CSM_ADDRESS_RANGE + 1, content |-> "data"]

FirstByteOnly(w, transport, off, size) ==
    size # 0 /\ (transport = "remote" \/ size = 4) /\ off < w.size_bytes               \* mutant

check_access(w, transport, off, size) ==
    /\ size # 0
    /\ transport = "remote" \/ size = 4
    /\ size <= w.size_bytes /\ off <= w.size_bytes - size

\* WormholeArcWindow::read and write.
WormholeArcWindow(w, transport, off, size) ==
    IF ~check_access(w, transport, off, size) THEN Refused
    ELSE CASE transport = "remote" -> Noc(w.content, "selected", off, size)
           [] transport = "JTAG" -> Noc("ctrl", "selected", off, 4)
           [] transport = "PCIe" -> Bar(off)

\* WormholeTTDevice: the four accessors check the first byte alone.
WormholeTTDeviceApb(transport, off, size) ==
    IF off > ARC_APB_ADDRESS_RANGE THEN Refused
    ELSE CASE transport = "remote" -> Noc("ctrl", "selected", off, size)
           [] transport = "JTAG" -> Noc("ctrl", "noc0", off, 4)
           [] transport = "PCIe" -> Bar(off)
WormholeTTDeviceCsm(transport, off, size) ==
    IF off > ARC_CSM_ADDRESS_RANGE THEN Refused
    ELSE CASE transport = "remote" -> Noc("data", "selected", off, size)
           [] transport = "JTAG" -> Noc("ctrl", "noc0", off, 4)
           [] transport = "PCIe" -> Bar(off)

----------------------------------------------------------------------------
(* What the firmware publishes (external): the words behind each quantity. *)

Pack(b3, b2, b1, b0) == <<256 * b3 + b2, 256 * b1 + b0>>
Half(bits) == LET Sum[n \in 0..16] == IF n = 0 THEN 0 ELSE Sum[n - 1] + (IF n - 1 \in bits THEN 2 ^ (n - 1) ELSE 0)
              IN  Sum[16]

\* A table reader holds the entries of its firmware; one without the table
\* read the SMBus words.  Words differ so that a wrong tag shows.
TableWords == [t \in {TelemetryTag[n] : n \in DOMAIN TelemetryTag} |-> <<1, t>>]
SmBusWords == [t \in 0..49 |-> <<2, t>>]
BundleWord(v) == Pack(v[1], v[2], v[3], v[4])
ProviderOf(arch, v) ==
    LET kind == ReaderKind(arch, v)
        words == IF kind = "smbus" THEN [SmBusWords EXCEPT ![LegacyTelemetryTag.FW_BUNDLE_VERSION] = BundleWord(v)]
                 ELSE [TableWords EXCEPT ![TelemetryTag.FLASH_BUNDLE_VERSION] = BundleWord(v)]
    IN  create_firmware_info_provider(arch, [kind |-> kind, words |-> words], SmBusWords)
With(p, name, word) == [p EXCEPT !.reader.words[TelemetryTag[name]] = word]

\* The state of a GDDR module's two status pairs: training low, BIST high.
DramWord(channels) ==
    LET Done(x) == {2 * c : c \in {i \in DOMAIN channels : channels[i][x] # "IN_PROGRESS"}}
        Err(x) == {2 * c + 1 : c \in {i \in DOMAIN channels : channels[i][x] = "FAIL"}}
    IN  <<Half(Done(2) \cup Err(2)), Half(Done(1) \cup Err(1))>>

\* A protobuf message of fields <<number, wire type, value>> with small numbers;
\* the payload of a length-delimited field is made of ones.
Varint(n) == IF n < 128 THEN <<n>> ELSE <<128 + (n % 128), n \div 128>>
FieldBytes(f) ==
    <<8 * f[1] + f[2]>> \o (CASE f[2] = 0 -> Varint(f[3])
                             [] f[2] = 1 -> [i \in 1..8 |-> 1]
                             [] f[2] = 2 -> Varint(f[3]) \o [i \in 1..f[3] |-> 8]
                             [] f[2] = 5 -> [i \in 1..4 |-> 1])
Encoded(fields) == FlattenSeq([i \in DOMAIN fields |-> FieldBytes(fields[i])])

----------------------------------------------------------------------------
(* One caller, any query.                                                  *)

Is(kind) == query.kind = kind
QueryInit == query = [kind |-> "none"]
Ask == Is("none") /\ query' \in Queries

----------------------------------------------------------------------------
(* Properties.                                                             *)

KeyKind(p) == IF p.reader.kind = "smbus" THEN "wh" ELSE "std"
TagsOf(p) == {p.map[f].key.from : f \in {g \in DOMAIN p.map : is_feature_available(p, g)}} \ {"fixed", "smbus"}

\* The reader goes by < 18.4.0 and the map by <= 18.3.0: the releases between.
Between(arch, v) == arch = "WORMHOLE_B0" /\ Before(V(18, 3, 0), v) /\ Before(v, V(18, 4, 0))

\* The feature map names tags of the table the reader was built for: a modern
\* tag number given to the SMBus reader would return an unrelated word.  The
\* releases between the two bounds are left out.
TagsMatchReader ==
    Is("tags") /\ ~Between(query.arch, query.version)
        => TagsOf(ProviderOf(query.arch, query.version)) \subseteq {KeyKind(ProviderOf(query.arch, query.version))}

\* get_dram_training_status says SUCCESS of exactly the channels that trained
\* and, where the firmware runs it, passed the built-in self test; FAIL of
\* exactly those where one of the two failed.
DramStatusDecoded ==
    Is("dram") =>
        LET p == With(ProviderOf(query.arch, query.version), "GDDR_STATUS", DramWord(query.channels))
            bist == query.arch = "BLACKHOLE" /\ ~Before(query.version, V(19, 7, 0))
            Stages(c) == IF bist THEN {query.channels[c][1], query.channels[c][2]} ELSE {query.channels[c][1]}
            got == get_dram_training_status(p, Cardinality(DOMAIN query.channels))[1]
        IN  \A c \in DOMAIN query.channels :
                /\ got[c] = "SUCCESS" <=> Stages(c) = {"SUCCESS"}
                /\ got[c] = "FAIL" <=> "FAIL" \in Stages(c)

\* A reading of one GDDR module is that module's, whichever getter is used: two
\* modules share each temperature and error word.
GddrModulesApart ==
    Is("gddr") =>
        LET t(i) == 16 * i + 1
            p1 == With(ProviderOf(query.arch, query.version), "GDDR_UNCORR_ERRS", <<0, Half({2 * i : i \in query.failed})>>)
            words == [k \in 0..3 |-> Pack(t(2 * k + 1) + 1, t(2 * k + 1), t(2 * k) + 1, t(2 * k))]
            p == [p1 EXCEPT !.reader.words = [k \in 42..45 |-> words[k - 42]] @@ [k \in 46..49 |-> words[k - 46]] @@ @]
        IN  \A i \in 0..7 :
                /\ get_dram_telemetry(p, i)[1] = get_aggregated_dram_telemetry(p)[1][i]
                /\ get_dram_telemetry(p, i)[1] =
                      [bottom |-> t(i), top |-> t(i) + 1, corr_rd |-> t(i), corr_wr |-> t(i) + 1,
                       uncorr_rd |-> (IF i \in query.failed THEN 1 ELSE 0), uncorr_wr |-> 0]

\* The ethernet status word means heartbeat below and, by version, retrain or
\* link above; a getter either has no answer or the answer of its own half,
\* and the retrain and link getters never both answer from the shared half.
EthStatusHalves ==
    Is("eth") =>
        LET p == With(ProviderOf(query.arch, query.version), "ETH_LIVE_STATUS", <<Half(query.high), Half(query.low)>>)
            Up(r) == {c \in DOMAIN r[1] : r[1][c]}
            modern == AtLeast(query.version, V(18, 4, 0))
        IN  modern =>
              /\ get_eth_heartbeat_status(p) # <<>> => Up(get_eth_heartbeat_status(p)) = query.low
              /\ get_eth_retrain_status(p) # <<>> => Up(get_eth_retrain_status(p)) = query.high
              /\ get_eth_link_status_per_core(p) # <<>> => Up(get_eth_link_status_per_core(p)) = query.high
              /\ get_eth_retrain_status(p) = <<>> \/ get_eth_link_status_per_core(p) = <<>>
              /\ AtLeast(query.version, V(19, 9, 0)) => get_eth_link_status_per_core(p) # <<>>
              /\ get_eth_heartbeat_status(p) # <<>> =>
                    DOMAIN filter_harvested_eth_status(get_eth_heartbeat_status(p)[1], query.harvested)
                        = DOMAIN get_eth_heartbeat_status(p)[1] \ query.harvested

\* A component version is decoded to what the firmware packed: Blackhole keeps
\* the three numbers a byte higher than Wormhole, but not that of tt-flash.  The
\* ethernet version of the telemetry is the one an ethernet core shows.
VersionsDecoded ==
    Is("version") =>
        LET v == query.packed
            low == Pack(0, v[1], v[2], v[3])
            high == Pack(v[1], v[2], v[3], v[4])
            word == IF query.arch = "BLACKHOLE" /\ query.of # "TT_FLASH_VERSION" THEN high ELSE low
            Telling(name, w) == With(ProviderOf(query.arch, query.version), name, w)
            eth == IF query.arch = "BLACKHOLE" THEN low ELSE <<v[1], 4096 * (v[2] % 16) + v[3]>>
            core == [word |-> eth, major |-> v[1], minor |-> v[2], patch |-> v[3]]
            told == get_eth_fw_version_semver(Telling("ETH_FW_VERSION", eth))
        IN  /\ component_version(Telling(query.of, word), query.of) = <<V(v[1], v[2], v[3])>>
            /\ told \in {<<>>, <<get_eth_fw_version_of_core(query.arch, core)>>}

\* Fan speeds: two 16-bit tachometers from 19.10 on Wormhole, one number
\* otherwise; a fan that is not there has no reading, never a huge one.
FansDecoded ==
    Is("fan") =>
        LET pair == query.arch = "WORMHOLE_B0" /\ AtLeast(query.version, V(19, 10, 0))
            Tach(f) == IF f = <<>> THEN HalfMask ELSE f[1]
            word == IF pair THEN <<Tach(query.fans[1]), Tach(query.fans[2])>>
                    ELSE IF query.fans[1] = <<>> THEN Ones ELSE <<0, query.fans[1][1]>>
            p == With(ProviderOf(query.arch, query.version), "FAN_RPM", word)
        IN  get_fan_rpms(p) = IF pair THEN query.fans
                              ELSE <<IF query.fans[1] = <<>> THEN <<>> ELSE <<word>>, <<>>>>

\* The getters that are more than one read_scalar, but for the retrain status.
Others(p) ==
    [get_board_id |-> get_board_id(p), get_eth_fw_version_semver |-> get_eth_fw_version_semver(p),
     get_eth_heartbeat_status |-> get_eth_heartbeat_status(p), get_eth_link_status_per_core |-> get_eth_link_status_per_core(p),
     get_dram_training_status |-> get_dram_training_status(p, 1), get_aggregated_dram_telemetry |-> get_aggregated_dram_telemetry(p),
     get_fan_speeds |-> get_fan_speeds(p)[1],
     get_runtime_telemetry_buffer_address |-> get_runtime_telemetry_buffer_address(p, [address |-> 1]),
     get_runtime_telemetry_buffer_size |-> get_runtime_telemetry_buffer_size(p, [size |-> 1])]

\* A newer firmware of the same architecture answers every getter the older one
\* answers, except for the retrain status that 19.9 replaced and in the releases
\* Between.
UpgradeKeepsGetters ==
    Is("tags") /\ ~Before(query.newer, query.version) /\ ~Between(query.arch, query.newer) =>
        LET Answers(p) == {g \in DOMAIN Getters : Get(p, g) # <<>>} \cup {g \in DOMAIN Others(p) : Others(p)[g] # <<>>}
        IN  Answers(ProviderOf(query.arch, query.version)) \subseteq Answers(ProviderOf(query.arch, query.newer))

\* extract_protobuf_uint32_field returns the first varint of the field asked
\* for, wherever it stands, as long as no payload before it needs a length of
\* two bytes; get_spi_fw_bundle_version finds the same in a padded image.
ProtobufField ==
    Is("proto") =>
        LET data == Encoded(query.fields)
            hits == {i \in DOMAIN query.fields : query.fields[i][1] = query.field /\ query.fields[i][2] = 0}
            first == CHOOSE i \in hits : \A j \in hits : i <= j
            image == data \o [i \in 1..query.padding |-> 8] \o <<query.padding>>
            table == <<[tag |-> "cmfw", invalid |-> FALSE, image |-> <<8, 1, 0>>],
                       [tag |-> "cmfwcfg", invalid |-> FALSE, image |-> image]>>
            expected == IF hits = {} THEN <<>> ELSE <<query.fields[first][3]>>
        IN  /\ extract_protobuf_uint32_field(data, Len(data), query.field) = expected
            /\ query.field = 1 => get_spi_fw_bundle_version(table) = expected

\* The ARC window and the accessors of WormholeTTDevice that it is to replace
\* make the same access for every word that lies inside the window, and the
\* window never touches a byte outside of it.
ArcRoutesAgree ==
    Is("arc") =>
        LET w == IF query.csm THEN arc_csm ELSE arc_apb
            new == WormholeArcWindow(w, query.io, query.off, query.size)
            old == IF query.csm THEN WormholeTTDeviceCsm(query.io, query.off, query.size)
                   ELSE WormholeTTDeviceApb(query.io, query.off, query.size)
        IN  /\ new # Refused => /\ query.off + query.size <= w.size_bytes
                                /\ [old EXCEPT !.core = ""] = [new EXCEPT !.core = ""]
            /\ query.size = 4 /\ query.off + 4 <= w.size_bytes => new # Refused /\ old # Refused

\* The register value of a selection reads back as that selection, on every architecture.
\* On Grendel the DM and TRISC bits overlap, so only its DMs are considered.
SoftResetDecoded ==
    Is("reset") =>
        get_soft_reset_risc_type(query.arch, get_soft_reset_reg_value(query.arch, query.sel)[1])
          \cap (ALL_TENSIX \cup ALL_NEO_DMS) = query.sel

\* Calls of assert_risc_reset and deassert_risc_reset by several callers, and broadcasts:
\* until a call writes back a register that changed since it read it, the RISC cores in
\* reset are those the calls asked for, each in the order of their writes, and the stagger
\* signal is up exactly if a start since the last broadcast asked for it.  With such an
\* overlap the change of another call may be lost, but a RISC core no call selected still
\* keeps its state.
SoftResetExact ==
    LET held == get_soft_reset_risc_type(ResetArch, soft_reset) \cap ALL_TENSIX
    IN  /\ ~reset_lost => /\ held = wanted.held
                          /\ (31 \in soft_reset) <=> wanted.staggered
        /\ held \ touched = wanted.held \ touched
=============================================================================
