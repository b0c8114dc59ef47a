---------------------------- MODULE FirmwareInfo ----------------------------
(***************************************************************************)
(* Firmware versions, telemetry tags and what FirmwareInfoProvider makes   *)
(* of the telemetry words of one chip.  A 32-bit word is the pair          *)
(* <<high half, low half>>, an optional is <<>> or <<value>>, a version is *)
(* <<major, minor, patch, pre_release>>.  A provider is the record         *)
(* [arch, version, reader]; a reader is the record [kind, words] where     *)
(* words maps the tags it found to the word the ARC core holds.            *)
(***************************************************************************)
EXTENDS Naturals, Integers, Sequences, FiniteSets, SequencesExt, TLC

----------------------------------------------------------------------------
(* Words.                                                                  *)

HalfMask == 65535
Ones == <<HalfMask, HalfMask>>
Zero == <<0, 0>>

\* Bit n of a 32-bit word, n \in 0..31.
Bit(w, n) == IF n < 16 THEN (w[2] \div (2 ^ n)) % 2 ELSE (w[1] \div (2 ^ (n - 16))) % 2

\* The byte of w that starts at bit 8 * n.
Byte(w, n) == IF n < 2 THEN (w[2] \div (256 ^ n)) % 256 ELSE (w[1] \div (256 ^ (n - 2))) % 256

----------------------------------------------------------------------------
(* utils/semver.hpp                                                        *)

from_wormhole_eth_firmware_tag(w) == <<w[1] % 256, w[2] \div 4096, w[2] % 4096, 0>>
from_blackhole_eth_firmware_tag(w) == <<w[1], w[2] \div 256, w[2] % 256, 0>>
from_firmware_bundle_tag(w) == <<w[1] \div 256, w[1] % 256, w[2] \div 256, w[2] % 256>>

\* SemVer::operator<: a release comes after all of its pre-releases.
SemVerLess(a, b) ==
    LET Rank(v) == [v EXCEPT ![4] = IF @ = 0 THEN 256 ELSE @]
    IN  \E i \in 1..4 : /\ Rank(a)[i] < Rank(b)[i]
                        /\ \A j \in 1..(i - 1) : Rank(a)[j] = Rank(b)[j]

\* Majors from 80 on are the oldest bundles; pre-releases are ignored.
compare_firmware_bundle(a, b) ==
    LET Normal(v) == <<IF v[1] >= 80 THEN 0 ELSE v[1], v[2], v[3], 0>>
    IN  IF SemVerLess(Normal(a), Normal(b)) THEN -1
        ELSE IF SemVerLess(Normal(b), Normal(a)) THEN 1 ELSE 0

Before(a, b) == compare_firmware_bundle(a, b) < 0
AtLeast(a, b) == compare_firmware_bundle(a, b) >= 0
V(major, minor, patch) == <<major, minor, patch, 0>>

get_latest_supported_firmware_version == V(19, 7, 1)
get_minimum_compatible_firmware_version(arch) ==
    IF arch = "WORMHOLE_B0" THEN V(18, 3, 0) ELSE V(18, 5, 0)

\* firmware_utils.cpp: the component versions packed in a telemetry word.
get_tt_flash_version_from_telemetry(w) == <<Byte(w, 2), Byte(w, 1), Byte(w, 0), 0>>
SameOnBothArchitectures(w, arch) == get_tt_flash_version_from_telemetry(w)         \* mutant
get_cm_fw_version_from_telemetry(w, arch) ==
    IF arch = "BLACKHOLE" THEN <<Byte(w, 3), Byte(w, 2), Byte(w, 1), 0>>
    ELSE get_tt_flash_version_from_telemetry(w)
get_dm_app_fw_version_from_telemetry(w, arch) == get_cm_fw_version_from_telemetry(w, arch)
get_dm_bl_fw_version_from_telemetry(w, arch) ==
    IF arch = "BLACKHOLE" THEN V(0, 0, 0) ELSE get_tt_flash_version_from_telemetry(w)
get_gddr_fw_version_from_telemetry(w, arch) ==
    IF arch = "BLACKHOLE" THEN <<w[1], w[2], 0, 0>> ELSE V(0, 0, 0)

\* The version an ethernet core holds in its own L1: a tag word on Wormhole,
\* three bytes on Blackhole.
get_eth_fw_version_of_core(arch, core) ==
    IF arch = "WORMHOLE_B0" THEN from_wormhole_eth_firmware_tag(core.word)
    ELSE <<core.major, core.minor, core.patch, 0>>

----------------------------------------------------------------------------
(* Tag numbering.                                                          *)

TelemetryTag ==
    [BOARD_ID_HIGH |-> 1, BOARD_ID_LOW |-> 2, ASIC_ID |-> 3, HARVESTING_STATE |-> 4,
     UPDATE_TELEM_SPEED |-> 5, VCORE |-> 6, TDP |-> 7, TDC |-> 8, VDD_LIMITS |-> 9,
     THM_LIMIT_SHUTDOWN |-> 10, ASIC_TEMPERATURE |-> 11, VREG_TEMPERATURE |-> 12,
     BOARD_TEMPERATURE |-> 13, AICLK |-> 14, AXICLK |-> 15, ARCCLK |-> 16, L2CPUCLK0 |-> 17,
     L2CPUCLK1 |-> 18, L2CPUCLK2 |-> 19, L2CPUCLK3 |-> 20, ETH_LIVE_STATUS |-> 21,
     GDDR_STATUS |-> 22, GDDR_SPEED |-> 23, ETH_FW_VERSION |-> 24, GDDR_FW_VERSION |-> 25,
     DM_APP_FW_VERSION |-> 26, DM_BL_FW_VERSION |-> 27, FLASH_BUNDLE_VERSION |-> 28,
     CM_FW_VERSION |-> 29, L2CPU_FW_VERSION |-> 30, FAN_SPEED |-> 31, TIMER_HEARTBEAT |-> 32,
     TELEMETRY_ENUM_COUNT |-> 33, ENABLED_TENSIX_COL |-> 34, ENABLED_ETH |-> 35,
     ENABLED_GDDR |-> 36, ENABLED_L2CPU |-> 37, PCIE_USAGE |-> 38, NOC_TRANSLATION |-> 40,
     FAN_RPM |-> 41, GDDR_0_1_TEMP |-> 42, GDDR_2_3_TEMP |-> 43, GDDR_4_5_TEMP |-> 44,
     GDDR_6_7_TEMP |-> 45, GDDR_0_1_CORR_ERRS |-> 46, GDDR_2_3_CORR_ERRS |-> 47,
     GDDR_4_5_CORR_ERRS |-> 48, GDDR_6_7_CORR_ERRS |-> 49, GDDR_UNCORR_ERRS |-> 50,
     MAX_GDDR_TEMP |-> 51, ASIC_LOCATION |-> 52, BOARD_POWER_LIMIT |-> 53, INPUT_POWER |-> 54,
     TDC_LIMIT_MAX |-> 55, THM_LIMIT_THROTTLE |-> 56, TT_FLASH_VERSION |-> 58,
     THERM_TRIP_COUNT |-> 60, ASIC_ID_HIGH |-> 61, ASIC_ID_LOW |-> 62, AICLK_LIMIT_MAX |-> 63,
     TDP_LIMIT_MAX |-> 64, AICLK_ARB_MIN |-> 65, AICLK_ARB_MAX |-> 66, ENABLED_MIN_ARB |-> 67,
     ENABLED_MAX_ARB |-> 68]

\* The tags of the SMBus table that the feature maps name, of the 50 there are.
LegacyTelemetryTag ==
    [BOARD_ID_HIGH |-> 4, BOARD_ID_LOW |-> 5, ETH_FW_VERSION |-> 11, DM_BL_FW_VERSION |-> 12,
     DM_APP_FW_VERSION |-> 13, DDR_STATUS |-> 14, ARC0_HEALTH |-> 19, FAN_SPEED |-> 23,
     AICLK |-> 24, AXICLK |-> 25, ARCCLK |-> 26, VCORE |-> 28, ASIC_TEMPERATURE |-> 29,
     BOARD_TEMPERATURE |-> 31, TDP |-> 32, TDC |-> 33, TT_FLASH_VERSION |-> 46,
     ETH_LIVE_STATUS |-> 48, FW_BUNDLE_VERSION |-> 49, NUMBER_OF_TAGS |-> 50]

\* ArcTelemetryReader::static_entries: read once, when the table was found.
static_entries ==
    {TelemetryTag[t] : t \in {"BOARD_ID_HIGH", "BOARD_ID_LOW", "ASIC_ID", "HARVESTING_STATE",
        "UPDATE_TELEM_SPEED", "ETH_FW_VERSION", "GDDR_FW_VERSION", "DM_APP_FW_VERSION",
        "DM_BL_FW_VERSION", "FLASH_BUNDLE_VERSION", "CM_FW_VERSION", "L2CPU_FW_VERSION",
        "ENABLED_TENSIX_COL", "ENABLED_ETH", "ENABLED_GDDR", "ENABLED_L2CPU", "PCIE_USAGE"}}

----------------------------------------------------------------------------
(* FeatureProfile: where a feature is read (key) and how its word is used. *)

Std(t) == [from |-> "std", tag |-> TelemetryTag[t]]
Wh(t) == [from |-> "wh", tag |-> LegacyTelemetryTag[t]]
SmBus(t) == [from |-> "smbus", tag |-> LegacyTelemetryTag[t]]
Fixed(v) == [from |-> "fixed", value |-> v]

\* A shift of 16, a mask of 0xFFFF, a power-of-two divisor and a sign are all
\* that the maps use of LinearTransform.
Linear(shift, low16, den, signed) ==
    [shift |-> shift, low16 |-> low16, den |-> den, signed |-> signed, available |-> TRUE]
Plain == Linear(0, FALSE, 1, FALSE)
Low16 == Linear(0, TRUE, 1, FALSE)
High16 == Linear(16, TRUE, 1, FALSE)
NotAvailable == [Plain EXCEPT !.available = FALSE]

P(key, conv) == [key |-> key, conv |-> conv]
Missing == P(Fixed(Zero), NotAvailable)

\* The features of every map that are read from the tag of the same name as is.
SameName == {"ETH_FW_VERSION", "GDDR_FW_VERSION", "CM_FW_VERSION", "DM_APP_FW_VERSION",
    "DM_BL_FW_VERSION", "TT_FLASH_VERSION", "BOARD_ID_HIGH", "BOARD_ID_LOW", "ASIC_LOCATION",
    "MAX_GDDR_TEMP", "AICLK", "AXICLK", "ARCCLK", "TDP", "TDC", "VCORE", "TDC_LIMIT_MAX",
    "BOARD_POWER_LIMIT", "FAN_SPEED", "FAN_RPM", "THM_LIMIT_THROTTLE", "THM_LIMIT_SHUTDOWN",
    "THERM_TRIP_COUNT", "GDDR_UNCORR_ERRS", "GDDR_0_1_CORR_ERRS", "GDDR_2_3_CORR_ERRS",
    "GDDR_4_5_CORR_ERRS", "GDDR_6_7_CORR_ERRS"}
GddrTemps == {"GDDR_0_1_TEMP", "GDDR_2_3_TEMP", "GDDR_4_5_TEMP", "GDDR_6_7_TEMP"}

\* enum FirmwareFeature without FIRMWARE_VERSION, which no map holds.
FirmwareFeature == SameName \cup GddrTemps \cup {"ASIC_TEMPERATURE", "BOARD_TEMPERATURE",
    "MAX_CLOCK_FREQ", "DDR_SPEED", "TDP_LIMIT_MAX", "DDR_STATUS", "HEARTBEAT",
    "ETH_HEARTBEAT_STATUS", "ETH_RETRAIN_STATUS", "ETH_LINK_STATUS"}

create_18_4_new_telemetry_base ==
    [f \in SameName |-> P(Std(f), Plain)]
    @@ [f \in {"ASIC_TEMPERATURE", "BOARD_TEMPERATURE"} |-> P(Std(f), Linear(0, FALSE, 65536, TRUE))]
    @@ [f \in GddrTemps |-> P(Std(f), Linear(0, FALSE, 65536, FALSE))]
    @@ [DDR_SPEED |-> P(Std("GDDR_SPEED"), Plain), DDR_STATUS |-> P(Std("GDDR_STATUS"), Plain),
        HEARTBEAT |-> P(Std("TIMER_HEARTBEAT"), Plain), TDP_LIMIT_MAX |-> Missing,
        ETH_HEARTBEAT_STATUS |-> P(Std("ETH_LIVE_STATUS"), Low16),
        ETH_RETRAIN_STATUS |-> P(Std("ETH_LIVE_STATUS"), High16), ETH_LINK_STATUS |-> Missing]

create_wormhole_18_3_base ==
    [f \in {"ETH_FW_VERSION", "DM_APP_FW_VERSION", "DM_BL_FW_VERSION", "TT_FLASH_VERSION",
            "BOARD_ID_HIGH", "BOARD_ID_LOW", "AXICLK", "ARCCLK", "VCORE", "FAN_SPEED", "DDR_STATUS"}
        |-> P(Wh(f), Plain)]
    @@ [f \in {"AICLK", "TDP", "TDC"} |-> P(Wh(f), Low16)]
    @@ [ASIC_LOCATION |-> P(Fixed(Zero), Plain),
        ASIC_TEMPERATURE |-> P(Wh("ASIC_TEMPERATURE"), Linear(0, TRUE, 16, FALSE)),
        BOARD_TEMPERATURE |-> P(Wh("BOARD_TEMPERATURE"), Linear(0, FALSE, 65536, FALSE)),
        MAX_CLOCK_FREQ |-> P(SmBus("AICLK"), High16), HEARTBEAT |-> P(Wh("ARC0_HEALTH"), Plain),
        ETH_HEARTBEAT_STATUS |-> P(Wh("ETH_LIVE_STATUS"), Low16),
        ETH_RETRAIN_STATUS |-> P(Wh("ETH_LIVE_STATUS"), High16)]
    @@ [f \in FirmwareFeature |-> Missing]

create_wormhole_18_4_base ==
    [MAX_CLOCK_FREQ |-> P(SmBus("AICLK"), High16), TDP_LIMIT_MAX |-> P(Std("TDP_LIMIT_MAX"), Plain)]
    @@ create_18_4_new_telemetry_base
create_wormhole_18_8_base ==
    [MAX_CLOCK_FREQ |-> P(Std("AICLK_LIMIT_MAX"), Plain)] @@ create_wormhole_18_4_base
Wormhole19_9KeepsRetrain ==
    [ETH_LINK_STATUS |-> P(Std("ETH_LIVE_STATUS"), High16)] @@ create_wormhole_18_8_base   \* mutant
create_wormhole_19_9_base ==
    [ETH_RETRAIN_STATUS |-> Missing, ETH_LINK_STATUS |-> P(Std("ETH_LIVE_STATUS"), High16)]
    @@ create_wormhole_18_8_base

AICLK_BUSY_VAL == 1350
create_blackhole_18_5_base ==
    [MAX_CLOCK_FREQ |-> P(Fixed(<<0, AICLK_BUSY_VAL>>), Plain), ETH_FW_VERSION |-> Missing,
     ETH_HEARTBEAT_STATUS |-> Missing, ETH_RETRAIN_STATUS |-> Missing]
    @@ create_18_4_new_telemetry_base
create_blackhole_18_8_base ==
    [MAX_CLOCK_FREQ |-> P(Std("AICLK_LIMIT_MAX"), Plain)] @@ create_blackhole_18_5_base
create_blackhole_19_8_base ==
    [TDP_LIMIT_MAX |-> P(Std("TDP_LIMIT_MAX"), Plain)] @@ create_blackhole_18_8_base
Blackhole19_9WithoutTdp ==
    [ETH_HEARTBEAT_STATUS |-> P(Std("ETH_LIVE_STATUS"), Low16),
     ETH_LINK_STATUS |-> P(Std("ETH_LIVE_STATUS"), High16)] @@ create_blackhole_18_8_base   \* mutant
create_blackhole_19_9_base ==
    [ETH_HEARTBEAT_STATUS |-> P(Std("ETH_LIVE_STATUS"), Low16),
     ETH_LINK_STATUS |-> P(Std("ETH_LIVE_STATUS"), High16)] @@ create_blackhole_19_8_base

LegacyMapUpTo18_4(arch, v) ==
    IF ~Before(V(18, 4, 0), v) THEN create_wormhole_18_3_base ELSE create_wormhole_18_4_base  \* mutant

create_firmware_feature_map(arch, v) ==
    IF arch = "WORMHOLE_B0"
    THEN IF ~Before(V(18, 3, 0), v) THEN create_wormhole_18_3_base
         ELSE IF ~Before(V(18, 7, 0), v) THEN create_wormhole_18_4_base
         ELSE IF Before(v, V(19, 9, 0)) THEN create_wormhole_18_8_base
         ELSE create_wormhole_19_9_base
    ELSE IF ~Before(V(18, 7, 0), v) THEN create_blackhole_18_5_base
         ELSE IF Before(v, V(19, 8, 0)) THEN create_blackhole_18_8_base
         ELSE IF Before(v, V(19, 9, 0)) THEN create_blackhole_19_8_base
         ELSE create_blackhole_19_9_base

----------------------------------------------------------------------------
(* Telemetry readers.                                                      *)

\* The reader that ArcTelemetryReader::create_arc_telemetry_reader keeps:
\* Wormhole asks the SMBus table for the version first.
FW_NEW_TELEMETRY == V(18, 4, 0)
ReaderKind(arch, smbusVersion) ==
    IF arch = "WORMHOLE_B0" /\ Before(smbusVersion, FW_NEW_TELEMETRY) THEN "smbus" ELSE "table"

\* is_entry_available: the SMBus reader goes by the number alone.
is_entry_available(r, tag) ==
    IF r.kind = "smbus" THEN tag < LegacyTelemetryTag.NUMBER_OF_TAGS ELSE tag \in DOMAIN r.words

\* SmBusArcTelemetryReader::read_entry of an available entry; an SMBus word
\* nobody fills reads zero.
WordOf(words, tag) == IF tag \in DOMAIN words THEN words[tag] ELSE Zero

\* ArcTelemetryReader::read_entry: throws for an entry that is not there.
read_entry(r, tag) == WordOf(r.words, tag)

----------------------------------------------------------------------------
(* FirmwareInfoProviderImplementation.  p.smbus is the SMBus table itself, *)
(* which an SmBusTag reads through a reader of its own.                    *)

create_firmware_info_provider(arch, reader, smbus) ==
    LET w == IF reader.kind = "smbus" THEN read_entry(reader, LegacyTelemetryTag.FW_BUNDLE_VERSION)
             ELSE IF is_entry_available(reader, TelemetryTag.FLASH_BUNDLE_VERSION)
             THEN read_entry(reader, TelemetryTag.FLASH_BUNDLE_VERSION) ELSE Zero
        v == from_firmware_bundle_tag(w)
    IN  [arch |-> arch, version |-> v, reader |-> reader, smbus |-> smbus,
         map |-> create_firmware_feature_map(arch, v)]

read_raw_telemetry(p, key) ==
    CASE key.from \in {"std", "wh"} ->
             IF is_entry_available(p.reader, key.tag) THEN read_entry(p.reader, key.tag) ELSE Zero
      [] key.from = "smbus" -> WordOf(p.smbus, key.tag)
      [] key.from = "fixed" -> key.value

is_feature_available(p, f) ==
    /\ f \in DOMAIN p.map
    /\ p.map[f].conv.available
    /\ CASE p.map[f].key.from \in {"std", "wh"} -> is_entry_available(p.reader, p.map[f].key.tag)
         [] p.map[f].key.from = "smbus" -> p.map[f].key.tag < LegacyTelemetryTag.NUMBER_OF_TAGS
         [] p.map[f].key.from = "fixed" -> TRUE

\* The value as <<high, low, divisor>>; a signed high half may be negative.
read_scalar(p, f) ==
    IF ~is_feature_available(p, f) THEN <<>>
    ELSE LET raw == read_raw_telemetry(p, p.map[f].key)
             c == p.map[f].conv
             shifted == IF c.shift = 16 THEN <<0, raw[1]>> ELSE raw
             masked == IF c.low16 THEN <<0, shifted[2]>> ELSE shifted
             high == IF c.signed /\ masked[1] >= 32768 THEN masked[1] - 65536 ELSE masked[1]
         IN  <<<<high, masked[2], c.den>>>>

Word(v) == <<v[1], v[2]>>

\* The getters that are one read_scalar.
ClockAndTempGetters == [get_asic_temperature |-> "ASIC_TEMPERATURE",
    get_board_temperature |-> "BOARD_TEMPERATURE", get_max_clock_freq |-> "MAX_CLOCK_FREQ",
    get_aiclk |-> "AICLK", get_clock_freq |-> "AICLK", get_axiclk |-> "AXICLK", get_arcclk |-> "ARCCLK"]
PowerGetters == [get_tdc |-> "TDC", get_vcore |-> "VCORE", get_asic_location |-> "ASIC_LOCATION",
    get_heartbeat |-> "HEARTBEAT"]
LimitGetters == [get_dram_speed |-> "DDR_SPEED", get_current_max_dram_temperature |-> "MAX_GDDR_TEMP",
    get_thm_limit_shutdown |-> "THM_LIMIT_SHUTDOWN", get_tdp_limit |-> "TDP_LIMIT_MAX",
    get_board_power_limit |-> "BOARD_POWER_LIMIT", get_thm_limit_throttle |-> "THM_LIMIT_THROTTLE",
    get_therm_trip_count |-> "THERM_TRIP_COUNT"]
Getters == ClockAndTempGetters @@ PowerGetters @@ LimitGetters @@ [get_tdp |-> "TDP"]
Get(p, getter) == read_scalar(p, Getters[getter])

get_board_id(p) ==
    IF is_feature_available(p, "BOARD_ID_HIGH") /\ is_feature_available(p, "BOARD_ID_LOW")
    THEN <<<<Word(read_scalar(p, "BOARD_ID_HIGH")[1]), Word(read_scalar(p, "BOARD_ID_LOW")[1])>>>>
    ELSE <<>>

get_eth_fw_version_semver(p) ==
    LET r == read_scalar(p, "ETH_FW_VERSION")
    IN  IF r = <<>> \/ (r # <<>> /\ Word(r[1]) = Zero) THEN <<>>
        ELSE IF p.arch = "WORMHOLE_B0" THEN <<from_wormhole_eth_firmware_tag(Word(r[1]))>>
        ELSE <<from_blackhole_eth_firmware_tag(Word(r[1]))>>

\* get_gddr_fw_version .. get_tt_flash_version
component_version(p, f) ==
    LET r == read_scalar(p, f)
        w == Word(r[1])
    IN  IF r = <<>> THEN <<>>
        ELSE <<CASE f = "GDDR_FW_VERSION" -> get_gddr_fw_version_from_telemetry(w, p.arch)
                 [] f = "CM_FW_VERSION" -> get_cm_fw_version_from_telemetry(w, p.arch)
                 [] f = "DM_APP_FW_VERSION" -> get_dm_app_fw_version_from_telemetry(w, p.arch)
                 [] f = "DM_BL_FW_VERSION" -> get_dm_bl_fw_version_from_telemetry(w, p.arch)
                 [] f = "TT_FLASH_VERSION" -> get_tt_flash_version_from_telemetry(w)>>

NoFans == <<<<>>, <<>>>>
Fan(w, none) == IF w = none THEN <<>> ELSE <<w>>

get_fan_speeds(p) ==
    LET r == read_scalar(p, "FAN_SPEED")
    IN  IF r = <<>> THEN NoFans ELSE <<Fan(Word(r[1]), Ones), <<>>>>

OneFan(p) == <<Fan(Word(read_scalar(p, "FAN_RPM")[1]), Ones), <<>>>>               \* mutant
get_fan_rpms(p) ==
    LET r == read_scalar(p, "FAN_RPM")
    IN  IF r = <<>> THEN NoFans
        ELSE IF p.arch = "WORMHOLE_B0" /\ AtLeast(p.version, V(19, 10, 0))
        THEN <<Fan(r[1][1], HalfMask), Fan(r[1][2], HalfMask)>>
        ELSE <<Fan(Word(r[1]), Ones), <<>>>>

----------------------------------------------------------------------------
(* DRAM status and telemetry.                                              *)

\* 4 bits per channel: none, fail, pass, skip; anything else is a failure.
get_legacy_wormhole_dram_statuses(w, n) ==
    [c \in 0..(n - 1) |->
        LET s == Bit(w, 4 * c) + 2 * Bit(w, 4 * c + 1) + 4 * Bit(w, 4 * c + 2) + 8 * Bit(w, 4 * c + 3)
        IN  IF s = 0 THEN "IN_PROGRESS" ELSE IF s \in {2, 3} THEN "SUCCESS" ELSE "FAIL"]

decode_dram_status_bits(done, err) ==
    IF err = 1 THEN "FAIL" ELSE IF done = 1 THEN "SUCCESS" ELSE "IN_PROGRESS"

StatusesWithoutBist(w, n, check_bist) ==
    [c \in 0..(n - 1) |-> decode_dram_status_bits(Bit(w, 2 * c), Bit(w, 2 * c + 1))]

get_modern_dram_statuses(w, n, check_bist) ==
    [c \in 0..(n - 1) |->
        LET training == decode_dram_status_bits(Bit(w, 2 * c), Bit(w, 2 * c + 1))
            bist == decode_dram_status_bits(Bit(w, 16 + 2 * c), Bit(w, 17 + 2 * c))
        IN  IF ~check_bist THEN training
            ELSE IF "FAIL" \in {training, bist} THEN "FAIL"
            ELSE IF training = "SUCCESS" /\ bist = "SUCCESS" THEN "SUCCESS" ELSE "IN_PROGRESS"]

\* <<>> where the status is not published at all.
get_dram_training_status(p, n) ==
    LET r == read_scalar(p, "DDR_STATUS")
        legacy == p.arch = "WORMHOLE_B0" /\ ~Before(V(18, 3, 0), p.version)
        check_bist == p.arch = "BLACKHOLE" /\ AtLeast(p.version, V(19, 7, 0))
    IN  IF r = <<>> THEN <<>>
        ELSE IF legacy THEN <<get_legacy_wormhole_dram_statuses(Word(r[1]), n)>>
        ELSE <<get_modern_dram_statuses(Word(r[1]), n, check_bist)>>

gddr_telemetry_tags_available(r) ==
    \A t \in TelemetryTag.GDDR_0_1_TEMP .. TelemetryTag.MAX_GDDR_TEMP : is_entry_available(r, t)

OddModuleFirst(i, temp, corr, uncorr) ==
    LET first == IF i % 2 = 0 THEN 2 ELSE 0
    IN  [bottom |-> Byte(temp, first), top |-> Byte(temp, first + 1),
         corr_rd |-> Byte(corr, first), corr_wr |-> Byte(corr, first + 1),
         uncorr_rd |-> Bit(uncorr, 2 * i), uncorr_wr |-> Bit(uncorr, 2 * i + 1)]   \* mutant
\* Even modules are in the low half of the pair's words, odd ones in the high.
decode_gddr_module_telemetry(i, temp, corr, uncorr) ==
    LET first == IF i % 2 = 1 THEN 2 ELSE 0
    IN  [bottom |-> Byte(temp, first), top |-> Byte(temp, first + 1),
         corr_rd |-> Byte(corr, first), corr_wr |-> Byte(corr, first + 1),
         uncorr_rd |-> Bit(uncorr, 2 * i), uncorr_wr |-> Bit(uncorr, 2 * i + 1)]

get_dram_telemetry(p, i) ==
    LET tags == <<TelemetryTag.GDDR_0_1_TEMP + (i \div 2), TelemetryTag.GDDR_0_1_CORR_ERRS + (i \div 2),
                  TelemetryTag.GDDR_UNCORR_ERRS>>
    IN  IF \E k \in 1..3 : ~is_entry_available(p.reader, tags[k]) THEN <<>>
        ELSE <<decode_gddr_module_telemetry(i, read_entry(p.reader, tags[1]),
                   read_entry(p.reader, tags[2]), read_entry(p.reader, tags[3]))>>

get_aggregated_dram_telemetry(p) ==
    IF ~gddr_telemetry_tags_available(p.reader) THEN <<>>
    ELSE <<[i \in 0..7 |-> decode_gddr_module_telemetry(i,
                read_entry(p.reader, TelemetryTag.GDDR_0_1_TEMP + (i \div 2)),
                read_entry(p.reader, TelemetryTag.GDDR_0_1_CORR_ERRS + (i \div 2)),
                read_entry(p.reader, TelemetryTag.GDDR_UNCORR_ERRS))]>>

----------------------------------------------------------------------------
(* Ethernet status, runtime telemetry, limits.                             *)

EthChannels(arch) == IF arch = "WORMHOLE_B0" THEN 16 ELSE 14

\* Bit N is the core of channel N of ETH_CORES_NOC0; a core is its channel.
parse_eth_status_bitmask(p, half) == [c \in 0..(EthChannels(p.arch) - 1) |-> Bit(<<0, half>>, c) = 1]

EthStatus(p, f) ==
    LET r == read_scalar(p, f) IN IF r = <<>> THEN <<>> ELSE <<parse_eth_status_bitmask(p, r[1][2])>>
get_eth_heartbeat_status(p) == EthStatus(p, "ETH_HEARTBEAT_STATUS")
get_eth_link_status_per_core(p) == EthStatus(p, "ETH_LINK_STATUS")
get_eth_retrain_status(p) == EthStatus(p, "ETH_RETRAIN_STATUS")

filter_harvested_eth_status(statuses, harvested) ==
    [c \in DOMAIN statuses \ harvested |-> statuses[c]]

RuntimeTelemetrySince(arch) == IF arch = "WORMHOLE_B0" THEN V(19, 13, 0) ELSE V(19, 12, 0)
get_runtime_telemetry_buffer_address(p, regs) ==
    IF Before(p.version, RuntimeTelemetrySince(p.arch)) THEN <<>> ELSE <<regs.address>>
get_runtime_telemetry_buffer_size(p, regs) ==
    IF Before(p.version, RuntimeTelemetrySince(p.arch)) THEN <<>> ELSE <<regs.size>>

TDP_LIMIT_MIN_WATTS == 50
TDP_LIMIT_MAX_WATTS == 500
TDP_LIMIT_MIN_FIRMWARE_VERSION == V(19, 11, 0)
is_tdp_limit_supported(p) ==
    p.arch = "BLACKHOLE" /\ AtLeast(p.version, TDP_LIMIT_MIN_FIRMWARE_VERSION)

----------------------------------------------------------------------------
(* arc/blackhole_spi_tt_device.cpp: the boot file system and its protobuf. *)
(* Flash data is a sequence of bytes read from index 0.                    *)

\* [value, pos]; value <<>> when the varint does not end in time.  The fold
\* ends at the first byte without the continuation bit, after five at most.
read_varint(data, size, pos) ==
    LET avail == {k \in 0..4 : pos + k < size}
        ends == {k \in avail : data[pos + k + 1] < 128 /\ \A j \in 0..(k - 1) : data[pos + j + 1] >= 128}
        Stop == CHOOSE k \in ends : TRUE
        Part[k \in 0..4] == (data[pos + k + 1] % (IF k = 4 THEN 16 ELSE 128)) * (128 ^ k) + (IF k = 0 THEN 0 ELSE Part[k - 1])
    IN  IF ends = {} THEN [value |-> <<>>, pos |-> pos + Cardinality(avail)]
        ELSE [value |-> <<Part[Stop]>>, pos |-> pos + Stop + 1]

SkipFixed64As4(data, size, wire, pos) ==
    IF wire = 0 THEN read_varint(data, size, pos).pos ELSE IF wire = 2 THEN pos + 1 + data[pos + 1] ELSE pos + 4  \* mutant
\* Where the field that starts at pos ends, 0 when the parse gives up.  The
\* length of a length-delimited field is taken from one byte.
SkipField(data, size, wire, pos) ==
    CASE wire = 0 -> LET v == read_varint(data, size, pos) IN IF v.value = <<>> THEN 0 ELSE v.pos
      [] wire = 1 -> pos + 8
      [] wire = 2 -> IF pos >= size THEN 0 ELSE pos + 1 + data[pos + 1]
      [] wire = 5 -> pos + 4
      [] OTHER -> 0

extract_protobuf_uint32_field(data, size, field) ==
    LET At[pos \in 0..size] ==
            LET key == read_varint(data, size, pos)
                wire == key.value[1] % 8
                next == SkipField(data, size, wire, key.pos)
            IN  IF pos >= size \/ key.value = <<>> THEN <<>>
                ELSE IF key.value[1] \div 8 = field /\ wire = 0 THEN read_varint(data, size, key.pos).value
                ELSE IF next = 0 \/ next > size THEN <<>> ELSE At[next]
    IN  At[0]

\* The boot file system table: entries up to the first invalid one, and at
\* most BOOT_FS_MAX_ENTRIES_SCAN of them.
BOOT_FS_MAX_ENTRIES_SCAN == 1000
find_boot_fs_tag(table, tag) ==
    LET valid == {i \in 1..Len(table) : i <= BOOT_FS_MAX_ENTRIES_SCAN /\ \A j \in 1..i : ~table[j].invalid}
        hits == {i \in valid : table[i].tag = tag}
    IN  IF hits = {} THEN <<>> ELSE <<table[CHOOSE i \in hits : \A j \in hits : i <= j]>>

\* Throws (<<>>) when the tag, a sane size or the field is missing.  The last
\* byte of the image is the length of its padding.
get_spi_fw_bundle_version(table) ==
    LET fd == find_boot_fs_tag(table, "cmfwcfg")
        data == fd[1].image
    IN  IF fd = <<>> \/ (fd # <<>> /\ Len(fd[1].image) = 0) THEN <<>>
        ELSE extract_protobuf_uint32_field(data, Len(data) - data[Len(data)] - 1, 1)

\* SCRATCH_RAM[10]: 24 bits of address, a power of two for the size.
get_spi_buffer_info(w) == [addr |-> (w[1] % 256) * 65536 + w[2], size |-> 2 ^ (w[1] \div 256)]
=============================================================================
