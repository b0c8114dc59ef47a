--------------------------- MODULE SocDescriptor ---------------------------
(***************************************************************************)
(* soc_descriptor.cpp: the description of one chip, built from the static  *)
(* description of its architecture and the harvesting masks that firmware  *)
(* reports, written to YAML, and read back.                                *)
(*                                                                         *)
(*     chip   what firmware reports (ChipInfo): arch, translation, masks   *)
(*            (die order for Tensix and L2CPU), board, asic_location       *)
(*     soc    the descriptor of the chip, or NoSoc                         *)
(*     thrown whether the last construction threw                          *)
(*     yaml   the file serialize_to_file() wrote, or NoFile                *)
(*     again  the descriptor built from that file, or NoSoc                *)
(***************************************************************************)
EXTENDS CoordinateManager

CONSTANTS Chips    \* the ChipInfo records of the instance

VARIABLES chip, soc, thrown, yaml, again

socVars == <<chip, soc, thrown, yaml, again>>

NoSoc == [none |-> TRUE]
NoFile == [none |-> TRUE]
Built(s) == "m" \in DOMAIN s

\* HarvestingMasks as get_chip_info() puts them together.
Masks(c) ==
    [tensix |-> shuffle_tensix_harvesting_mask(c.arch, c.tensix), dram |-> c.dram, eth |-> c.eth, pcie |-> c.pcie,
     l2cpu |-> IF c.arch = "BLACKHOLE" THEN shuffle_l2cpu_harvesting_mask(c.l2cpu_enabled) ELSE {}]

NoMasks == [tensix |-> {}, dram |-> {}, eth |-> {}, pcie |-> {}, l2cpu |-> {}]

\* The checks of create_coordinate_manager() on the PCIE mask of a board.
BoardAccepts(board, asic_location, masks) ==
    /\ board = "P150" => masks.pcie = {1}
    /\ board = "P300" /\ asic_location = 0 => masks.pcie = {1}
    /\ board = "P300" /\ asic_location = 1 => masks.pcie = {0}

\* SocDescriptor::create_coordinate_manager: NoSoc when it throws.
create_coordinate_manager(d, translation, masks, board, asic_location) ==
    LET m == Constructed(d, translation, masks)
    IN  IF /\ BoardAccepts(board, asic_location, masks)
           /\ IF d.arch = "BLACKHOLE" THEN BlackholeAssert(m) ELSE BaseAssert(m)
        THEN [d |-> d, m |-> initialize(m)] ELSE NoSoc

-----------------------------------------------------------------------------
(* Queries of a descriptor s = [d, m] *)

\* The table without its last column: routers keep the NOC1 location.
RouterTableWithoutFlip ==
    [c \in {<<x, 11>> : x \in {15, 13, 12, 11, 10, 9, 6, 4, 3, 2, 1, 0}} |-> c]
    @@ [c \in {<<8, y>> : y \in {10, 1, 3, 5, 7, 0}} |-> c]

\* ROUTER_NOC1_TO_TRANSLATED_BLACKHOLE
RouterNoc1ToTranslated ==
    [c \in {<<x, 11>> : x \in {15, 13, 12, 11, 10, 9, 6, 4, 3, 2, 1, 0}} |-> <<c[1], 0>>]
    @@ [c \in {<<8, y>> : y \in {10, 1, 3, 5, 7, 0}} |-> <<8, 11 - c[2]>>]

\* translate_chip_coord_to_translated_coord: what is put on the NOC.
translate_chip_coord_to_translated_coord(s, c, noc) ==
    LET m == s.m
        native == IF noc = 1 THEN "NOC1" ELSE "NOC0"
        noc0 == translate_coord_to(m, c, "NOC0")
        noc1 == translate_coord_to(m, c, "NOC1")
        here == <<noc1[3], noc1[4]>>
    IN  CASE c[2] = "LITERAL" -> <<"UNSPECIFIED", "LITERAL", c[3], c[4]>>
          [] ~m.translation -> translate_coord_to(m, c, native)
          [] m.translation /\ m.arch = "BLACKHOLE" /\ noc = 1 /\ c[1] = "ROUTER_ONLY" ->
                IF noc1 = throws \/ here \notin DOMAIN RouterNoc1ToTranslated THEN throws
                ELSE <<"ROUTER_ONLY", "TRANSLATED", RouterNoc1ToTranslated[here][1], RouterNoc1ToTranslated[here][2]>>
          [] /\ m.translation /\ m.arch = "BLACKHOLE" /\ noc = 1 /\ c[1] = "ETH" /\ noc0 /= throws
             /\ <<noc0[3], noc0[4]>> \in ToSet(get_harvested_cores(m, "ETH")) ->
                <<"ETH", "TRANSLATED", s.d.grid[1] - 1 - noc0[3], noc0[4]>>
          [] m.translation /\ m.arch = "WORMHOLE_B0" /\ c[1] \in {"DRAM", "ARC", "PCIE"} ->
                translate_coord_to(m, c, native)
          [] OTHER -> translate_coord_to(m, c, "TRANSLATED")

\* get_dram_core_for_channel and get_eth_core_for_channel
get_dram_core_for_channel(s, channel, subchannel, sys) ==
    translate_coord_to(s.m, <<"DRAM", "LOGICAL", channel, subchannel>>, sys)

get_eth_core_for_channel(s, channel, sys) == translate_coord_to(s.m, <<"ETH", "LOGICAL", 0, channel>>, sys)

\* get_dram_channel_for_core and get_eth_channel_for_core
get_dram_channel_for_core(s, c) ==
    LET l == translate_coord_to(s.m, c, "LOGICAL") IN IF l = throws THEN throws ELSE <<l[3], l[4]>>

get_eth_channel_for_core(s, c) ==
    LET l == translate_coord_to(s.m, c, "LOGICAL") IN IF l = throws THEN -1 ELSE l[4]

\* translate_coordinates
translate_coordinates(s, t, ns, sys) == [i \in DOMAIN ns |-> translate_coord_to(s.m, <<t, "NOC0", ns[i][1], ns[i][2]>>, sys)]

\* get_cores(core_type, coord_system)
CoresIn(s, t, sys) == translate_coordinates(s, t, get_cores(s.m, t), sys)

\* get_cores(DRAM, coord_system, channel): keeps the cores whose logical y is
\* the channel.
DramCoresOfChannel(s, channel, sys) ==
    LET keep(n) == translate_coord_to(s.m, <<"DRAM", "NOC0", n[1], n[2]>>, "LOGICAL")[4] = channel
    IN  translate_coordinates(s, "DRAM", SelectSeq(get_cores(s.m, "DRAM"), keep), sys)

\* get_harvested_cores(core_type, coord_system)
HarvestedCoresIn(s, t, sys) == translate_coordinates(s, t, get_harvested_cores(s.m, t), sys)

\* get_all_cores, get_all_harvested_cores: concatenations over all types.
get_all_cores(s, sys) == UNION {ToSet(CoresIn(s, t, sys)) : t \in CoreTypes}

get_all_harvested_cores(s, sys) == UNION {ToSet(HarvestedCoresIn(s, t, sys)) : t \in CoreTypes}

\* get_dram_cores: the cores left, a sequence per bank.
get_dram_cores(s) ==
    LET g == get_grid_size(s.m, "DRAM")
        cs == get_cores(s.m, "DRAM")
    IN  [b \in 1 .. g[1] |-> [p \in 1 .. g[2] |-> cs[(b - 1) * g[2] + p]]]

\* get_bounding_rectangle: the extreme cores by x, then by y.
get_bounding_rectangle(s, t, sys) ==
    LET cs == ToSet(CoresIn(s, t, sys))
        less(a, b) == a[3] < b[3] \/ (a[3] = b[3] /\ a[4] < b[4])
    IN  <<CHOOSE a \in cs : \A b \in cs : ~less(b, a), CHOOSE a \in cs : \A b \in cs : ~less(a, b)>>

-----------------------------------------------------------------------------

\* write_core_locations / write_coords: only cores inside the grid.
write_core_locations(s, t) ==
    LET inside(n) == n[1] < s.d.grid[1] /\ n[2] < s.d.grid[2] IN SelectSeq(get_cores(s.m, t), inside)

\* The banks of the architecture, harvested or not.
SerializeAllBanks(s) == s.d.dram

\* serialize_dram_cores: a bank with a core outside the grid is left out.
serialize_dram_cores(s) ==
    LET inside(bank) == \A p \in DOMAIN bank : bank[p][1] < s.d.grid[1] /\ bank[p][2] < s.d.grid[2]
    IN  SelectSeq(get_dram_cores(s), inside)

\* serialize
serialize(s) ==
    [arch_name |-> s.d.arch, grid |-> s.d.grid, dram |-> serialize_dram_cores(s),
     cores |-> [t \in CoreTypes |-> IF t = "DRAM" THEN <<>> ELSE write_core_locations(s, t)]]

-----------------------------------------------------------------------------

SocInit == chip \in Chips /\ soc = NoSoc /\ thrown = FALSE /\ yaml = NoFile /\ again = NoSoc

\* init_from_arch_descriptor with what firmware reported.
Construct ==
    /\ soc = NoSoc /\ ~thrown
    /\ soc' = create_coordinate_manager(init(chip.arch), chip.translation, Masks(chip), chip.board, chip.asic_location)
    /\ thrown' = (soc' = NoSoc)
    /\ UNCHANGED <<chip, yaml, again>>

\* serialize_to_file
SerializeToFile ==
    /\ Built(soc) /\ yaml = NoFile
    /\ yaml' = serialize(soc)
    /\ UNCHANGED <<chip, soc, thrown, again>>

\* The file as a custom descriptor: of a chip that reports nothing harvested,
\* or of the chip itself, with the masks it reports.
ReloadSoc(masks, translation) ==
    /\ yaml /= NoFile /\ again = NoSoc
    /\ again' = create_coordinate_manager(load_from_yaml(yaml), translation, masks, "UNKNOWN", 0)
    /\ again' /= NoSoc
    /\ UNCHANGED <<chip, soc, thrown, yaml>>

SocNext ==
    \/ Construct
    \/ SerializeToFile
    \/ \E masks \in {NoMasks, Masks(chip)} : ReloadSoc(masks, chip.translation)

SocSpec == SocInit /\ [][SocNext]_socVars

-----------------------------------------------------------------------------
(* Properties *)

\* A descriptor never changes once it is built: a property is evaluated in
\* the state that its construction leads to.
Fresh == Built(soc) /\ yaml = NoFile

Descriptors == IF Fresh THEN {soc} ELSE IF Built(again) THEN {again} ELSE {}

\* Locations that the tables of the chip give to two types: only the
\* placeholder tables of Quasar do.
Shared(m, n) == Cardinality({t \in CoreTypes : n \in CoresOf(m, t)}) > 1

\* The logical DRAM coordinates that operator[] made up while the translated
\* ones were filled in: there is one for every port of a bank that is gone,
\* and it stands for (0, 0), core or not.
MadeUp(m, sys, t, xy) ==
    /\ t = "DRAM"
    /\ \/ m.to[sys][t][xy] \notin CoresOf(m, t)
       \/ sys = "LOGICAL" /\ xy[1] >= Cardinality((0 .. m.grids["DRAM"][1] - 1) \ m.masks.dram)

\* Every entry is about a core of the chip, of that core's type.
SocTypeOK ==
    /\ chip \in Chips /\ thrown \in BOOLEAN
    /\ \A s \in Descriptors : \A sys \in MapSystems :
        \A n \in DOMAIN s.m.from[sys] :
            LET c == s.m.from[sys][n] IN n \in CoresOf(s.m, c[1]) \/ MadeUp(s.m, sys, c[1], <<c[2], c[3]>>)

\* translate_coord_to loses nothing: a coordinate of any system goes to NOC0
\* and back to itself, a core goes to any system and back to itself, and
\* get_coord_at finds its type.  Except where the code's tables or operator[]
\* put two entries in one place.
SocRoundTrip ==
    \A s \in Descriptors : \A sys \in MapSystems, t \in CoreTypes :
        /\ \A n \in CoresOf(s.m, t) \cap DOMAIN s.m.from[sys] :
              Shared(s.m, n) \/ translate_coord_to(s.m, Coord(sys, s.m.from[sys][n]), "NOC0") = <<t, "NOC0", n[1], n[2]>>
        /\ \A xy \in DOMAIN s.m.to[sys][t] :
              \/ MadeUp(s.m, sys, t, xy)
              \/ Shared(s.m, s.m.to[sys][t][xy])
              \/ LET c == <<t, sys, xy[1], xy[2]>>
                     n == translate_coord_to(s.m, c, "NOC0")
                 IN  /\ n[1] = t /\ translate_coord_to(s.m, n, sys) = c
                     /\ sys # "LOGICAL" => get_coord_at(s.m, xy, sys) = c /\ translate_pair_to(s.m, xy, sys, "NOC0") = n

\* On either NOC every core that is not harvested is reached at a location of
\* its own; the router table and the flip of harvested ETH cores included.
\* A Blackhole has one PCIE core harvested: were none, (11, 0) would keep its
\* NOC0 location and meet the router whose x is flipped to 11.
UniqueOnNoc ==
    Fresh /\ soc.d.arch # "QUASAR" /\ (soc.d.arch = "BLACKHOLE" => chip.pcie # {}) =>
        \A noc \in 0 .. 1 :
            LET cs == get_all_cores(soc, "NOC0") \cup ToSet(HarvestedCoresIn(soc, "ETH", "NOC0"))
                device(c) == translate_chip_coord_to_translated_coord(soc, c, noc)
            IN  /\ \A c \in cs : device(c) # throws
                /\ Cardinality({<<device(c)[3], device(c)[4]>> : c \in cs}) = Cardinality(cs)

\* With translation the Tensix cores that are left occupy the same locations
\* whichever rows or columns are harvested, only their number matters.
CompactTensix ==
    Fresh /\ soc.m.translation /\ soc.d.arch # "QUASAR" =>
        LET g == get_grid_size(soc.m, "TENSIX")
            cs == {<<c[3], c[4]>> : c \in ToSet(CoresIn(soc, "TENSIX", "TRANSLATED"))}
            r == get_bounding_rectangle(soc, "TENSIX", "TRANSLATED")
        IN  /\ \A c \in cs : r[1][3] <= c[1] /\ c[1] <= r[2][3] /\ r[1][4] <= c[2] /\ c[2] <= r[2][4]
            /\ cs = IF soc.d.arch = "BLACKHOLE" THEN {TensixAt(soc.m, x, y) : x \in 0 .. g[1] - 1, y \in 0 .. g[2] - 1}
                    ELSE (18 .. 17 + g[1]) \X (18 .. 17 + g[2])

\* Harvesting a DRAM bank of a Blackhole moves banks about within the two
\* translated columns, and never leaves or doubles a place there; the bank
\* across the die from the harvested one ends up beside it, in the last row.
DramColumnsFull ==
    Fresh /\ soc.m.translation /\ soc.d.arch = "BLACKHOLE" =>
        LET all == ToSet(CoresIn(soc, "DRAM", "TRANSLATED")) \cup ToSet(HarvestedCoresIn(soc, "DRAM", "TRANSLATED"))
            bank(b) == {soc.m.from["TRANSLATED"][DramAt(soc.m, b, p)] : p \in 0 .. 2}
        IN  /\ {<<c[3], c[4]>> : c \in all} = {17, 18} \X (12 .. 23)
            /\ \A b \in chip.dram : /\ bank(b) = {<<"DRAM", 18, y>> : y \in 21 .. 23}
                                   /\ bank((b + 4) % 8) = {<<"DRAM", 17, y>> : y \in 21 .. 23}

\* The rows (columns) of Tensix cores taken out are those at the locations
\* whose die positions firmware reported.
HarvestsWhatFirmwareSays ==
    Fresh /\ soc.d.arch # "QUASAR" =>
        LET axis == IF soc.d.arch = "BLACKHOLE" THEN 1 ELSE 2
            gone == {At(HarvestingLocations(chip.arch), p) : p \in chip.tensix}
        IN  /\ ToSet(get_harvested_cores(soc.m, "TENSIX")) = {n \in CoresOf(soc.m, "TENSIX") : n[axis] \in gone}
            /\ shuffle_tensix_harvesting_mask_to_noc0_coords(chip.arch, soc.m.masks.tensix) = gone

\* The channel maps of the static descriptor are the logical channels, as
\* long as nothing of that type is harvested.
ChannelMapsAgree ==
    \A s \in Descriptors : s.d.arch # "QUASAR" =>
        /\ s.m.masks.dram = {} => \A n \in CoresOf(s.m, "DRAM") :
               get_dram_channel_for_core(s, <<"DRAM", "NOC0", n[1], n[2]>>) = build_channels(s.d).dram[n]
        /\ s.m.masks.eth = {} => \A n \in CoresOf(s.m, "ETH") :
               get_eth_channel_for_core(s, <<"ETH", "NOC0", n[1], n[2]>>) = build_channels(s.d).eth[n]
        /\ \A n \in DOMAIN build_cores(s.d) : build_cores(s.d)[n] = get_coord_at(s.m, n, "NOC0")[1]

\* The grid sizes and channel counts that callers loop over count the cores
\* that get_cores returns, the channel lookups answer for each of them, and
\* every core is in one of the two lists: left, or harvested (which never
\* lists L2CPU cores).
GridsCountCores ==
    Fresh /\ soc.d.arch # "QUASAR" =>
        LET g(t) == get_grid_size(soc.m, t)
            h(t) == get_harvested_grid_size(soc.m, t)
        IN  /\ \A t \in {"TENSIX", "DRAM"} :
                  /\ Len(get_cores(soc.m, t)) = g(t)[1] * g(t)[2]
                  /\ Len(get_harvested_cores(soc.m, t)) = h(t)[1] * h(t)[2]
            /\ \A ch \in 0 .. g("DRAM")[1] - 1, sub \in 0 .. g("DRAM")[2] - 1 :
                  LET c == get_dram_core_for_channel(soc, ch, sub, "NOC0")
                  IN  c \in ToSet(CoresIn(soc, "DRAM", "NOC0")) /\ get_dram_channel_for_core(soc, c) = <<ch, sub>>
            /\ \A sub \in 0 .. g("DRAM")[2] - 1 : Len(DramCoresOfChannel(soc, sub, "TRANSLATED")) = g("DRAM")[1]
            /\ Len(get_cores(soc.m, "ETH")) = get_num_eth_channels(soc.m)
            /\ \A ch \in 0 .. get_num_eth_channels(soc.m) - 1 :
                  get_eth_core_for_channel(soc, ch, "NOC0") \in ToSet(CoresIn(soc, "ETH", "NOC0"))
            /\ get_all_cores(soc, "NOC0") \cap get_all_harvested_cores(soc, "NOC0") = {}
            /\ {<<t, "NOC0", n[1], n[2]>> : <<t, n>> \in {p \in (CoreTypes \ {"L2CPU"}) \X DOMAIN build_cores(soc.d) :
                                                                p[2] \in CoresOf(soc.m, p[1])}}
               \subseteq get_all_cores(soc, "NOC0") \cup get_all_harvested_cores(soc, "NOC0")

\* Written to a file and read back for a chip that reports nothing harvested,
\* the descriptor has the same cores under the same logical coordinates.
ReloadKeepsLogical ==
    Built(soc) /\ Built(again) /\ again.m.masks = NoMasks /\ soc.d.arch # "QUASAR" =>
        /\ get_all_cores(again, "NOC0") = get_all_cores(soc, "NOC0")
        /\ \A t \in {"TENSIX", "DRAM", "ETH", "L2CPU"} : CoresIn(again, t, "LOGICAL") = CoresIn(soc, t, "LOGICAL")
=============================================================================
