------------------------- MODULE CoordinateManager -------------------------
(***************************************************************************)
(* coordinates/*.cpp: the maps between the coordinate systems of a chip.   *)
(*                                                                         *)
(* A manager is a record with the constructor's arguments (arch,           *)
(* translation, masks, grids, cores, noc1) and its two maps:               *)
(*     to[sys][t]   : <<x, y>> of type t in sys  ->  NOC0 location         *)
(*     from[sys]    : NOC0 location  ->  <<type, x, y>> in sys             *)
(* to_core_type_map holds the first type inserted at a location, which is  *)
(* the first in the order in which initialize() runs through the types     *)
(* (InitializeOrder), so it is read off `to'.                              *)
(* A harvesting mask is the set of its bits.  A stage of initialize() adds *)
(* a whole loop of translations at once: a function from NOC0 locations to *)
(* the coordinates they get (Add).                                         *)
(***************************************************************************)
EXTENDS SocArchDescriptor

InitializeOrder == <<"TENSIX", "DRAM", "ETH", "ARC", "PCIE", "ROUTER_ONLY", "SECURITY", "L2CPU", "DISPATCH">>

MapSystems == {"LOGICAL", "NOC0", "TRANSLATED", "NOC1"}

\* The class's members after the constructor's initializer list.
Constructed(d, translation, masks) ==
    [arch |-> d.arch, translation |-> translation, masks |-> masks, cores |-> d.cores, noc1 |-> d.noc1,
     grids |-> [TENSIX |-> worker_grid_size(d),
                DRAM |-> <<Len(d.dram), IF d.dram = <<>> THEN 0 ELSE Len(d.dram[1])>>,
                ARC |-> calculate_grid_size(d.cores["ARC"]), PCIE |-> calculate_grid_size(d.cores["PCIE"])],
     to |-> [s \in MapSystems |-> [t \in CoreTypes |-> <<>>]], from |-> [s \in MapSystems |-> <<>>]]

\* get_num_harvested and get_harvested_indices: a mask is the set of its bits.
get_num_harvested(mask) == Cardinality(mask)

\* The position of index i among the indices below n that are not harvested.
LogicalIndex(mask, i) == Cardinality((0 .. i - 1) \ mask)

\* add_core_translation for every location in DOMAIN f: `insert' keeps the
\* entry of the earlier stage where there is one.
Add(m, sys, t, f) ==
    [m EXCEPT !.to[sys][t] = @ @@ [c \in {f[n] : n \in DOMAIN f} |-> CHOOSE n \in DOMAIN f : f[n] = c],
              !.from[sys] = @ @@ [n \in DOMAIN f |-> <<t, f[n][1], f[n][2]>>]]

\* to_noc0_map[coord] as the code writes it: operator[] gives (0, 0), and
\* leaves that entry behind, when the coordinate is not there.
DefaultInsert(m, sys, t, cs) ==
    [m EXCEPT !.to[sys][t] = @ @@ [c \in cs |-> <<0, 0>>]]

Identity(cs) == [c \in cs |-> c]

CoresOf(m, t) == ToSet(m.cores[t])

-----------------------------------------------------------------------------
(* assert_coordinate_manager_constructor *)

BaseAssert(m) == m.masks.dram = {} /\ m.masks.eth = {}

BlackholeAssert(m) ==
    /\ get_num_harvested(m.masks.dram) <= 1
    /\ Len(m.cores["ETH"]) = 14 => get_num_harvested(m.masks.eth) \in {2, 14}

\* identity_map_noc0_cores
IdentityMapOf(m, t) == Add(m, "NOC0", t, Identity(CoresOf(m, t)))

identity_map_noc0_cores(m) == FoldLeft(IdentityMapOf, m, InitializeOrder)

-----------------------------------------------------------------------------
(* Tensix *)

\* A mask with more bits than the grid has rows (columns) is dropped.
CheckedTensixMask(m, i) ==
    IF get_num_harvested(m.masks.tensix) > m.grids["TENSIX"][i] THEN [m EXCEPT !.masks.tensix = {}] ELSE m

\* The indices <<x, y>> of the Tensix grid and the core there.
TensixGrid(m) == (0 .. m.grids["TENSIX"][1] - 1) \X (0 .. m.grids["TENSIX"][2] - 1)

TensixAt(m, x, y) == At(m.cores["TENSIX"], y * m.grids["TENSIX"][1] + x)

\* The function that gives every core at a grid index in g the place to[i].
PlaceTensix(m, g, place(_)) ==
    [n \in {TensixAt(m, i[1], i[2]) : i \in g} |->
        place(CHOOSE i \in g : TensixAt(m, i[1], i[2]) = n)]

\* translate_tensix_coords of the base class: rows are harvested.
RowsLogical(m) ==
    LET place(i) == <<i[1], LogicalIndex(m.masks.tensix, i[2])>>
    IN  Add(m, "LOGICAL", "TENSIX", PlaceTensix(m, {i \in TensixGrid(m) : i[2] \notin m.masks.tensix}, place))

fill_tensix_default_noc0_translated_mapping(m) ==
    Add(m, "TRANSLATED", "TENSIX", Identity(CoresOf(m, "TENSIX")))

\* The harvested rows counted from the first translated row.
WormholeTensixFromStart(m) ==
    LET left(i) == <<i[1] + 18, LogicalIndex(m.masks.tensix, i[2]) + 18>>
        gone(i) == <<i[1] + 18, 18 + Cardinality(m.masks.tensix \cap 0 .. i[2] - 1)>>
        goneCores == {i \in TensixGrid(m) : i[2] \in m.masks.tensix}
    IN  Add(Add(m, "TRANSLATED", "TENSIX", PlaceTensix(m, TensixGrid(m) \ goneCores, left)),
            "TRANSLATED", "TENSIX", PlaceTensix(m, goneCores, gone))

\* WormholeCoordinateManager::fill_tensix_noc0_translated_mapping: the rows
\* that are left first, the harvested ones after them.
WormholeTensixTranslated(m) ==
    LET kept == m.grids["TENSIX"][2] - get_num_harvested(m.masks.tensix)
        left(i) == <<i[1] + 18, LogicalIndex(m.masks.tensix, i[2]) + 18>>
        gone(i) == <<i[1] + 18, 18 + kept + Cardinality(m.masks.tensix \cap 0 .. i[2] - 1)>>
        leftCores == {i \in TensixGrid(m) : i[2] \notin m.masks.tensix /\ LogicalIndex(m.masks.tensix, i[2]) < kept}
        goneCores == {i \in TensixGrid(m) : i[2] \in m.masks.tensix}
    IN  Add(Add(m, "TRANSLATED", "TENSIX", PlaceTensix(m, leftCores, left)),
            "TRANSLATED", "TENSIX", PlaceTensix(m, goneCores, gone))

\* BlackholeCoordinateManager::translate_tensix_coords: columns are harvested.
ColumnsLogical(m) ==
    LET place(i) == <<LogicalIndex(m.masks.tensix, i[1]), i[2]>>
    IN  Add(m, "LOGICAL", "TENSIX", PlaceTensix(m, {i \in TensixGrid(m) : i[1] \notin m.masks.tensix}, place))

\* The position on the die of a column, from its NOC0 x.
DieIndex(m, x) ==
    LET found == {k \in DOMAIN BlackholeHarvestingLocations : BlackholeHarvestingLocations[k] = TensixAt(m, x, 0)[1]}
    IN  IF found = {} THEN Len(BlackholeHarvestingLocations) ELSE (CHOOSE k \in found : TRUE) - 1

\* Every column stays where it is.
BlackholeTensixInPlace(m) == Add(m, "TRANSLATED", "TENSIX", Identity(CoresOf(m, "TENSIX")))

\* BlackholeCoordinateManager::fill_tensix_noc0_translated_mapping: columns
\* that are left move to the first columns; harvested ones fill the last
\* columns downwards in the order of the die.
BlackholeTensixTranslated(m) ==
    LET mask == m.masks.tensix \cap 0 .. m.grids["TENSIX"][1] - 1
        left(i) == TensixAt(m, LogicalIndex(mask, i[1]), i[2])
        before(x) == {z \in mask : \/ DieIndex(m, z) < DieIndex(m, x)
                                   \/ DieIndex(m, z) = DieIndex(m, x) /\ z < x}
        gone(i) == TensixAt(m, m.grids["TENSIX"][1] - 1 - Cardinality(before(i[1])), i[2])
        leftCores == {i \in TensixGrid(m) : i[1] \notin mask}
    IN  Add(Add(m, "TRANSLATED", "TENSIX", PlaceTensix(m, leftCores, left)),
            "TRANSLATED", "TENSIX", PlaceTensix(m, TensixGrid(m) \ leftCores, gone))

translate_tensix_coords(m0) ==
    LET bh == m0.arch = "BLACKHOLE"
        m == CheckedTensixMask(m0, IF bh THEN 1 ELSE 2)
        l == IF bh THEN ColumnsLogical(m) ELSE RowsLogical(m)
    IN  CASE ~m.translation \/ m.arch = "QUASAR" -> fill_tensix_default_noc0_translated_mapping(l)
          [] m.translation /\ bh                 -> BlackholeTensixTranslated(l)
          [] m.translation /\ m.arch = "WORMHOLE_B0" -> WormholeTensixTranslated(l)

-----------------------------------------------------------------------------
(* DRAM *)

DramAt(m, bank, port) == At(m.cores["DRAM"], bank * m.grids["DRAM"][2] + port)

DramGrid(m) == (0 .. m.grids["DRAM"][1] - 1) \X (0 .. m.grids["DRAM"][2] - 1)

\* translate_dram_coords: a harvested bank has no logical coordinates.
DramLogical(m) ==
    LET mask == m.masks.dram
        banks == {i \in DramGrid(m) : i[1] \notin mask}
    IN  Add(m, "LOGICAL", "DRAM",
            [n \in {DramAt(m, i[1], i[2]) : i \in banks} |->
                LET i == CHOOSE i \in banks : DramAt(m, i[1], i[2]) = n IN <<LogicalIndex(mask, i[1]), i[2]>>])

\* fill_dram_default_noc0_translated_mapping runs over the whole grid, so it
\* asks for the logical coordinates of banks that do not exist any more.
fill_dram_default_noc0_translated_mapping(m) ==
    LET asked == DefaultInsert(m, "LOGICAL", "DRAM", DramGrid(m))
    IN  Add(asked, "TRANSLATED", "DRAM", Identity({asked.to["LOGICAL"]["DRAM"][i] : i \in DramGrid(m)}))

\* map_dram_banks(start_bank, end_bank, x_coord, y_coord)
map_dram_banks(m, start_bank, end_bank, x_coord, y_coord) ==
    LET ports == {<<b, p>> : b \in start_bank .. end_bank - 1, p \in 0 .. 2}
        asked == DefaultInsert(m, "LOGICAL", "DRAM", ports)
        noc0(i) == asked.to["LOGICAL"]["DRAM"][i]
    IN  Add(asked, "TRANSLATED", "DRAM",
            [n \in {noc0(i) : i \in ports} |->
                LET i == CHOOSE i \in ports : noc0(i) = n
                IN  <<x_coord, y_coord + (i[1] - start_bank) * 3 + i[2]>>])

\* BlackholeCoordinateManager::fill_dram_noc0_translated_mapping, nothing
\* harvested: four banks in each of the two columns.
BlackholeDramFull(m) == map_dram_banks(map_dram_banks(m, 0, 4, 17, 12), 4, 8, 18, 12)

\* The mirror bank is not left out of the run of east banks.
BlackholeDramWestNoGap(m, harvested_bank) ==
    LET mirror == harvested_bank + 3
        m1 == map_dram_banks(m, 0, 3, 18, 12)
        m2 == map_dram_banks(m1, 3, 7, 17, 12)
    IN  map_dram_banks(m2, mirror, mirror + 1, 17, 12 + 3 * 3)

\* A west bank is harvested: the west banks move to the east column, and the
\* mirror of the harvested bank goes to the bottom of the west column.
BlackholeDramWest(m, harvested_bank) ==
    LET mirror == harvested_bank + 3
        m1 == map_dram_banks(m, 0, 3, 18, 12)
        m2 == map_dram_banks(m1, 3, mirror, 17, 12)
        m3 == map_dram_banks(m2, mirror + 1, 7, 17, 12 + (mirror - 3) * 3)
    IN  map_dram_banks(m3, mirror, mirror + 1, 17, 12 + 3 * 3)

\* An east bank is harvested: the mirror bank goes to the bottom.
BlackholeDramEast(m, harvested_bank) ==
    LET mirror == harvested_bank - 4
        m1 == map_dram_banks(m, 0, mirror, 17, 12)
        m2 == map_dram_banks(m1, mirror + 1, 4, 17, 12 + mirror * 3)
        m3 == map_dram_banks(m2, mirror, mirror + 1, 17, 12 + 3 * 3)
    IN  map_dram_banks(m3, 4, 7, 18, 12)

\* The harvested bank itself is at the bottom of the east column.
BlackholeDramHarvested(m, harvested_bank) ==
    LET ports == 0 .. m.grids["DRAM"][2] - 1
        y0 == 12 + (m.grids["DRAM"][1] \div 2 - 1) * m.grids["DRAM"][2]
    IN  Add(m, "TRANSLATED", "DRAM",
            [n \in {DramAt(m, harvested_bank, p) : p \in ports} |->
                <<18, y0 + (CHOOSE p \in ports : DramAt(m, harvested_bank, p) = n)>>])

BlackholeDramTranslated(m) ==
    IF m.grids["DRAM"][1] < 8 THEN fill_dram_default_noc0_translated_mapping(m)
    ELSE IF m.masks.dram = {} THEN BlackholeDramFull(m)
    ELSE LET b == CHOOSE b \in m.masks.dram : \A c \in m.masks.dram : b <= c
         IN  BlackholeDramHarvested(IF b < 4 THEN BlackholeDramWest(m, b) ELSE BlackholeDramEast(m, b), b)

translate_dram_coords(m) ==
    IF m.translation /\ m.arch = "BLACKHOLE"
    THEN BlackholeDramTranslated(DramLogical(m))
    ELSE fill_dram_default_noc0_translated_mapping(DramLogical(m))

-----------------------------------------------------------------------------
(* ETH, PCIE, L2CPU *)

Indices(m, t) == 0 .. Len(m.cores[t]) - 1

\* The cores of type t at the indices in ks, placed by the index.
PlaceIndexed(m, t, ks, place(_)) ==
    [n \in {At(m.cores[t], k) : k \in ks} |-> place(CHOOSE k \in ks : At(m.cores[t], k) = n)]

\* translate_eth_coords: the logical channel counts the channels left.
EthLogical(m) ==
    LET place(k) == <<0, LogicalIndex(m.masks.eth, k)>>
    IN  Add(m, "LOGICAL", "ETH", PlaceIndexed(m, "ETH", Indices(m, "ETH") \ m.masks.eth, place))

fill_eth_default_noc0_translated_mapping(m) == Add(m, "TRANSLATED", "ETH", Identity(CoresOf(m, "ETH")))

\* WormholeCoordinateManager::fill_eth_noc0_translated_mapping: x 1-4 and
\* 6-9 become 18-25, y 0 and 6 become 16 and 17.
WormholeEthTranslated(m) ==
    Add(m, "TRANSLATED", "ETH",
        [n \in CoresOf(m, "ETH") |->
            <<(IF n[1] > 5 THEN n[1] - 1 ELSE n[1]) - 1 + 18, (IF n[2] = 6 THEN 1 ELSE n[2]) + 16>>])

\* BlackholeCoordinateManager::fill_eth_noc0_translated_mapping: the channels
\* left are in one row, the harvested ones keep their NOC0 location.
BlackholeEthTranslated(m) ==
    LET channels == 0 .. Len(m.cores["ETH"]) - (IF m.cores["ETH"] = <<>> THEN 0 ELSE get_num_harvested(m.masks.eth)) - 1
        noc0(k) == m.to["LOGICAL"]["ETH"][<<0, k>>]
        row == [n \in {noc0(k) : k \in channels} |-> <<20 + (CHOOSE k \in channels : noc0(k) = n), 25>>]
        gone == Identity({At(m.cores["ETH"], k) : k \in Indices(m, "ETH") \cap m.masks.eth})
    IN  Add(Add(m, "TRANSLATED", "ETH", row), "TRANSLATED", "ETH", gone)

translate_eth_coords(m) ==
    CASE ~m.translation \/ m.arch = "QUASAR" -> fill_eth_default_noc0_translated_mapping(EthLogical(m))
      [] m.translation /\ m.arch = "BLACKHOLE" -> BlackholeEthTranslated(EthLogical(m))
      [] m.translation /\ m.arch = "WORMHOLE_B0" -> WormholeEthTranslated(EthLogical(m))

\* translate_arc_coords: the logical grid, and no translation on any chip.
translate_arc_coords(m) ==
    LET rows == m.grids["ARC"][2]
        place(k) == <<k \div rows, k % rows>>
        l == Add(m, "LOGICAL", "ARC", PlaceIndexed(m, "ARC", Indices(m, "ARC"), place))
    IN  Add(l, "TRANSLATED", "ARC", Identity(CoresOf(m, "ARC")))

\* translate_pcie_coords: only Blackhole looks at the mask.
PcieLogical(m) ==
    LET rows == m.grids["PCIE"][2]
        gone == IF m.arch = "BLACKHOLE" THEN m.masks.pcie ELSE {}
        place(k) == <<LogicalIndex(gone, k \div rows), k % rows>>
    IN  Add(m, "LOGICAL", "PCIE", PlaceIndexed(m, "PCIE", {k \in Indices(m, "PCIE") : k \div rows \notin gone}, place))

fill_pcie_default_noc0_translated_mapping(m) == Add(m, "TRANSLATED", "PCIE", Identity(CoresOf(m, "PCIE")))

\* BlackholeCoordinateManager::fill_pcie_noc0_translated_mapping: the first
\* core left is at (19, 24), the others keep their NOC0 location.
BlackholePcieTranslated(m) ==
    LET columns == 0 .. m.grids["PCIE"][1] - get_num_harvested(m.masks.pcie) - 1
        noc0(x) == m.to["LOGICAL"]["PCIE"][<<x, 0>>]
        left == [n \in {noc0(x) : x \in columns} |-> IF n = noc0(0) THEN <<19, 24>> ELSE n]
        gone == Identity({At(m.cores["PCIE"], x) : x \in m.masks.pcie \cap 0 .. m.grids["PCIE"][1] - 1})
    IN  Add(Add(m, "TRANSLATED", "PCIE", left), "TRANSLATED", "PCIE", gone)

translate_pcie_coords(m) ==
    IF m.translation /\ m.arch = "BLACKHOLE"
    THEN BlackholePcieTranslated(PcieLogical(m))
    ELSE fill_pcie_default_noc0_translated_mapping(PcieLogical(m))

IdentityAsRouter(m, t) == Add(m, "TRANSLATED", "ROUTER_ONLY", Identity(CoresOf(m, t)))

\* translate_router_coords, _security_, _dispatch_: no logical coordinates.
IdentityTranslated(m, t) == Add(m, "TRANSLATED", t, Identity(CoresOf(m, t)))

\* translate_l2cpu_coords: Blackhole gives the cores left logical indices.
BlackholeL2cpu(m) ==
    LET place(k) == <<0, LogicalIndex(m.masks.l2cpu, k)>>
    IN  Add(IdentityTranslated(m, "L2CPU"), "LOGICAL", "L2CPU",
            PlaceIndexed(m, "L2CPU", Indices(m, "L2CPU") \ m.masks.l2cpu, place))

translate_l2cpu_coords(m) == IF m.arch = "BLACKHOLE" THEN BlackholeL2cpu(m) ELSE IdentityTranslated(m, "L2CPU")

\* add_noc1_to_noc0_mapping
Noc1MapOf(m, t) ==
    Add(m, "NOC1", t, [n \in CoresOf(m, t) |-> <<At(m.noc1.x, n[1]), At(m.noc1.y, n[2])>>])

add_noc1_to_noc0_mapping(m) ==
    IF m.noc1.x = <<>> \/ m.noc1.y = <<>> THEN m ELSE FoldLeft(Noc1MapOf, m, InitializeOrder)

\* initialize
initialize(m) ==
    LET m1 == translate_dram_coords(translate_tensix_coords(identity_map_noc0_cores(m)))
        m2 == translate_pcie_coords(translate_arc_coords(translate_eth_coords(m1)))
        m3 == translate_l2cpu_coords(IdentityTranslated(IdentityTranslated(m2, "ROUTER_ONLY"), "SECURITY"))
    IN  add_noc1_to_noc0_mapping(IdentityTranslated(m3, "DISPATCH"))

-----------------------------------------------------------------------------
(* Queries.  A CoreCoord is <<type, system, x, y>>; an exception is <<>>.  *)

throws == <<>>

Coord(sys, c) == <<c[1], sys, c[2], c[3]>>

\* translate_coord_to(core_coord, target)
translate_coord_to(m, c, target) ==
    IF c[2] = "LITERAL" \/ target = "LITERAL" \/ <<c[3], c[4]>> \notin DOMAIN m.to[c[2]][c[1]] THEN throws
    ELSE LET n == m.to[c[2]][c[1]][<<c[3], c[4]>>]
         IN  IF n \notin DOMAIN m.from[target] THEN throws ELSE Coord(target, m.from[target][n])

\* get_coord_at: the first type that was given the location.
get_coord_at(m, xy, sys) ==
    LET claims == IF sys \in {"LITERAL", "LOGICAL"} THEN {}
                  ELSE {i \in DOMAIN InitializeOrder : xy \in DOMAIN m.to[sys][InitializeOrder[i]]}
    IN  IF claims = {} THEN throws
        ELSE <<InitializeOrder[CHOOSE i \in claims : \A j \in claims : i <= j], sys, xy[1], xy[2]>>

\* translate_coord_to(core, input, target)
translate_pair_to(m, xy, input, target) ==
    CASE input = "LITERAL" -> throws
      [] input /= "LITERAL" /\ target = "LITERAL" -> <<"UNSPECIFIED", "LITERAL", xy[1], xy[2]>>
      [] input /= "LITERAL" /\ target /= "LITERAL" ->
            LET c == get_coord_at(m, xy, input) IN IF c = throws THEN throws ELSE translate_coord_to(m, c, target)

\* Is core number k of type t harvested?
HarvestedIndex(m, t, k) ==
    CASE t = "TENSIX" -> IF m.arch = "BLACKHOLE" THEN k % m.grids["TENSIX"][1] \in m.masks.tensix
                         ELSE k \div m.grids["TENSIX"][1] \in m.masks.tensix
      [] t = "DRAM" /\ m.arch = "BLACKHOLE" -> k \div m.grids["DRAM"][2] \in m.masks.dram
      [] t = "ETH" /\ m.arch = "BLACKHOLE" -> k \in m.masks.eth
      [] t = "PCIE" /\ m.arch = "BLACKHOLE" -> k \in m.masks.pcie
      [] t = "L2CPU" /\ m.arch = "BLACKHOLE" -> k \in m.masks.l2cpu
      [] OTHER -> FALSE

\* get_noc0_pairs / get_all_noc0_cores, filtered: the cores of type t in
\* table order that are harvested, or that are not.
SelectCores(m, t, harvested) ==
    LET wanted(k) == HarvestedIndex(m, t, k) = harvested
        ks == SelectSeq([i \in 1 .. Len(m.cores[t]) |-> i - 1], wanted)
    IN  [j \in DOMAIN ks |-> At(m.cores[t], ks[j])]

\* get_cores(core_type), in NOC0 locations.
get_cores(m, t) == SelectCores(m, t, FALSE)

\* get_harvested_cores(core_type): the switch answers for four types only,
\* and L2CPU is not among them.
get_harvested_cores(m, t) == IF t \in {"TENSIX", "DRAM", "ETH", "PCIE"} THEN SelectCores(m, t, TRUE) ELSE <<>>

\* get_tensix_grid_size of the three subclasses.
get_tensix_grid_size(m) ==
    LET g == m.grids["TENSIX"]
        h == get_num_harvested(m.masks.tensix)
    IN  IF m.arch = "BLACKHOLE" THEN <<g[1] - h, g[2]>> ELSE <<g[1], g[2] - h>>

\* get_grid_size(core_type)
get_grid_size(m, t) ==
    CASE t = "TENSIX" -> get_tensix_grid_size(m)
      [] t = "DRAM" -> <<m.grids["DRAM"][1] - get_num_harvested(m.masks.dram), m.grids["DRAM"][2]>>
      [] t \in {"ARC", "PCIE"} -> m.grids[t]
      [] OTHER -> <<0, 0>>

\* get_harvested_grid_size(core_type)
get_harvested_grid_size(m, t) ==
    LET h == get_num_harvested(m.masks.tensix)
    IN  CASE t = "TENSIX" /\ m.arch = "BLACKHOLE" -> <<h, m.grids["TENSIX"][2]>>
          [] t = "TENSIX" /\ m.arch /= "BLACKHOLE" -> <<m.grids["TENSIX"][1], h>>
          [] t = "DRAM" /\ m.arch = "BLACKHOLE" -> <<get_num_harvested(m.masks.dram), m.grids["DRAM"][2]>>
          [] OTHER -> <<0, 0>>

CountAllEthChannels(m) == Len(m.cores["ETH"])

\* get_num_eth_channels
get_num_eth_channels(m) == Len(m.cores["ETH"]) - get_num_harvested(m.masks.eth)

-----------------------------------------------------------------------------
(* From the mask the hardware reports to the mask of the tables. *)

HarvestingLocations(a) == IF a = "WORMHOLE_B0" THEN WormholeHarvestingLocations ELSE BlackholeHarvestingLocations

\* The position of a location in the sorted list of locations.
SortedPosition(locs, x) == Cardinality({i \in DOMAIN locs : locs[i] < x})

KeepPhysicalMask(a, physical) == physical

\* shuffle_tensix_harvesting_mask: die order to NOC0 order.
shuffle_tensix_harvesting_mask(a, physical) ==
    {SortedPosition(HarvestingLocations(a), At(HarvestingLocations(a), p)) : p \in physical}

\* shuffle_tensix_harvesting_mask_to_noc0_coords: NOC0 order to NOC0 locations.
shuffle_tensix_harvesting_mask_to_noc0_coords(a, logical) ==
    {x \in ToSet(HarvestingLocations(a)) : SortedPosition(HarvestingLocations(a), x) \in logical}

\* shuffle_l2cpu_harvesting_mask: cores enabled, die order, to cores
\* harvested, table order.
shuffle_l2cpu_harvesting_mask(enabled) ==
    {<<0, 3, 1, 2>>[p + 1] : p \in (0 .. 3) \ enabled}
=============================================================================
