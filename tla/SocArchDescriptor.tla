------------------------- MODULE SocArchDescriptor -------------------------
(***************************************************************************)
(* The static description of a chip (soc_arch_descriptor.cpp): the tables  *)
(* of arch/*_implementation.hpp, or the tables a YAML file holds, plus the *)
(* data derived from them.  A location is <<x, y>>; a vector of the code   *)
(* is a sequence, so index i of the code is index i + 1 here (At).         *)
(***************************************************************************)
EXTENDS Integers, Sequences, FiniteSets, SequencesExt

\* CoreType: the types that a table of a chip names.
CoreTypes == {"ARC", "DRAM", "PCIE", "TENSIX", "ROUTER_ONLY", "SECURITY", "L2CPU", "DISPATCH", "ETH"}

\* CoordSystem.
CoordSystems == {"LOGICAL", "NOC0", "TRANSLATED", "NOC1", "LITERAL"}

At(s, i) == s[i + 1]

\* The row-major product of the x and the y locations of a grid of cores.
RowMajor(xs, ys) ==
    [i \in 1 .. Len(xs) * Len(ys) |-> <<At(xs, (i - 1) % Len(xs)), At(ys, (i - 1) \div Len(xs))>>]

\* A column of locations (x, y) for the y of ys.
Column(x, ys) == [i \in 1 .. Len(ys) |-> <<x, ys[i]>>]

\* A row of locations (x, y) for the x of xs.
RowOf(xs, y) == [i \in 1 .. Len(xs) |-> <<xs[i], y>>]

Descending(n) == [i \in 1 .. n |-> n - i]

-----------------------------------------------------------------------------
(* wormhole_implementation.hpp *)

WormholeNoc1Tables == [x |-> Descending(10), y |-> Descending(12)]

WormholeTensixCores == RowMajor(<<1, 2, 3, 4, 6, 7, 8, 9>>, <<1, 2, 3, 4, 5, 7, 8, 9, 10, 11>>)

WormholeDramCores ==
    <<Column(0, <<0, 1, 11>>), Column(0, <<5, 6, 7>>), Column(5, <<0, 1, 11>>),
      Column(5, <<2, 9, 10>>), Column(5, <<3, 4, 8>>), Column(5, <<5, 6, 7>>)>>

WormholeEthCores ==
    RowOf(<<9, 1, 8, 2, 7, 3, 6, 4>>, 0) \o RowOf(<<9, 1, 8, 2, 7, 3, 6, 4>>, 6)

WormholeOtherCores ==
    [ARC |-> << <<0, 10>> >>, PCIE |-> << <<0, 3>> >>,
     ROUTER_ONLY |-> Column(0, <<2, 4, 8, 9>>), SECURITY |-> <<>>, L2CPU |-> <<>>]

WormholeHarvestingLocations == <<11, 1, 10, 2, 9, 3, 8, 4, 7, 5>>

-----------------------------------------------------------------------------
(* blackhole_implementation.hpp *)

BlackholeNoc1Tables == [x |-> Descending(17), y |-> Descending(12)]

BlackholeTensixCores ==
    RowMajor(<<1, 2, 3, 4, 5, 6, 7, 10, 11, 12, 13, 14, 15, 16>>, <<2, 3, 4, 5, 6, 7, 8, 9, 10, 11>>)

DramBankRows == << <<0, 1, 11>>, <<2, 10, 3>>, <<9, 4, 8>>, <<5, 7, 6>> >>

BlackholeDramCores ==
    [b \in 1 .. 8 |-> Column(IF b <= 4 THEN 0 ELSE 9, At(DramBankRows, (b - 1) % 4))]

BlackholeEthCores == RowOf(<<1, 16, 2, 15, 3, 14, 4, 13, 5, 12, 6, 11, 7, 10>>, 1)

BlackholeRouterCores ==
    RowOf(<<1, 3, 4, 5, 6, 7, 10, 12, 13, 14, 15, 16>>, 0) \o Column(8, <<1, 10, 8, 6, 4, 11>>)

BlackholeOtherCores ==
    [ARC |-> << <<8, 0>> >>, PCIE |-> RowOf(<<2, 11>>, 0), SECURITY |-> << <<8, 2>> >>,
     L2CPU |-> Column(8, <<3, 5, 7, 9>>)]

BlackholeHarvestingLocations == <<1, 16, 2, 15, 3, 14, 4, 13, 5, 12, 6, 11, 7, 10>>

-----------------------------------------------------------------------------
(* grendel_implementation.hpp: the Quasar tables, placeholders taken over  *)
(* from Blackhole but for the grid and the Tensix cores.                   *)

QuasarTensixCores == RowMajor(<<2, 3, 4, 5, 6, 7, 8, 9>>, <<2, 3, 4, 5>>)

QuasarDramCores == BlackholeDramCores

QuasarOtherCores ==
    BlackholeOtherCores @@ [ROUTER_ONLY |-> BlackholeRouterCores, ETH |-> BlackholeEthCores]

-----------------------------------------------------------------------------

\* init() from an architecture: every table, in the fields of the class.
init(a) ==
    LET none == [t \in CoreTypes |-> <<>>]
        tables ==
            CASE a = "WORMHOLE_B0" ->
                    [grid |-> <<10, 12>>, dram |-> WormholeDramCores, noc1 |-> WormholeNoc1Tables,
                     cores |-> WormholeOtherCores @@ [TENSIX |-> WormholeTensixCores, ETH |-> WormholeEthCores] @@ none]
              [] a = "BLACKHOLE" ->
                    [grid |-> <<17, 12>>, dram |-> BlackholeDramCores, noc1 |-> BlackholeNoc1Tables,
                     cores |-> BlackholeOtherCores @@ [TENSIX |-> BlackholeTensixCores, ETH |-> BlackholeEthCores,
                                                       ROUTER_ONLY |-> BlackholeRouterCores] @@ none]
              [] a = "QUASAR" ->
                    [grid |-> <<12, 8>>, dram |-> QuasarDramCores, noc1 |-> BlackholeNoc1Tables,
                     cores |-> QuasarOtherCores @@ [TENSIX |-> QuasarTensixCores] @@ none]
    IN  [tables EXCEPT !.cores["DRAM"] = FlattenSeq(tables.dram)] @@ [arch |-> a]

\* calculate_grid_size: how many different x and how many different y.
calculate_grid_size(s) ==
    <<Cardinality({s[i][1] : i \in DOMAIN s}), Cardinality({s[i][2] : i \in DOMAIN s})>>

\* cores_, the map from a location to the type that claimed it first.
DescriptorOrder == <<"ARC", "PCIE", "DRAM", "ETH", "TENSIX", "ROUTER_ONLY", "SECURITY", "L2CPU", "DISPATCH">>

build_cores(d) ==
    [c \in UNION {ToSet(d.cores[t]) : t \in CoreTypes} |->
        DescriptorOrder[CHOOSE i \in DOMAIN DescriptorOrder :
            /\ c \in ToSet(d.cores[DescriptorOrder[i]])
            /\ \A j \in 1 .. i - 1 : c \notin ToSet(d.cores[DescriptorOrder[j]])]]

\* The port and the bank swapped.
SwappedChannels(d) ==
    [dram |-> [c \in ToSet(d.cores["DRAM"]) |->
                CHOOSE cs \in (0 .. 2) \X (0 .. Len(d.dram) - 1) : At(At(d.dram, cs[2]), cs[1]) = c],
     eth  |-> [c \in ToSet(d.cores["ETH"]) |-> (CHOOSE i \in DOMAIN d.cores["ETH"] : d.cores["ETH"][i] = c) - 1]]

\* dram_core_channel_map_ and ethernet_core_channel_map_.
build_channels(d) ==
    [dram |-> [c \in ToSet(d.cores["DRAM"]) |->
                CHOOSE cs \in (0 .. Len(d.dram) - 1) \X (0 .. 2) :
                    cs[2] < Len(At(d.dram, cs[1])) /\ At(At(d.dram, cs[1]), cs[2]) = c],
     eth  |-> [c \in ToSet(d.cores["ETH"]) |-> (CHOOSE i \in DOMAIN d.cores["ETH"] : d.cores["ETH"][i] = c) - 1]]

\* worker_grid_size_.
worker_grid_size(d) == calculate_grid_size(d.cores["TENSIX"])

\* load_from_yaml: the core lists of the file.  The two tables from NOC0 to
\* NOC1 are optional, and a file written by serialize() has none.
load_from_yaml(y) ==
    [arch |-> y.arch_name, grid |-> y.grid, dram |-> y.dram, cores |-> [y.cores EXCEPT !["DRAM"] = FlattenSeq(y.dram)],
     noc1 |-> IF "noc1" \in DOMAIN y THEN y.noc1 ELSE [x |-> <<>>, y |-> <<>>]]
=============================================================================
