--------------------------- MODULE MCDescriptors ---------------------------
(***************************************************************************)
(* The two descriptors side by side: that of the cluster, which topology   *)
(* discovery fills, and that of a chip, with its coordinate managers.      *)
(***************************************************************************)
EXTENDS TopologyDiscovery, SocDescriptor

CONSTANTS MaxHarvested \* bound on the harvested Tensix rows or columns

VARIABLE part

-----------------------------------------------------------------------------
(* Systems for TopologyDiscovery: two Wormhole cards of two chips in a     *)
(* ring, a Blackhole card next to a chip of another host, and a Wormhole   *)
(* 6U tray.                                                                *)

AllIgnore == [init |-> "ignore", heartbeat |-> "ignore", eth_fw |-> "ignore",
              routing |-> "ignore", cmfw_mismatch |-> "ignore",
              cmfw_unsupported |-> "ignore", remote |-> TRUE, retrain |-> FALSE]
AllThrow == [AllIgnore EXCEPT !.init = "throw", !.heartbeat = "throw", !.eth_fw = "throw",
               !.routing = "throw", !.cmfw_mismatch = "throw", !.cmfw_unsupported = "throw"]
LocalOnly == [AllIgnore EXCEPT !.remote = FALSE]

Both(l) == l \cup {<<k[2], k[1]>> : k \in l}
Wiring(l) == [p \in {k[1] : k \in Both(l)} |-> (CHOOSE k \in Both(l) : k[1] = p)[2]]
AllPorts(chips) == chips \X Channel

Base(chips, wires) ==
  [source |-> "devices", arch |-> "wormhole", upi |-> [b \in 1..4 |-> \h14], archOf |-> [c \in chips |-> "wormhole"],
   local |-> <<1>>, board |-> [c \in chips |-> 1], link |-> Wiring(wires),
   train |-> [p \in AllPorts(chips) |-> "unconnected"],
   core |-> [p \in AllPorts(chips) |-> "ok"], ethFw |-> [p \in AllPorts(chips) |-> 2],
   telemetryEthFw |-> 0, routing |-> [p \in AllPorts(chips) |-> FALSE],
   fw |-> [c \in chips |-> 2], fails |-> {}, harvested |-> [c \in chips |-> 0],
   options |-> AllIgnore]

Trained(base, up) ==
  [base EXCEPT !.train = [p \in DOMAIN @ |->
     IF \E k \in Both(up) : k[1] = p THEN "success" ELSE "unconnected"]]

\* Cards {1, 2} and {3, 4} in a ring.  In each one chip is local.
Ring == {<<<<1, 0>>, <<2, 0>>>>, <<<<3, 0>>, <<4, 0>>>>, <<<<1, 1>>, <<3, 1>>>>, <<<<2, 1>>, <<4, 1>>>>}
Cards(local) == [Base(1..4, Ring) EXCEPT !.local = local,
                   !.board = [c \in 1..4 |-> IF c <= 2 THEN 1 ELSE 2]]

CardsUp == {Trained(Cards(local), up) :
              local \in {<<1, 3>>, <<4, 1>>, <<2, 4>>, <<2>>}, up \in SUBSET Ring}

Faults(e) ==
  LET port == AllPorts(1..4)
  IN {[e EXCEPT !.core[p] = x] : p \in port, x \in {"disabled", "reset", "dead", "corrupt"}}
     \cup {[e EXCEPT !.ethFw[p] = x] : p \in port, x \in {1, 3}}
     \cup {[e EXCEPT !.routing[p] = TRUE] : p \in port}
     \cup {[e EXCEPT !.fw[c] = x] : c \in 1..4, x \in {1, 3}}
     \cup {[e EXCEPT !.fails = {c}] : c \in 1..4}
     \cup {[e EXCEPT !.upi[b] = \h99] : b \in 1..2}
     \cup {[e EXCEPT !.archOf[e.local[Len(e.local)]] = "blackhole"],
           [e EXCEPT !.telemetryEthFw = 2], [e EXCEPT !.telemetryEthFw = 3]}

Cards6 == {[e EXCEPT !.options = o] :
             o \in {AllIgnore, AllThrow, LocalOnly},
             e \in UNION {Faults(Trained(Cards(l), Ring)) : l \in {<<1, 3>>, <<4, 2>>}}}

\* Blackhole: chips 1 and 2 local on one card (P300) or on two (P150), chip 3 elsewhere;
\* firmware before and after 18.12.
BhWires == {<<<<1, 0>>, <<2, 0>>>>, <<<<2, 1>>, <<3, 0>>>>}
Blackholes ==
  {[Trained(Base(1..3, BhWires), up) EXCEPT
      !.arch = "blackhole", !.archOf = [c \in 1..3 |-> "blackhole"], !.local = local,
      !.board = [c \in 1..3 |-> IF c = 3 THEN 3 ELSE IF upi = \h44 THEN 1 ELSE c],
      !.upi = [b \in 1..4 |-> upi], !.fw = [c \in 1..3 |-> fw],
      !.harvested[2] = h, !.core[<<1, 0>>] = x] :
     up \in SUBSET BhWires, local \in {<<1, 2>>, <<2, 1>>}, h \in 0..1, x \in {"ok", "reset", "dead"},
     upi \in {\h40, \h44}, fw \in 2..3}

\* Wormhole 6U: three local chips of one tray in a line, links may fail to train.
TrayWires == {<<<<1, 1>>, <<2, 0>>>>, <<<<2, 1>>, <<3, 0>>>>}
Tray(failed, old) ==
  [Trained(Base(1..3, TrayWires), TrayWires) EXCEPT
     !.upi[1] = \h35, !.local = <<2, 1, 3>>, !.routing = [p \in AllPorts(1..3) |-> TRUE],
     !.options.retrain = TRUE,
     !.ethFw = [p \in AllPorts(1..3) |-> IF p \in old THEN 1 ELSE 2],
     !.train = [p \in DOMAIN @ |-> IF \E k \in Both(failed) : k[1] = p THEN "fail" ELSE @[p]]]
Trays == {Tray({k}, old) : k \in TrayWires, old \in {{}, {<<2, 0>>}, {<<3, 0>>}}}

\* Mock clusters and descriptor files of one to three chips.
NotDiscovered ==
  {[Base(1..3, {}) EXCEPT !.source = x, !.arch = a, !.local = [i \in 1..n |-> i]] :
     x \in {"mock", "file"}, a \in {"wormhole", "blackhole", "quasar"}, n \in 1..3}

Systems == CardsUp \cup Cards6 \cup Blackholes \cup Trays \cup NotDiscovered

-----------------------------------------------------------------------------
(* discover_remote_devices: when the scan ends without an exception it has *)
(* found exactly the chips that usable links reach, whatever cores are     *)
(* off, dead or untrained, and the gateway it recorded for a remote chip   *)
(* leads to it.                                                            *)
DiscoveryFindsChips ==
  /\ FindsEveryChip
  /\ GatewayLeadsThere

(* The ClusterDescriptor discovery fills agrees with the wiring from both  *)
(* ends of a link, gives every remote chip a local chip that reaches it,   *)
(* and puts two chips into one cluster exactly when links join them.       *)
DescriptorConsistent ==
  /\ TypeOK
  /\ DescriptorWired
  /\ EveryChipHasGateway
  /\ ClusterIdsAreComponents

(* A descriptor that is written and loaded, or restricted to some chips    *)
(* and renumbered, still describes the same links and boards; only the     *)
(* board type is made anew from the board id when it is written.           *)
DescriptorSurvives ==
  /\ RoundTrip
  /\ RestrictionKeepsIdentity

-----------------------------------------------------------------------------
(* Chips for SocDescriptor.                                                *)

UpTo(S, k) == {h \in SUBSET S : Cardinality(h) <= k}

Chip(a, translation, tensix) ==
    [arch |-> a, translation |-> translation, tensix |-> tensix, dram |-> {}, eth |-> IF a = "BLACKHOLE" THEN {3, 8} ELSE {},
     pcie |-> IF a = "BLACKHOLE" THEN {1} ELSE {}, l2cpu_enabled |-> 0 .. 3, board |-> "UNKNOWN", asic_location |-> 0]

BlackholeChip(translation) == Chip("BLACKHOLE", translation, {0, 5})

MCChips ==
    {Chip("WORMHOLE_B0", tr, h) : tr \in BOOLEAN, h \in UpTo(0 .. 9, MaxHarvested)}
    \cup {Chip("BLACKHOLE", TRUE, h) : h \in UpTo(0 .. 13, MaxHarvested)}
    \cup {[BlackholeChip(tr) EXCEPT !.dram = b, !.pcie = p] :
            tr \in BOOLEAN, b \in {{}} \cup {{k} : k \in 0 .. 7} \cup {{0, 1}}, p \in {{}, {0}, {1}}}
    \cup {[BlackholeChip(TRUE) EXCEPT !.eth = e] : e \in {h \in SUBSET (0 .. 13) : Cardinality(h) \in {1, 2, 14}}}
    \cup {[BlackholeChip(TRUE) EXCEPT !.l2cpu_enabled = l] : l \in SUBSET (0 .. 3)}
    \cup {[BlackholeChip(TRUE) EXCEPT !.board = b, !.asic_location = l, !.pcie = p] :
            b \in {"P100", "P150", "P300"}, l \in 0 .. 1, p \in {{0}, {1}}}
    \cup {Chip("QUASAR", tr, h) : tr \in BOOLEAN, h \in {{}, {0}, {0, 2, 4}}}
    \cup {[Chip("WORMHOLE_B0", TRUE, {}) EXCEPT !.dram = {0}]}

-----------------------------------------------------------------------------
(* CoordinateManager and SocDescriptor: for every pattern of harvesting,   *)
(* each core keeps one coordinate in each system and is found again from   *)
(* it, two cores never share a location on a NOC, and the translated       *)
(* Tensix and DRAM grids have no holes; the cores listed as harvested are  *)
(* those the firmware's masks name, the grids and channel maps count what  *)
(* is left, and a descriptor written to a file and read back has the same  *)
(* logical cores.                                                          *)
CoordinatesConsistent ==
  /\ SocTypeOK
  /\ SocRoundTrip
  /\ UniqueOnNoc
  /\ CompactTensix
  /\ DramColumnsFull
  /\ HarvestsWhatFirmwareSays
  /\ ChannelMapsAgree
  /\ GridsCountCores
  /\ ReloadKeepsLogical

-----------------------------------------------------------------------------
(* A behaviour is about one of the two.                                    *)
DescriptorsInit ==
  /\ \/ part = "cluster" /\ chip = CHOOSE c \in Chips : TRUE
     \/ part = "chip" /\ env = CHOOSE e \in Env : TRUE
  /\ Init /\ SocInit

DescriptorsNext ==
  \/ part = "cluster" /\ Next /\ UNCHANGED <<socVars, part>>
  \/ part = "chip" /\ SocNext /\ UNCHANGED <<vars, part>>

DescriptorsSpec == DescriptorsInit /\ [][DescriptorsNext]_<<vars, socVars, part>>
=============================================================================
