------------------------- MODULE ClusterDescriptor -------------------------
(***************************************************************************)
(* The cluster descriptor: which chips there are, which of them are local  *)
(* (have MMIO), on which boards they sit and how their ethernet channels   *)
(* are wired; and the operations that build a descriptor from another one: *)
(* closest local chip, grouping, restriction to the visible chips with     *)
(* renumbering, writing to YAML and loading from it, mock clusters.        *)
(*                                                                         *)
(* A descriptor is a record.  The nested maps of the class that are keyed  *)
(* by chip and channel are functions of ports <<chip, channel>>.  Maps the *)
(* class keeps per chip and only copies, filters and renumbers together    *)
(* (NOC translation, harvesting, bus, BDF, ASIC location) are one field,   *)
(* info; type is chip_board_type.  board_to_chips is the inverse of        *)
(* chip_to_board_id, which is how every operation of the class leaves it.  *)
(* A board id is a pair <<UPI, serial number>>.                            *)
(***************************************************************************)
EXTENDS Integers, Sequences, FiniteSets, SequencesExt, FiniteSetsExt

CONSTANT Channel            \* the ethernet channels of a chip, numbered from 0

ChipPorts(chips) == chips \X Channel

\* The entries of a map whose keys are in S.
Only(f, S) == [x \in (DOMAIN f) \cap S |-> f[x]]

NoMap == [x \in {} |-> x]

EmptyDescriptor ==
  [chips |-> {}, arch |-> NoMap, location |-> NoMap, cluster |-> NoMap,
   mmio |-> NoMap, board |-> NoMap, type |-> NoMap, uid |-> NoMap, info |-> NoMap,
   eth |-> NoMap, remote |-> NoMap, active |-> {}, idle |-> {},
   groups |-> NoMap, cache |-> NoMap]

\* The outcome of an operation that throws.
Thrown == [EmptyDescriptor EXCEPT !.chips = {-1}]

BoardUpiMap ==
  [u \in {\h36, \h43} |-> "P100"] @@ [u \in \h40 .. \h42 |-> "P150"]
    @@ [u \in \h44 .. \h46 |-> "P300"] @@ (\h18 :> "N150") @@ (\h14 :> "N300")
    @@ (\h35 :> "UBB") @@ (\h47 :> "UBB_BLACKHOLE") @@ (\h50 :> "QUASAR_BOARD")

\* "throws" stands for the exception of a board id whose UPI is not in the map.
GetBoardTypeFromBoardId(id) == IF id[1] \in DOMAIN BoardUpiMap THEN BoardUpiMap[id[1]] ELSE "throws"

IsChipMmioCapable(d, chip) == chip \in DOMAIN d.mmio

HasActiveEthernetLink(d, port) == port \in DOMAIN d.eth \cup DOMAIN d.remote

\* The channels of first that lead to second, with the channels at the other end.
DirectlyConnected(d, first, second) ==
  {<<p[2], d.eth[p][2]>> : p \in {q \in DOMAIN d.eth : q[1] = first /\ d.eth[q][1] = second}}

BoardChips(d, board) == {c \in DOMAIN d.board : d.board[c] = board}

ChipsFromSameBoards(d, chips) == UNION {BoardChips(d, d.board[c]) : c \in chips}

\* Mutant of ClosestMmioCapableChip: any local chip, wherever it sits.
ClosestAnywhere(d, chip) ==
  IF IsChipMmioCapable(d, chip) THEN {chip} ELSE DOMAIN d.mmio

\* The local chips get_closest_mmio_capable_chip may return: the chip itself, the
\* cached one, or any local chip of the board (a hash set has no order).
ClosestMmioCapableChip(d, chip) ==
  IF IsChipMmioCapable(d, chip) THEN {chip}
  ELSE IF chip \in DOMAIN d.cache THEN {d.cache[chip]}
  ELSE IF chip \in DOMAIN d.board
         THEN {c \in BoardChips(d, d.board[chip]) : IsChipMmioCapable(d, c)}
         ELSE {}

\* Every local chip is in its own group; the other chips join the group of the closest
\* local chip, unless there are no coordinates.  At most one local chip per board.
FillChipsGroupedByClosestMmio(d) ==
  LET grouped == IF DOMAIN d.location = {}
                   THEN {c \in d.chips : IsChipMmioCapable(d, c)} ELSE d.chips
      closest == [c \in grouped |-> ClosestMmioCapableChip(d, c)]
      one == [c \in grouped |-> CHOOSE m \in closest[c] : TRUE]
  IN IF \E c \in grouped : closest[c] = {} THEN Thrown
     ELSE [d EXCEPT
             !.groups = [m \in {one[c] : c \in grouped} |-> {c \in grouped : one[c] = m}],
             !.cache = [c \in {x \in grouped : ~IsChipMmioCapable(d, x)} |-> one[c]] @@ @]

(***************************************************************************)
(* Cluster ids.  DisjointSet::merge makes the smaller root the root of     *)
(* both sets, so the root of a set is its smallest member.                 *)
(***************************************************************************)
\* Mutant of Merge: only the first item gets the new root.
MergeItem(parent, a, b) == [parent EXCEPT ![a] = Min({parent[a], parent[b]})]

Merge(parent, a, b) ==
  LET root == Min({parent[a], parent[b]})
  IN [c \in DOMAIN parent |-> IF parent[c] \in {parent[a], parent[b]} THEN root ELSE parent[c]]

\* With coordinates every linked chip has been added; without, nothing is written.
MergeClusterIds(d) ==
  LET items == DOMAIN d.location
      edges == {p \in DOMAIN d.eth : p[1] \in items /\ d.eth[p][1] \in items}
  IN [d EXCEPT !.cluster =
        FoldSet(LAMBDA p, parent : Merge(parent, p[1], d.eth[p][1]),
                [c \in items |-> c], edges)]

(***************************************************************************)
(* The parts of verify_cluster_descriptor_info that can throw; the others  *)
(* only log.  The board types are looked at when chips are counted, which  *)
(* only a discovery of local devices leaves out.                           *)
(***************************************************************************)
BoardTypesKnown(d) ==
  \A c \in DOMAIN d.board : GetBoardTypeFromBoardId(d.board[c]) # "throws"

Verify(d) ==
  IF /\ BoardTypesKnown(d)
     /\ d.chips \subseteq DOMAIN d.type
     /\ d.chips \subseteq DOMAIN d.arch
     /\ \A c, e \in d.chips : d.arch[c] = d.arch[e]
  THEN d ELSE Thrown

(***************************************************************************)
(* Restriction to the visible chips.                                       *)
(***************************************************************************)
\* An unset TT_VISIBLE_DEVICES is {}; a token is a chip id or a BDF, which stands for
\* the chips with that BDF; a token that matches nothing makes the call throw ({-1}).
TargetChipIdsFromVisibleDevices(d, tokens) ==
  LET matches(t) == IF t.bdf THEN {c \in DOMAIN d.info : d.info[c].bdf = t.value}
                    ELSE {t.value} \cap d.chips
  IN IF tokens = {} THEN d.chips
     ELSE IF \E t \in tokens : matches(t) = {} THEN {-1}
     ELSE UNION {matches(t) : t \in tokens}

\* Boards of at most two chips are kept whole.
VisibleChips(d, targets) ==
  IF DOMAIN d.board # {} /\ \A c \in targets : Cardinality(BoardChips(d, d.board[c])) <= 2
  THEN ChipsFromSameBoards(d, targets) ELSE targets

\* Mutant of CutConnections: links to hidden chips are dropped.
CutConnectionsLost(d, visible) == NoMap

\* A link to a hidden chip becomes a link to the outside, by the unique id of the chip.
CutConnections(d, visible) ==
  LET cut == {p \in DOMAIN d.eth : p[1] \in visible /\ d.eth[p][1] \notin visible}
      uidOf(c) == IF c \in DOMAIN d.uid THEN d.uid[c] ELSE c
  IN [p \in cut |-> <<uidOf(d.eth[p][1]), d.eth[p][2]>>]

FilterChipCollections(d, visible) ==
  LET kept == {p \in DOMAIN d.eth : p[1] \in visible /\ d.eth[p][1] \in visible}
  IN [EmptyDescriptor EXCEPT
        !.chips = d.chips \cap visible,
        !.arch = Only(d.arch, visible),
        !.location = Only(d.location, visible),
        !.cluster = Only(d.cluster, visible),
        !.mmio = Only(d.mmio, visible),
        !.board = Only(d.board, visible),
        !.type = Only(d.type, visible),
        !.uid = Only(d.uid, visible),
        !.info = Only(d.info, visible),
        !.eth = Only(d.eth, kept),
        !.remote = Only(d.remote, ChipPorts(visible))
                     @@ CutConnections(d, visible),
        !.active = d.active \cap ChipPorts(visible),
        !.idle = d.idle \cap ChipPorts(visible),
        !.groups = [m \in (DOMAIN d.groups) \cap visible |-> d.groups[m] \cap visible]]

\* The orders get_chips_local_first may return: local chips, then the others.
ChipsLocalFirst(d, chips) ==
  LET local == {c \in chips : IsChipMmioCapable(d, c)}
  IN {s \o t : s \in SetToSeqs(local), t \in SetToSeqs(chips \ local)}

\* apply_chip_id_remapping, where the chip at position i of order becomes i - 1.
ApplyChipIdRemapping(d, order) ==
  LET new(c) == (CHOOSE i \in DOMAIN order : order[i] = c) - 1
      chip(n) == order[n + 1]
      news == {i - 1 : i \in DOMAIN order}
      keyed(f) == [n \in {m \in news : chip(m) \in DOMAIN f} |-> f[chip(n)]]
      port(q) == <<chip(q[1]), q[2]>>
      ports(S) == {<<new(p[1]), p[2]>> : p \in S}
  IN [chips |-> news, arch |-> keyed(d.arch), location |-> keyed(d.location),
      cluster |-> keyed(d.cluster),
      mmio |-> [n \in DOMAIN keyed(d.mmio) |->
                  LET old == d.mmio[chip(n)] IN IF old \in Range(order) THEN new(old) ELSE n],
      board |-> keyed(d.board), type |-> keyed(d.type), uid |-> keyed(d.uid),
      info |-> keyed(d.info),
      eth |-> [q \in ports(DOMAIN d.eth) |-> <<new(d.eth[port(q)][1]), d.eth[port(q)][2]>>],
      remote |-> [q \in ports(DOMAIN d.remote) |-> d.remote[port(q)]],
      active |-> ports(d.active), idle |-> ports(d.idle),
      groups |-> [n \in DOMAIN keyed(d.groups) |-> {new(c) : c \in d.groups[chip(n)]}],
      cache |-> NoMap]

\* The descriptors create_constrained_cluster_descriptor may return.
CreateConstrained(d, target, tokens) ==
  LET targets == IF target # {} THEN target ELSE TargetChipIdsFromVisibleDevices(d, tokens)
      visible == VisibleChips(d, targets)
      filtered == FilterChipCollections(d, visible)
  IN IF DOMAIN d.board # {} /\ ~ targets \subseteq DOMAIN d.board THEN {Thrown}
     ELSE IF Cardinality(visible) >= Cardinality(d.chips) THEN {filtered}
     ELSE IF ~ visible \subseteq filtered.chips THEN {Thrown}
     ELSE {Verify(ApplyChipIdRemapping(filtered, order)) :
             order \in ChipsLocalFirst(filtered, visible)}

(***************************************************************************)
(* YAML.                                                                   *)
(***************************************************************************)
Before(p, q) == p[1] < q[1] \/ (p[1] = q[1] /\ p[2] < q[2])

\* Mutant of SerializedConnections: one link for every pair of chips.
SerializedOncePerChip(eth) ==
  MapThenFoldSet(LAMBDA p, written :
                   IF \E l \in written : l[2][1] = p[1] THEN written
                   ELSE written \cup {<<p, eth[p]>>},
                 {}, LAMBDA p : p, LAMBDA S : CHOOSE p \in S : \A q \in S \ {p} : Before(q, p),
                 DOMAIN eth)

\* The links serialize() writes: in the order of their ports, without those whose port
\* was the destination of a link written before.
SerializedConnections(eth) ==
  MapThenFoldSet(LAMBDA p, written :
                   IF \E l \in written : l[2] = p THEN written ELSE written \cup {<<p, eth[p]>>},
                 {}, LAMBDA p : p, LAMBDA S : CHOOSE p \in S : \A q \in S \ {p} : Before(q, p),
                 DOMAIN eth)

\* Empty chip_unique_ids are still written as an (empty) map.  The board type that is
\* written is that of the board id, not chip_board_type; SerializeThrows when it has none.
SerializeThrows(d) == ~BoardTypesKnown(d)

Serialize(d) ==
  [arch |-> d.arch, chips |-> d.location, chip_unique_ids |-> d.uid,
   ethernet_connections |-> SerializedConnections(d.eth),
   remote |-> d.remote, chips_with_mmio |-> d.mmio,
   boards |-> d.board,
   board_types |-> [c \in DOMAIN d.board |-> GetBoardTypeFromBoardId(d.board[c])],
   info |-> Only(d.info, d.chips)]

LoadChips(yaml) ==
  [EmptyDescriptor EXCEPT
     !.chips = DOMAIN yaml.arch, !.arch = yaml.arch, !.location = yaml.chips,
     !.cluster = [c \in DOMAIN yaml.chips |-> c],
     !.mmio = yaml.chips_with_mmio, !.board = yaml.boards, !.type = yaml.board_types,
     !.uid = yaml.chip_unique_ids, !.info = yaml.info]

\* Both directions of every written link; a port with two different partners throws.
LoadEthernetConnections(d, yaml, numChannels) ==
  LET both == yaml.ethernet_connections
                \cup {<<l[2], l[1]>> : l \in yaml.ethernet_connections}
      ports == {l[1] : l \in both}
      used == ports \cup DOMAIN yaml.remote
  IN IF \/ \E l \in both : l[1][1] \notin d.chips
        \/ \E l, m \in both : l[1] = m[1] /\ l[2] # m[2]
     THEN Thrown
     ELSE [d EXCEPT
             !.eth = [p \in ports |-> (CHOOSE l \in both : l[1] = p)[2]],
             !.remote = yaml.remote,
             !.active = used,
             !.idle = {p \in ChipPorts(d.chips) : p[2] < numChannels} \ used]

CreateFromYaml(yaml, numChannels) ==
  LET linked == LoadEthernetConnections(LoadChips(yaml), yaml, numChannels)
  IN IF linked = Thrown THEN Thrown
     ELSE LET grouped == FillChipsGroupedByClosestMmio(MergeClusterIds(linked))
          IN IF grouped = Thrown THEN Thrown ELSE Verify(grouped)

(***************************************************************************)
(* Mock clusters: every chip is local, alone on its board and at           *)
(* x = its number.  fill_mock_hardcoded_data's insert of a second unique   *)
(* id has no effect, the first one is already there.                       *)
(***************************************************************************)
MockBoardType(arch) == IF arch = "wormhole" THEN "N150" ELSE "UNKNOWN"

\* Mutant of GenerateMockBoardId: every mock board has the default UPI.
MockBoardIdDefault(chip, type) == <<\h40, chip>>

GenerateMockBoardId(chip, type) == IF type = "N150" THEN <<\h18, chip>> ELSE <<\h40, chip>>

CreateMockCluster(ids, arch) ==
  LET self == [c \in ids |-> c]
      type == MockBoardType(arch)
  IN Verify(FillChipsGroupedByClosestMmio(
       [EmptyDescriptor EXCEPT
          !.chips = ids, !.arch = [c \in ids |-> arch], !.location = self,
          !.cluster = [c \in ids |-> 0], !.mmio = self, !.uid = self,
          !.type = [c \in ids |-> type],
          !.board = [c \in ids |-> GenerateMockBoardId(c, type)],
          !.info = [c \in ids |-> [bdf |-> c]]]))
=============================================================================
