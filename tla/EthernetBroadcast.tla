-------------------------- MODULE EthernetBroadcast --------------------------
(***************************************************************************)
(* Broadcast over ethernet of a Wormhole cluster: the headers that name    *)
(* the chips, and the exclusion masks that name the cores of each chip.    *)
(*                                                                         *)
(* A mask is the set of its bits. The rack and shelf words of a header are *)
(* one set of bits <<word, bit>>. A location is [rack, shelf, x, y].       *)
(***************************************************************************)
EXTENDS Integers, Sequences, FiniteSets

T6X == {1, 2, 3, 4, 6, 7, 8, 9}
T6Y == {1, 2, 3, 4, 5, 7, 8, 9, 10, 11}
GridX == 0..9
GridY == 0..11
TranslatedStart == 16
TranslatedToVirtualX == <<0, 5, 1, 2, 3, 4, 6, 7, 8, 9>>
TranslatedToVirtualY == <<0, 6, 1, 2, 3, 4, 5, 7, 8, 9, 10, 11>>

TensixCells == T6X \X T6Y
DramCells == ({0} \X {0, 1, 5, 6, 7, 11}) \cup ({5} \X GridY)
UnsafeRows == {2, 3, 4, 8, 9, 10}                \* PCIe, ARC and routers of column 0
UnsafeCells == {0} \X UnsafeRows

------------------------------------------------------------------------------
(* Headers.                                                                  *)

PhysicalChipId(l) == 8 * l.x + l.y
RackShelfBit(l) == <<l.rack \div 4, l.shelf + (l.rack % 4)>>

(* The chips with one place in their shelf, of one MMIO group.               *)
TargetMask(d, mmio, id, excluded) ==
  {RackShelfBit(d.loc[c]) : c \in {e \in DOMAIN d.mmio \ excluded : d.mmio[e] = mmio /\ PhysicalChipId(d.loc[e]) = id}}

(* One header for the places of a group that have the same mask.             *)
GetEthernetBroadcastHeaders(d, excluded) ==
  LET in == DOMAIN d.mmio \ excluded
      ids(m) == {PhysicalChipId(d.loc[c]) : c \in {e \in in : d.mmio[e] = m}}
      header(m, i) == [mmio |-> m, mask |-> TargetMask(d, m, i, excluded),
                       ids |-> {j \in ids(m) : TargetMask(d, m, j, excluded) = TargetMask(d, m, i, excluded)}]
  IN  UNION {{header(m, i) : i \in ids(m)} : m \in {d.mmio[c] : c \in in}}

(* The chips the firmware takes a header to: the ones it reaches from the    *)
(* MMIO chip, at the places the header names.                                *)
Addressed(h, loc, reach) ==
  {c \in reach[h.mmio] : PhysicalChipId(loc[c]) \in h.ids /\ RackShelfBit(loc[c]) \in h.mask}

------------------------------------------------------------------------------
(* Cores.                                                                    *)

InSpace(n, table, translated) ==
  IF translated THEN n >= TranslatedStart /\ n < TranslatedStart + Len(table) ELSE n < TranslatedStart

Virtual(n, table, translated) == IF translated THEN table[n - TranslatedStart + 1] ELSE n

(* Rows and columns in virtual space; the call throws when one is not in the *)
(* space it is said to be in.                                                *)
AdjustCoordinates(rows, cols, translated) ==
  [ok   |-> /\ \A r \in rows : InSpace(r, TranslatedToVirtualY, translated)
            /\ \A c \in cols : InSpace(c, TranslatedToVirtualX, translated),
   rows |-> {Virtual(r, TranslatedToVirtualY, translated) : r \in {s \in rows : InSpace(s, TranslatedToVirtualY, translated)}},
   cols |-> {Virtual(c, TranslatedToVirtualX, translated) : c \in {s \in cols : InSpace(s, TranslatedToVirtualX, translated)}}]

TensixOrEthInBroadcast(cols) == \E c \in T6X : c \notin cols
ValidTensixBroadcastGrid(rows) == (T6Y \cap rows = {}) \/ (T6Y \subseteq rows)

Masked(rows, cols) == (GridX \ cols) \X (GridY \ rows)

(* The bug to catch: the unsafe rows of column 0 are not excluded. *)
AllOfColumnZero(rows, cols) == Masked(rows, cols \cup {5})

ColumnZero(rows, cols) == Masked(rows \cup UnsafeRows, cols \cup {5})
ColumnFive(rows, cols) == Masked(rows, cols \cup {0})

(* The cores of a chip one call writes, and whether it throws instead.       *)
BroadcastCells(rows, cols, translated) ==
  LET v == AdjustCoordinates(rows, cols, translated)
      dram == 0 \notin v.cols \/ 5 \notin v.cols
  IN  IF ~v.ok THEN [ok |-> FALSE, cells |-> {}]
      ELSE IF dram
      THEN [ok |-> ~TensixOrEthInBroadcast(v.cols),
            cells |-> (IF 0 \in v.cols THEN {} ELSE ColumnZero(v.rows, v.cols))
                        \cup (IF 5 \in v.cols THEN {} ELSE ColumnFive(v.rows, v.cols))]
      ELSE [ok |-> translated \/ ValidTensixBroadcastGrid(v.rows), cells |-> Masked(v.rows, v.cols)]

(* Cluster::broadcast_write_to_cluster without ethernet broadcast: one write *)
(* per core. Tensix cores are at translated coordinates, DRAM cores of a     *)
(* Wormhole at NOC0 coordinates in both spaces.                              *)
FallbackExcludedColumns(cols, translated) ==
  cols \cup (IF translated /\ 16 \in cols THEN {0} ELSE {}) \cup (IF translated /\ 17 \in cols THEN {5} ELSE {})

TranslatedCoord(n, table) == (CHOOSE i \in DOMAIN table : table[i] = n) - 1 + TranslatedStart

FallbackCells(rows, cols, translated) ==
  LET ex == FallbackExcludedColumns(cols, translated)
      x(c) == IF translated /\ c \in TensixCells THEN TranslatedCoord(c[1], TranslatedToVirtualX) ELSE c[1]
      y(c) == IF translated /\ c \in TensixCells THEN TranslatedCoord(c[2], TranslatedToVirtualY) ELSE c[2]
  IN  {c \in TensixCells \cup DramCells : x(c) \notin ex /\ y(c) \notin rows}

(* RemoteProtocol::write_to_core_range: a multicast on a remote chip as a    *)
(* broadcast to it alone; FALSE in done sends the caller to the loop below.  *)
WriteToCoreRange(start, end, translation) ==
  LET translated == start[1] >= 18
      outside(lo, hi, n) == {t \in TranslatedStart..(TranslatedStart + n - 1) : t < lo \/ t > hi}
      b == IF translated
           THEN BroadcastCells({16, 17} \cup outside(start[2], end[2], 12), {16, 17} \cup outside(start[1], end[1], 10), TRUE)
           ELSE BroadcastCells({0, 6}, {0, 5}, FALSE)
      done == IF translated THEN translation ELSE ~(start[1] > 1 \/ start[2] > 1 \/ end[1] < 9 \/ end[2] < 11)
  IN  [done |-> done, cells |-> IF done THEN b.cells ELSE {}]

(* The bug to catch: the last column of the rectangle is left out. *)
UnicastWithoutLast(start, end) ==
  {c \in TensixCells : LET x == TranslatedCoord(c[1], TranslatedToVirtualX)
                           y == TranslatedCoord(c[2], TranslatedToVirtualY)
                       IN  x >= start[1] /\ x < end[1] /\ y >= start[2] /\ y <= end[2]}

MulticastWriteViaUnicast(start, end) ==
  LET lo(i) == IF start[i] < end[i] THEN start[i] ELSE end[i]
      hi(i) == IF start[i] < end[i] THEN end[i] ELSE start[i]
  IN  {c \in TensixCells : /\ TranslatedCoord(c[1], TranslatedToVirtualX) \in lo(1)..hi(1)
                           /\ TranslatedCoord(c[2], TranslatedToVirtualY) \in lo(2)..hi(2)}

------------------------------------------------------------------------------
(* A broadcast over ethernet writes the cores of a chip the loop over its    *)
(* cores writes, ethernet cores aside, and never a PCIe, ARC or router core. *)
(* (A broadcast to DRAM that excludes rows in translated space is left out:  *)
(* the loop compares such a row with the NOC0 row of a DRAM core.)           *)
CellsAsAsked(rows, cols, translated) ==
  LET b == BroadcastCells(rows, cols, translated)
      dram == b.cells \cap DramCells # {}
  IN  b.ok => /\ b.cells \cap UnsafeCells = {}
              /\ ~(translated /\ dram /\ rows # {}) =>
                   b.cells \cap (TensixCells \cup DramCells) = FallbackCells(rows, cols, translated)

(* A multicast on a remote chip writes the same cores whether it goes out as *)
(* a broadcast or core by core, for a rectangle given from its lower to its  *)
(* upper corner. (With the corners swapped the broadcast writes no core and  *)
(* reports success, and the loop writes the rectangle.)                      *)
MulticastAgrees(start, end) ==
  LET w == WriteToCoreRange(start, end, TRUE)
  IN  w.done /\ start[1] <= end[1] /\ start[2] <= end[2] => w.cells = MulticastWriteViaUnicast(start, end)
==============================================================================
