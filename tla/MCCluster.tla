------------------------------ MODULE MCCluster ------------------------------
(* Machines, calls and faults for Cluster. *)
EXTENDS Cluster

At(rack, shelf, x, y, place) == [rack |-> rack, shelf |-> shelf, x |-> x, y |-> y, place |-> place]

Base == [arch |-> "WORMHOLE_B0", local |-> {0}, loc |-> <<>>, newLoc |-> <<>>, gateway |-> <<>>, reach |-> <<>>, visible |-> <<>>,
         hostChannels |-> 1, trains |-> TRUE, unchanged |-> TRUE, slowClock |-> FALSE, refuses |-> FALSE, exits |-> FALSE,
         resets |-> FALSE, slowWrites |-> FALSE, cores |-> {}, excluded |-> {{}, {1, 2}}, ops |-> {"start"}, maxOps |-> 2, calls |-> {}, ranges |-> {}]

(* One board with a local and a remote chip; two that are not connected; a   *)
(* shelf of a second rack behind the first of two local chips.               *)
N300(e) == [e EXCEPT !.local = {0}, !.loc = (0 :> At(0, 0, 0, 0, "a") @@ 1 :> At(0, 0, 1, 0, "a")),
              !.gateway = [a |-> (1 :> 0), b |-> (1 :> 0)], !.reach = (0 :> {0, 1}),
              !.visible = [p \in Procs |-> {0, 1}]]
TwoN300(e) == [e EXCEPT !.local = {0, 1},
                 !.loc = (0 :> At(0, 0, 0, 0, "a") @@ 1 :> At(0, 0, 0, 1, "a") @@ 2 :> At(0, 0, 1, 0, "a") @@ 3 :> At(0, 0, 1, 1, "a")),
                 !.newLoc = (0 :> At(0, 0, 1, 0, "b") @@ 1 :> At(0, 0, 0, 1, "b") @@ 2 :> At(0, 0, 0, 0, "b") @@ 3 :> At(0, 0, 1, 1, "b")),
                 !.gateway = [a |-> (2 :> 0 @@ 3 :> 1), b |-> (2 :> 1 @@ 3 :> 1)], !.reach = (0 :> 0..3 @@ 1 :> 0..3),
                 !.visible = [p \in Procs |-> 0..3]]
Shelves(e) == [e EXCEPT !.local = {0, 1},
                 !.loc = (0 :> At(0, 0, 0, 0, "a") @@ 1 :> At(0, 0, 0, 1, "a") @@ 2 :> At(0, 1, 0, 0, "a") @@ 3 :> At(4, 2, 1, 0, "a")),
                 !.gateway = [a |-> (2 :> 0 @@ 3 :> 1), b |-> (2 :> 1 @@ 3 :> 1)],
                 !.reach = (0 :> 0..3 @@ 1 :> 0..3), !.visible = [p \in Procs |-> IF p = 1 THEN 0..3 ELSE {}]]
Still(e) == [e EXCEPT !.newLoc = e.loc]
Alone1(e) == [e EXCEPT !.visible = [p \in Procs |-> IF p = 1 THEN DOMAIN e.loc ELSE {}]]

Core(n, k) == [chip |-> 0, name |-> n, kind |-> k]
Cores3 == {Core(1, "tensix"), Core(2, "tensix"), Core(3, "dram")}
TwoCores == {Core(1, "tensix"), Core(2, "eth")}

LocalOnly(e) == [e EXCEPT !.local = {0, 1}, !.loc = (0 :> At(0, 0, 0, 0, "a") @@ 1 :> At(0, 0, 0, 1, "a")),
                   !.gateway = [a |-> <<>>, b |-> <<>>], !.reach = (0 :> {0} @@ 1 :> {1}), !.visible = [p \in Procs |-> {0, 1}]]

Cols == {{0, 5}, {0}, {5}, {}, T6X, T6X \cup {0}, T6X \cup {5}, {0, 5, 1, 2}, T6X \cup {0, 5}}
Rows == {{}, {0, 6}, {0, 6, 3}, T6Y, {1}}
ToTranslated(S, table) == {TranslatedCoord(n, table) : n \in S}
Calls == {[rows |-> r, cols |-> c, translated |-> FALSE] : r \in Rows, c \in Cols}
  \cup {[rows |-> ToTranslated(r, TranslatedToVirtualY), cols |-> ToTranslated(c, TranslatedToVirtualX), translated |-> TRUE] : r \in Rows, c \in Cols}
  \cup {[rows |-> {16}, cols |-> {0, 5}, translated |-> FALSE], [rows |-> {0}, cols |-> {16}, translated |-> TRUE]}
Ranges == {<<s, e>> : s \in {18, 20, 25} \X {18, 22}, e \in {18, 20, 25} \X {18, 27}} \cup {<<<<0, 0>>, <<25, 27>>>>, <<<<5, 0>>, <<25, 27>>>>}

MCEnv ==
  {Alone1(Still(TwoN300([Base EXCEPT !.ops = {"start", "reset"}, !.maxOps = 3, !.slowClock = s, !.refuses = r, !.resets = t]))) :
      s \in BOOLEAN, r \in BOOLEAN, t \in BOOLEAN}
  \cup {Alone1(Still(TwoN300([Base EXCEPT !.ops = {"start", "reset"}, !.maxOps = 3, !.hostChannels = 0])))}
  \cup {Still(LocalOnly([Base EXCEPT !.arch = a, !.exits = x])) : a \in {"BLACKHOLE", "WORMHOLE_B0"}, x \in BOOLEAN}
  \cup {Still(N300([Base EXCEPT !.ops = {"start", "reset"}, !.maxOps = 3, !.exits = TRUE]))}
  \cup {Alone1(TwoN300([Base EXCEPT !.ops = {"start", "broadcast", "refresh"}, !.maxOps = 5, !.unchanged = u])) : u \in BOOLEAN}
  \cup {Still(Shelves([Base EXCEPT !.ops = {"start", "broadcast"}, !.maxOps = 3, !.trains = t])) : t \in BOOLEAN}
  \cup {[Still(LocalOnly([Base EXCEPT !.arch = a, !.ops = {"write", "membar"}, !.maxOps = 3, !.exits = x]))
           EXCEPT !.cores = IF a = "BLACKHOLE" THEN Cores3 \ {Core(2, "tensix")} ELSE TwoCores] : a \in {"BLACKHOLE", "WORMHOLE_B0"}, x \in BOOLEAN}
  \cup {[Still(LocalOnly([Base EXCEPT !.ops = {"write", "membar", "start"}, !.maxOps = 3])) EXCEPT !.cores = {Core(1, "tensix")}]}
  \cup {[Still(LocalOnly([Base EXCEPT !.ops = {"write", "membar"}, !.maxOps = 3, !.slowWrites = TRUE])) EXCEPT !.cores = TwoCores]}
  \cup {Alone1(Still(N300([Base EXCEPT !.calls = Calls, !.ranges = Ranges, !.maxOps = 1])))}

-----------------------------------------------------------------------------
(* deassert, assert and close: after close() the cores the cluster used    *)
(* are held in reset, locals and remotes alike, and a reset has reached    *)
(* every chip when the call returns.                                       *)
ClosedAndHeld ==
  /\ HeldAfterClose
  /\ ResetIsVisible

(* broadcast_write_to_cluster and write_to_core_range: the chips, rows and *)
(* columns written are those that were asked for, through cached headers,  *)
(* the fallback core by core and multicast rectangles, also after the      *)
(* topology was read again.                                                *)
BroadcastExact ==
  /\ BroadcastReaches
  /\ ActiveLinks
  /\ CellsCovered
  /\ RangesCovered

(* Memory barriers: a barrier that returns has flushed the writes before   *)
(* it on each core, whatever barriers other processes set on the same      *)
(* words, until a process has timed out or was killed inside a barrier;    *)
(* and one times out only where processes start the device or are killed,  *)
(* or a write is slower than the time-out.                                 *)
BarriersHold ==
  /\ TypeOK
  /\ BarrierFlushes
  /\ TimeoutMeansStart
==============================================================================
