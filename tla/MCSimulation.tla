---------------------------- MODULE MCSimulation ----------------------------
(***************************************************************************)
(* The simulation components side by side: part says which of them a       *)
(* behaviour is about, and the others keep their initial state.            *)
(***************************************************************************)
EXTENDS SimulationServer, RtlSimulation, SimulationBackend, TLC

CONSTANTS h1, h2, c1, c2, t1, t2, k1, k2

VARIABLE part

(* Hosts and clients: reclaims after crashes, one client with timeouts,    *)
(* two clients of one host, a client over a crash and a restart.           *)
Budget(plans, s1, s2, crashes, n1, n2, closes) ==
  [plans |-> plans, starts |-> (h1 :> s1) @@ (h2 :> s2), crashes |-> crashes, calls |-> (c1 :> n1) @@ (c2 :> n2),
   closes |-> closes]
MCBudgets ==
  {Budget({InOwnDirectory(FALSE), InDirectory(0, FALSE)}, 2, 1, 1, 0, 0, 0),
   Budget({InOwnDirectory(TRUE)}, 1, 0, 0, 3, 0, 1),
   Budget({InOwnDirectory(FALSE)}, 1, 0, 0, 2, 1, 0),
   Budget({InDirectory(0, TRUE)}, 2, 0, 1, 2, 0, 0)}

(* RTL simulation: two readers by way of the device or of a window, with   *)
(* a shutdown at any time; host memory; resets; failed starts.             *)
Rd(via) == [kind |-> "read", via |-> via]
Wr(via, v, size) == [kind |-> "write", via |-> via, value |-> v, size |-> size]
Rs(tile, sel, assert) == [kind |-> "reset", via |-> "device", tile |-> tile, sel |-> sel, assert |-> assert]
Note(kind, inside) == [kind |-> kind, inside |-> inside]
Rtl(arch, start, shutdown, callbacks, ops1, ops2, seq) ==
  [arch |-> arch, start |-> start, shutdown |-> shutdown, callbacks |-> callbacks,
   calls |-> (t1 :> ops1) @@ (t2 :> ops2), notes |-> seq]
MCRtlScenarios ==
  {Rtl("BLACKHOLE", "ok", TRUE, TRUE, <<Wr("device", 1, 4), Rd("device")>>, <<Wr(via, 2, 4), Rd(via)>>,
       IF via = "device" THEN <<Note("ramwrite", TRUE)>> ELSE <<>>) : via \in {"device", "window"}}
  \cup {Rtl("BLACKHOLE", "ok", FALSE, cb, <<Wr("device", 1, 4), Wr("device", 2, 2), Rd("device")>>, <<>>,
            <<Note("ramread", i), Note("ramwrite", i), Note("ramwrite", TRUE), Note("ramread", TRUE)>>)
          : cb \in BOOLEAN, i \in BOOLEAN}
  \cup {Rtl("QUASAR", "ok", FALSE, TRUE, <<Rs(k1, {"all"}, FALSE), Rs(k1, {"all"}, TRUE)>>, <<Rs(k, {"all"}, a)>>, <<>>)
          : a \in BOOLEAN, k \in RtlTile}
  \cup {Rtl(arch, "ok", FALSE, FALSE, <<Rs(k1, sel, FALSE)>>, <<>>, <<>>) :
          arch \in {"QUASAR", "BLACKHOLE"},
          sel \in (SUBSET {"dm0", "dm1", "triscs", "uncore"}) \cup {{"uncores"}, {"alltriscs"}, {"alldms", "dm0"}}}
  \cup {Rtl("QUASAR", start, FALSE, FALSE, <<Rd("device")>>, <<>>, <<>>) : start \in {"throws", "deaf", "odd"}}
MCRiscTypesDms == <<"dm0", "dm1">>

(* libttsim: chips that come and go under one shared library, a full table *)
(* of windows, a library per chip, copied or not, libraries that do not    *)
(* load.                                                                   *)
Lib(lib, copy, windows, ours, n0, n1, n2, k) ==
  [lib |-> lib, copy |-> copy, windows |-> windows, ours |-> ours, lives |-> (0 :> n0) @@ (1 :> n1) @@ (2 :> n2),
   ios |-> (0 :> k) @@ (1 :> k) @@ (2 :> k)]
MCBackendScenarios ==
  {Lib("multichip", {}, TRUE, TRUE, 1, 1, 1, 0), Lib("multichip", {}, TRUE, TRUE, 2, 1, 0, 1), Lib("bdf", {}, TRUE, TRUE, 1, 1, 0, 1),
   Lib("legacy", {0, 1}, FALSE, TRUE, 1, 1, 0, 1), Lib("multichip", {}, TRUE, FALSE, 1, 1, 0, 1)}
  \cup {Lib("legacy", cp, TRUE, TRUE, 2, 1, 0, 1) : cp \in {{0, 1}, {0}, {}}}
  \cup {Lib(l, {0, 1}, TRUE, TRUE, 1, 1, 0, 1) : l \in {"incomplete", "bdf_absent", "bdf_broken", "absent"}}
  \cup {Lib("broken", cp, TRUE, TRUE, 2, 1, 0, 1) : cp \in {{0, 1}, {}}}

-----------------------------------------------------------------------------
vars == <<part, simVars, rtlVars, backendVars>>
Servers(A) == part = "server" /\ A /\ UNCHANGED <<part, rtlVars, backendVars>>
Rtls(A) == part = "rtl" /\ A /\ UNCHANGED <<part, simVars, backendVars>>
Backends(A) == part = "backend" /\ A /\ UNCHANGED <<part, simVars, rtlVars>>

(* The choices of the initial state are those of the part it is about.     *)
SimulationInit ==
  /\ part \in {"server", "rtl", "backend"}
  /\ SimInit /\ RtlInit /\ BackendInit
  /\ part # "server" => budget = CHOOSE b \in SimBudgets : TRUE
  /\ part # "rtl" => run = CHOOSE r \in RtlScenarios : TRUE
  /\ part # "backend" => scene = CHOOSE s \in BackendScenarios : TRUE

SimulationNext == Servers(SimNext) \/ Rtls(RtlNext) \/ Backends(BackendNext)

SimulationSpec ==
  /\ SimulationInit /\ [][SimulationNext]_vars
  /\ \A h \in SimHost : WF_vars(Servers(HostThread(h))) /\ WF_vars(Servers(DoAccept(h)))
  /\ \A s \in 1 .. MaxSessions : WF_vars(Servers(s \in DOMAIN session /\ Serve(s)))
  /\ \A c \in SimClient : WF_vars(Servers(ClientThread(c)))
  /\ \A t \in RtlThread : WF_vars(Rtls(Caller(t)))
  /\ WF_vars(Rtls(HandlerStep)) /\ WF_vars(Rtls(LifeStep)) /\ WF_vars(Rtls(SimCommand))

(* The servers alone.                                                      *)
ServersOnly == SimulationInit /\ part = "server" /\ [][Servers(SimNext)]_vars

-----------------------------------------------------------------------------
(* A read sent to the RTL simulator returns what its caller wrote, unless  *)
(* two readers crossed, and the device's accesses to host memory are seen  *)
(* in the order the device made them.                                      *)
RtlIoSound ==
  /\ ReadsOwnCell
  /\ HostMemoryOrdered

(* A request over a socket is answered with its own reply, unless a        *)
(* request timed out before it, and writes are applied in order; the same  *)
(* of the commands to the RTL simulator.                                   *)
SimulationIoSound ==
  /\ OwnReplyUnlessLate
  /\ WritesInOrder
  /\ RtlIoSound

(* Every host told to stop does, and every request, read and shutdown      *)
(* ends, lost wakeups of shutdown() aside.                                 *)
SimulationSettles ==
  /\ HostStops
  /\ RequestsEnd
  /\ RtlCallsEnd
=============================================================================
