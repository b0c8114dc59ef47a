----------------------- MODULE SimulationServerProofs -----------------------
(***************************************************************************)
(* Proofs about SimulationServer, for any number of hosts, clients, server *)
(* directories and connections: a simulation host that listens keeps its   *)
(* socket, and its clients get their own replies and their writes in the   *)
(* order they made them.                                                   *)
(***************************************************************************)
EXTENDS MCSimulation, FiniteSetTheorems, WellFoundedInduction, TLAPS

-----------------------------------------------------------------------------
(* SimulationServer.                                                       *)

SimRequest == [kind : {"none", "info", "shutdown", "read", "write"}, tag : Nat]
SimReply == [tag : Nat, ok : BOOLEAN, data : Nat]
SimConnection ==
  [client : SimClient \cup {Nobody}, host : SimHost,
   at : {"backlog", "serving", "handling", "finished", "reaped"},
   reqs : Seq(SimRequest), replies : Seq(SimReply), req : SimRequest,
   shut : BOOLEAN, left : BOOLEAN, late : BOOLEAN]
SimPlans == SUBSET [pc : {"allocate", "mkdirs"}, dir : Dir, dedicated : BOOLEAN, stop : {FALSE}]
SimBudget ==
  [plans : SimPlans, starts : [SimHost -> Int], crashes : Int, calls : [SimClient -> Nat], closes : Int]
SimServer ==
  [pc : {"off", "allocate", "mkdirs"} \cup Claiming \cup Listening, dir : Dir, dedicated : BOOLEAN, stop : BOOLEAN]

SimTypes ==
  /\ sock \in [Dir -> SimHost \cup {Nobody, Stale}]
  /\ server \in [SimHost -> SimServer]
  /\ device \in [SimHost -> [log : Seq([client : SimClient \cup {Nobody}, tag : Nat]), closed : BOOLEAN]]
  /\ session \in Seq(SimConnection)
  /\ budget \in SimBudget
  /\ contended \in BOOLEAN

(* From the bind() that made the file to its removal.                      *)
Owning == {"permissions", "listen", "present", "serving", "joining", "unlink"}

(* Two hosts are claiming one path.                                        *)
Clash == \E h, g \in SimHost :
  h # g /\ server[h].pc \in Claiming /\ server[g].pc \in Claiming /\ server[h].dir = server[g].dir

(* Without a clash a file belongs to a host exactly while the host is      *)
(* between its bind() and its removal, and a host that has found a file    *)
(* stale removes one that no host owns.                                    *)
SocketInv ==
  /\ ~Clash
  /\ \A h \in SimHost : server[h].pc \in Owning => sock[Path(h)] = h /\ Path(h) \in dirs
  /\ \A h \in SimHost : \A d \in Dir : sock[d] = h => server[h].pc \in Owning /\ Path(h) = d
  /\ \A h \in SimHost : server[h].pc \in {"stat", "remove"} => sock[Path(h)] \notin SimHost

(* Threads serve the connections of a host that serves or joins them.      *)
ThreadInv == \A s \in DOMAIN session :
  session[s].at \in {"serving", "handling"} => server[session[s].host].pc \in {"serving", "joining"}

SimInv == SimTypes /\ ThreadInv /\ (~contended => SocketInv)

(* Min finds the least element of a nonempty set of natural numbers.       *)
LEMMA LeastIs ==
  ASSUME NEW T, T \subseteq Nat, T # {}
  PROVE  Min(T) \in T /\ \A y \in T : Min(T) <= y
<1> DEFINE R == OpToRel(<, Nat)
<1>1. IsWellFoundedOn(R, Nat)
  BY NatLessThanWellFounded, Zenon
<1>2. \A x, y \in Nat : y < x => <<y, x>> \in R
  BY DEF OpToRel
<1> HIDE DEF R
<1>3. PICK x \in T : \A y \in T : ~(<<y, x>> \in R)
  BY <1>1, WFMin
<1>4. \A y \in T : x <= y
  <2>1. \A y \in T : ~(y < x) /\ y \in Nat /\ x \in Nat
    BY <1>2, <1>3
  <2> QED
    BY <2>1
<1> QED
  BY <1>4 DEF Min

Labels == {"off", "allocate", "mkdirs"} \cup Claiming \cup Listening

(* A host moves on, and the watcher looks.                                 *)
LEMMA GotoEffect ==
  ASSUME SimTypes, NEW h \in SimHost, NEW l \in Labels, Goto(h, l)
  PROVE  /\ server' \in [SimHost -> SimServer]
         /\ server'[h].pc = l /\ server'[h].dir = server[h].dir
         /\ \A g \in SimHost : g # h => server'[g] = server[g]
         /\ contended' \in BOOLEAN
         /\ ~contended' => ~contended /\ ~Clash'
<1>1. server' = [server EXCEPT ![h] = [server[h] EXCEPT !.pc = l]]
  BY DEF Goto, SimTypes, SimServer
<1>2. server[h] \in SimServer /\ [server[h] EXCEPT !.pc = l] \in SimServer
  BY DEF SimTypes, SimServer, Labels
<1>3. /\ server' \in [SimHost -> SimServer]
      /\ server'[h].pc = l /\ server'[h].dir = server[h].dir
      /\ \A g \in SimHost : g # h => server'[g] = server[g]
  BY <1>1, <1>2 DEF SimTypes, SimServer
<1>4. contended' = (contended \/ Clash')
  BY DEF Goto, Watch, Clash
<1> QED
  BY <1>3, <1>4 DEF SimTypes

(* A clash is a matter of the labels and the paths.                        *)
LEMMA ClashSame ==
  ASSUME \A g \in SimHost : server'[g].pc = server[g].pc /\ server'[g].dir = server[g].dir
  PROVE  Clash' <=> Clash
BY DEF Clash

(* What a step of a host does to its own file and directory: a file that   *)
(* belongs to another host stays.                                          *)
LEMMA SocketKept ==
  ASSUME SimTypes, SimTypes', SocketInv, ~Clash', NEW h \in SimHost,
         \A g \in SimHost : g # h => server'[g].pc = server[g].pc /\ server'[g].dir = server[g].dir,
         \A d \in Dir : sock'[d] = sock[d] \/ sock'[d] \notin SimHost \/ (sock'[d] = h /\ sock[d] \notin SimHost),
         \A g \in SimHost : g # h /\ server[g].pc \in Owning => sock'[Path(g)] = g /\ Path(g) \in dirs',
         server'[h].pc \in Owning => sock'[server'[h].dir] = h /\ server'[h].dir \in dirs',
         \A d \in Dir : sock'[d] = h => server'[h].pc \in Owning /\ server'[h].dir = d,
         server'[h].pc \in {"stat", "remove"} => sock'[server'[h].dir] \notin SimHost,
         (\E d \in Dir : sock'[d] # sock[d] /\ sock'[d] = h) => server'[h].pc \in Claiming
  PROVE  SocketInv'
<1>1. \A g \in SimHost : server'[g].pc \in Owning => sock'[server'[g].dir] = g /\ server'[g].dir \in dirs'
  BY DEF Path
<1>2. \A g \in SimHost : \A d \in Dir : sock'[d] = g => server'[g].pc \in Owning /\ server'[g].dir = d
  <2> SUFFICES ASSUME NEW g \in SimHost, NEW d \in Dir, sock'[d] = g, g # h
               PROVE  server'[g].pc \in Owning /\ server'[g].dir = d
    OBVIOUS
  <2>1. sock[d] = g
    OBVIOUS
  <2> QED
    BY <2>1 DEF SocketInv, Path
<1>3. \A g \in SimHost : server'[g].pc \in {"stat", "remove"} => sock'[server'[g].dir] \notin SimHost
  <2> SUFFICES ASSUME NEW g \in SimHost, g # h, server[g].pc \in {"stat", "remove"},
                      sock'[server[g].dir] \in SimHost
               PROVE  FALSE
    OBVIOUS
  <2>1. server[g].dir \in Dir /\ sock[server[g].dir] \notin SimHost
    BY DEF SocketInv, Path, SimTypes, SimServer
  <2>2. sock'[server[g].dir] = h /\ sock'[server[g].dir] # sock[server[g].dir]
    BY <2>1
  <2>3. server'[h].pc \in Claiming /\ server'[h].dir = server[g].dir
    BY <2>1, <2>2
  <2>4. server'[g].pc \in Claiming /\ server'[g].dir = server[g].dir
    BY DEF Claiming
  <2> QED
    BY <2>3, <2>4 DEF Clash
<1> QED
  BY <1>1, <1>2, <1>3 DEF SocketInv, Path

(* Facts of the types that the steps below cite.                           *)
LEMMA SimTypeFacts ==
  ASSUME SimTypes
  PROVE  /\ \A h \in SimHost : server[h] \in SimServer /\ server[h].dir \in Dir
         /\ \A d \in Dir : sock[d] \in SimHost \cup {Nobody, Stale}
         /\ \A s \in DOMAIN session : session[s] \in SimConnection
         /\ Len(session) \in Nat /\ DOMAIN session = 1 .. Len(session)
BY DEF SimTypes, SimServer

(* The steps of a host that claims a path, and its removals.  They leave   *)
(* the device and the budget alone, and connections only come in.          *)
LEMMA ClaimTypes ==
  ASSUME SimTypes, NEW h \in SimHost, Claim(h)
  PROVE  SimTypes'
<1> USE SimTypeFacts
<1>1. CASE AllocateServerDirectory(h)
  <2>1. server' \in [SimHost -> SimServer] /\ contended' \in BOOLEAN
    <3>1. CASE Goto(h, "mkdirs")
      BY <3>1, GotoEffect DEF Labels
    <3>2. CASE Goto(h, "off")
      BY <3>2, GotoEffect DEF Labels
    <3>3. CASE Path(h) + 1 \in Dir /\ server' = [server EXCEPT ![h].dir = @ + 1] /\ Watch
      BY <3>3 DEF Path, SimTypes, SimServer, Watch
    <3> QED
      BY <1>1, <3>1, <3>2, <3>3 DEF AllocateServerDirectory
  <2> QED
    BY <1>1, <2>1 DEF AllocateServerDirectory, Quiet, SimTypes
<1>2. CASE CreateDirectories(h)
  <2>1. server' \in [SimHost -> SimServer] /\ contended' \in BOOLEAN
    BY <1>2, GotoEffect DEF CreateDirectories, Labels, Claiming
  <2> QED
    BY <1>2, <2>1 DEF CreateDirectories, Quiet, SimTypes
<1>3. CASE BindSocket(h)
  <2>1. PICK l \in {"permissions", "probe", "off"} : Goto(h, l)
    BY <1>3 DEF BindSocket
  <2>2. server' \in [SimHost -> SimServer] /\ contended' \in BOOLEAN
    BY <2>1, GotoEffect DEF Labels, Claiming
  <2>3. sock' \in [Dir -> SimHost \cup {Nobody, Stale}]
    BY <1>3 DEF BindSocket, SimTypes
  <2> QED
    BY <1>3, <2>2, <2>3 DEF BindSocket, Quiet, SimTypes
<1>4. CASE IsLive(h)
  <2>1. PICK l \in {"off", "stat"} : Goto(h, l)
    BY <1>4 DEF IsLive, CreateFails
  <2>2. server' \in [SimHost -> SimServer] /\ contended' \in BOOLEAN
    BY <2>1, GotoEffect DEF Labels, Claiming
  <2>3. sock' = sock
    BY <1>4 DEF IsLive, CreateFails
  <2>4. session' \in Seq(SimConnection)
    <3>1. ASSUME NEW g \in Reachable(Path(h)) PROVE Connection(Nobody, g, TRUE) \in SimConnection
      BY DEF Reachable, Connection, SimConnection, NoRequest, SimRequest
    <3>2. CASE \E g \in Reachable(Path(h)) : session' = Append(session, Connection(Nobody, g, TRUE))
      <4>1. PICK g \in Reachable(Path(h)) : session' = Append(session, Connection(Nobody, g, TRUE))
        BY <3>2
      <4>2. PICK r \in SimConnection : session' = Append(session, r)
        BY <3>1, <4>1
      <4> QED
        BY <4>2 DEF SimTypes
    <3>3. CASE session' = session
      BY <3>3 DEF SimTypes
    <3> QED
      BY <1>4, <3>2, <3>3 DEF IsLive
  <2> QED
    BY <1>4, <2>2, <2>3, <2>4 DEF IsLive, SimTypes
<1>5. CASE IsSocket(h) \/ Permissions(h)
  <2>1. PICK l \in {"remove", "off", "listen"} : Goto(h, l)
    BY <1>5 DEF IsSocket, Permissions
  <2>2. server' \in [SimHost -> SimServer] /\ contended' \in BOOLEAN
    BY <2>1, GotoEffect DEF Labels, Claiming
  <2> QED
    BY <1>5, <2>2 DEF IsSocket, Permissions, Quiet, SimTypes
<1>6. CASE RemoveStale(h) \/ Listen(h)
  <2>1. PICK l \in {"rebind", "present", "off"} : Goto(h, l)
    BY <1>6 DEF RemoveStale, Listen
  <2>2. server' \in [SimHost -> SimServer] /\ contended' \in BOOLEAN
    BY <2>1, GotoEffect DEF Labels, Claiming, Listening
  <2>3. sock' \in [Dir -> SimHost \cup {Nobody, Stale}]
    BY <1>6 DEF RemoveStale, Listen, SimTypes
  <2> QED
    BY <1>6, <2>2, <2>3 DEF RemoveStale, Listen, Quiet, SimTypes
<1>7. CASE StartBackend(h)
  <2>1. PICK l \in {"serving", "unlink"} : Goto(h, l)
    BY <1>7 DEF StartBackend
  <2>2. server' \in [SimHost -> SimServer] /\ contended' \in BOOLEAN
    BY <2>1, GotoEffect DEF Labels, Listening
  <2> QED
    BY <1>7, <2>2 DEF StartBackend, Quiet, SimTypes
<1> QED
  BY <1>1, <1>2, <1>3, <1>4, <1>5, <1>6, <1>7 DEF Claim

(* Connections change where they are and what they are told.               *)
LEMMA ConnectionChange ==
  ASSUME NEW r \in SimConnection, NEW l \in {"backlog", "serving", "handling", "finished", "reaped"}
  PROVE  /\ [r EXCEPT !.at = l] \in SimConnection
         /\ [r EXCEPT !.shut = TRUE] \in SimConnection
         /\ [r EXCEPT !.at = l, !.shut = TRUE] \in SimConnection
         /\ [r EXCEPT !.at = l].host = r.host /\ [r EXCEPT !.at = l].at = l
         /\ [r EXCEPT !.shut = TRUE].host = r.host /\ [r EXCEPT !.shut = TRUE].at = r.at
         /\ [r EXCEPT !.at = l, !.shut = TRUE].host = r.host /\ [r EXCEPT !.at = l, !.shut = TRUE].at = l
BY DEF SimConnection

LEMMA CutTypes ==
  ASSUME SimTypes, NEW h \in SimHost, NEW gone
  PROVE  Cut(h, gone) \in Seq(SimConnection) /\ Len(Cut(h, gone)) = Len(session)
<1>1. \A s \in 1 .. Len(session) : Cut(h, gone)[s] \in SimConnection
  BY SimTypeFacts, ConnectionChange DEF Cut
<1>2. Cut(h, gone) = [s \in 1 .. Len(session) |-> Cut(h, gone)[s]]
  BY SimTypeFacts DEF Cut
<1>3. Cut(h, gone) \in [1 .. Len(session) -> SimConnection]
  BY <1>1, <1>2
<1> QED
  BY <1>3, SimTypeFacts

LEMMA BudgetChange ==
  ASSUME NEW b \in SimBudget
  PROVE  /\ [b EXCEPT !.crashes = @ - 1] \in SimBudget
         /\ [b EXCEPT !.closes = @ - 1] \in SimBudget
         /\ \A h \in SimHost : [b EXCEPT !.starts[h] = @ - 1] \in SimBudget
         /\ \A c \in SimClient : b.calls[c] > 0 => [b EXCEPT !.calls[c] = @ - 1] \in SimBudget
BY DEF SimBudget

LEMMA TeardownTypes ==
  ASSUME SimTypes, NEW h \in SimHost, Teardown(h) \/ CrashHost(h)
  PROVE  SimTypes'
<1> USE SimTypeFacts
<1>1. CASE BeginStop(h)
  <2>1. server' \in [SimHost -> SimServer] /\ contended' \in BOOLEAN
    BY <1>1, GotoEffect DEF BeginStop, Labels, Listening
  <2>2. \A s \in 1 .. Len(session) : ShutConnections(h)[s] \in SimConnection
    BY ConnectionChange DEF ShutConnections
  <2>3. ShutConnections(h) \in [1 .. Len(session) -> SimConnection]
    BY <2>2 DEF ShutConnections
  <2>4. session' \in Seq(SimConnection)
    BY <1>1, <2>3 DEF BeginStop
  <2> QED
    BY <1>1, <2>1, <2>4 DEF BeginStop, SimTypes
<1>2. CASE JoinThreads(h) \/ RemoveSocket(h) \/ RemoveDirectory(h)
  <2>1. PICK l \in {"unlink", "rmdir", "close"} : Goto(h, l)
    BY <1>2 DEF JoinThreads, RemoveSocket, RemoveDirectory
  <2>2. server' \in [SimHost -> SimServer] /\ contended' \in BOOLEAN
    BY <2>1, GotoEffect DEF Labels, Listening
  <2>3. sock' \in [Dir -> SimHost \cup {Nobody, Stale}]
    BY <1>2 DEF JoinThreads, RemoveSocket, RemoveDirectory, SimTypes
  <2> QED
    BY <1>2, <2>2, <2>3 DEF JoinThreads, RemoveSocket, RemoveDirectory, Quiet, SimTypes
<1>3. CASE CloseAcceptor(h)
  <2>1. server' \in [SimHost -> SimServer] /\ contended' \in BOOLEAN
    BY <1>3, GotoEffect DEF CloseAcceptor, Labels
  <2> QED
    BY <1>3, <2>1, CutTypes DEF CloseAcceptor, SimTypes
<1>4. CASE CrashHost(h)
  <2>1. server' \in [SimHost -> SimServer] /\ contended' \in BOOLEAN
    BY <1>4, GotoEffect DEF CrashHost, Labels
  <2>2. sock' \in [Dir -> SimHost \cup {Nobody, Stale}]
    BY <1>4 DEF CrashHost, SimTypes
  <2>3. budget' \in SimBudget
    <3>1. budget \in SimBudget /\ budget' = [budget EXCEPT !.crashes = @ - 1]
      BY <1>4 DEF CrashHost, SimTypes
    <3> QED
      BY <3>1, BudgetChange
  <2> QED
    BY <1>4, <2>1, <2>2, <2>3, CutTypes DEF CrashHost, SimTypes
<1> QED
  BY <1>1, <1>2, <1>3, <1>4 DEF Teardown

(* A connection that is set to another keeps the sequence one.             *)
LEMMA SessionChange ==
  ASSUME SimTypes, NEW s \in DOMAIN session, NEW r \in SimConnection, session' = [session EXCEPT ![s] = r]
  PROVE  /\ session' \in Seq(SimConnection) /\ DOMAIN session' = DOMAIN session
         /\ session'[s] = r /\ \A i \in DOMAIN session : i # s => session'[i] = session[i]
<1>1. session \in [1 .. Len(session) -> SimConnection] /\ Len(session) \in Nat
  BY SimTypeFacts DEF SimTypes
<1>2. session' \in [1 .. Len(session) -> SimConnection]
  BY <1>1
<1> QED
  BY <1>1, <1>2

(* A connection that names no entry, or one that is changed in place.      *)
LEMMA SessionUpdate ==
  ASSUME SimTypes, NEW s, NEW r, s \in DOMAIN session => r \in SimConnection, session' = [session EXCEPT ![s] = r]
  PROVE  /\ session' \in Seq(SimConnection) /\ DOMAIN session' = DOMAIN session
         /\ \A i \in DOMAIN session : i # s => session'[i] = session[i]
         /\ s \in DOMAIN session => session'[s] = r
<1>1. CASE s \in DOMAIN session
  BY <1>1, SessionChange
<1>2. CASE s \notin DOMAIN session
  <2>1. session' = session
    BY <1>2, SimTypeFacts DEF SimTypes
  <2> QED
    BY <1>2, <2>1 DEF SimTypes
<1> QED
  BY <1>1, <1>2

(* What a client does to its connection leaves the connection where it is. *)
LEMMA ClientChange ==
  ASSUME NEW r \in SimConnection, NEW b \in BOOLEAN, NEW m \in SimRequest
  PROVE  /\ [r EXCEPT !.left = TRUE, !.replies = <<>>] \in SimConnection
         /\ [r EXCEPT !.reqs = Append(@, m)] \in SimConnection
         /\ r.replies # <<>> => [r EXCEPT !.replies = Tail(@), !.left = @ \/ b] \in SimConnection
         /\ [r EXCEPT !.late = TRUE, !.left = @ \/ b] \in SimConnection
<1>1. r.replies # <<>> => Tail(r.replies) \in Seq(SimReply)
  BY DEF SimConnection
<1>2. Append(r.reqs, m) \in Seq(SimRequest) /\ <<>> \in Seq(SimReply)
  BY DEF SimConnection
<1> QED
  BY <1>1, <1>2 DEF SimConnection

LEMMA ClientSession ==
  ASSUME NEW r \in SimConnection, NEW b \in BOOLEAN, NEW m \in SimRequest
  PROVE  /\ [r EXCEPT !.left = TRUE, !.replies = <<>>].at = r.at /\ [r EXCEPT !.left = TRUE, !.replies = <<>>].host = r.host
         /\ [r EXCEPT !.reqs = Append(@, m)].at = r.at /\ [r EXCEPT !.reqs = Append(@, m)].host = r.host
         /\ [r EXCEPT !.replies = Tail(@), !.left = @ \/ b].at = r.at /\ [r EXCEPT !.replies = Tail(@), !.left = @ \/ b].host = r.host
         /\ [r EXCEPT !.late = TRUE, !.left = @ \/ b].at = r.at /\ [r EXCEPT !.late = TRUE, !.left = @ \/ b].host = r.host
BY DEF SimConnection

ClientStep(c) == Discover(c) \/ Attach(c) \/ SendRequest(c) \/ AwaitReply(c) \/ Detach(c)

(* The steps of the clients: the hosts see a connection come in, or one of *)
(* theirs changed in place.                                                *)
SamePlaces ==
  /\ session' \in Seq(SimConnection) /\ DOMAIN session \subseteq DOMAIN session'
  /\ \A s \in DOMAIN session : session'[s].at = session[s].at /\ session'[s].host = session[s].host
  /\ \A s \in DOMAIN session' \ DOMAIN session : session'[s].at = "backlog"

LEMMA PlacesKept ==
  ASSUME SimTypes, NEW s, NEW r, session' = [session EXCEPT ![s] = r],
         s \in DOMAIN session => r \in SimConnection /\ r.at = session[s].at /\ r.host = session[s].host
  PROVE  SamePlaces
<1>1. /\ session' \in Seq(SimConnection) /\ DOMAIN session' = DOMAIN session
      /\ \A i \in DOMAIN session : i # s => session'[i] = session[i]
      /\ s \in DOMAIN session => session'[s] = r
  BY SessionUpdate
<1> QED
  BY <1>1 DEF SamePlaces

LEMMA PlacesSame ==
  ASSUME SimTypes, session' = session
  PROVE  SamePlaces
BY DEF SimTypes, SamePlaces

LEMMA PlacesGrow ==
  ASSUME SimTypes, NEW r \in SimConnection, r.at = "backlog", session' = Append(session, r)
  PROVE  SamePlaces
<1>1. session \in Seq(SimConnection)
  BY DEF SimTypes
<1>2. /\ session' \in Seq(SimConnection) /\ Len(session') = Len(session) + 1 /\ Len(session) \in Nat
      /\ \A s \in 1 .. Len(session) : session'[s] = session[s]
      /\ session'[Len(session) + 1] = r
  BY <1>1
<1>3. DOMAIN session = 1 .. Len(session) /\ DOMAIN session' = 1 .. Len(session) + 1
  BY <1>1, <1>2
<1> QED
  BY <1>2, <1>3 DEF SamePlaces

LEMMA ClientPlaces ==
  ASSUME SimTypes, NEW c \in SimClient, ClientStep(c)
  PROVE  SamePlaces /\ budget' \in SimBudget /\ UNCHANGED <<dirs, sock, server, device, contended>>
<1> DEFINE i == client[c].s
<1> USE SimTypeFacts
<1>0. i \in DOMAIN session => session[i] \in SimConnection
  OBVIOUS
<1>1. UNCHANGED <<dirs, sock, server, device, contended>>
  BY DEF ClientStep, Discover, Attach, SendRequest, AwaitReply, ReceiveReply, ReplyTimeout, PeerClosed, Detach, ClientOnly
<1>2. ASSUME session' = Dropped(c) PROVE SamePlaces
  <2>1. NoRequest \in SimRequest
    BY DEF NoRequest, SimRequest
  <2>2. session' = [session EXCEPT ![i] = [session[i] EXCEPT !.left = TRUE, !.replies = <<>>]]
    BY <1>2 DEF Dropped, SimTypes
  <2> HIDE DEF i
  <2> QED
    BY <1>0, <2>1, <2>2, PlacesKept, ClientChange, ClientSession
<1>3. ASSUME Throw(c) PROVE SamePlaces
  BY <1>2, <1>3, PlacesSame DEF Throw
<1>4. CASE Discover(c)
  BY <1>1, <1>4, PlacesSame DEF Discover, SimTypes
<1>5. CASE Attach(c)
  <2>1. ASSUME NEW g \in Reachable(client[c].dir), session' = Append(session, Connection(c, g, FALSE))
        PROVE  SamePlaces
    <3>1. Connection(c, g, FALSE) \in SimConnection /\ Connection(c, g, FALSE).at = "backlog"
      BY DEF Reachable, Connection, SimConnection, NoRequest, SimRequest
    <3>2. PICK r \in SimConnection : r.at = "backlog" /\ session' = Append(session, r)
      BY <2>1, <3>1
    <3> QED
      BY <3>2, PlacesGrow
  <2> QED
    BY <1>1, <1>5, <2>1, PlacesSame DEF Attach, SimTypes
<1>6. CASE SendRequest(c)
  <2>1. budget' \in SimBudget
    BY <1>6, BudgetChange DEF SendRequest, SimTypes
  <2>2. ASSUME NEW kind \in Kinds(c),
               session' = [session EXCEPT ![client[c].s].reqs = Append(@, [kind |-> kind, tag |-> budget.calls[c]])]
        PROVE  SamePlaces
    <3>1. budget.calls[c] \in Nat
      BY DEF SimTypes, SimBudget
    <3>2. [kind |-> kind, tag |-> budget.calls[c]] \in SimRequest
      BY <3>1 DEF Kinds, SimRequest
    <3>3. PICK m \in SimRequest : session' = [session EXCEPT ![i].reqs = Append(@, m)]
      BY <2>2, <3>2
    <3>4. session' = [session EXCEPT ![i] = [session[i] EXCEPT !.reqs = Append(@, m)]]
      BY <3>3
    <3> HIDE DEF i
    <3> QED
      BY <1>0, <3>4, PlacesKept, ClientChange, ClientSession
  <2>3. SamePlaces
    BY <1>3, <1>6, <2>2 DEF SendRequest
  <2> QED
    BY <1>1, <2>1, <2>3
<1>7. CASE ReceiveReply(c)
  <2>1. PICK b \in BOOLEAN : session' = [session EXCEPT ![i].replies = Tail(@), ![i].left = @ \/ b]
    BY <1>7 DEF ReceiveReply
  <2>2. session' = [session EXCEPT ![i] = [session[i] EXCEPT !.replies = Tail(@), !.left = @ \/ b]]
    BY <2>1, <1>0 DEF SimConnection, SimTypes
  <2>3. session[i].replies # <<>> /\ NoRequest \in SimRequest
    BY <1>7 DEF ReceiveReply, Session, NoRequest, SimRequest
  <2>4. SamePlaces
    <3> HIDE DEF i
    <3> QED
      BY <1>0, <2>2, <2>3, PlacesKept, ClientChange, ClientSession
  <2> QED
    BY <1>1, <1>7, <2>4 DEF ReceiveReply, SimTypes
<1>8. CASE ReplyTimeout(c)
  <2>1. session' = [session EXCEPT ![i].late = TRUE, ![i].left = @ \/ client[c].fresh]
    BY <1>8 DEF ReplyTimeout
  <2>2. PICK b \in BOOLEAN : b <=> client[c].fresh
    BY Zenon
  <2>3. session' = [session EXCEPT ![i] = [session[i] EXCEPT !.late = TRUE, !.left = @ \/ b]]
    <3>1. session' = [session EXCEPT ![i] = [session[i] EXCEPT !.late = TRUE, !.left = @ \/ client[c].fresh]]
      BY <2>1, <1>0 DEF SimConnection, SimTypes
    <3>2. [session[i] EXCEPT !.late = TRUE, !.left = @ \/ client[c].fresh] = [session[i] EXCEPT !.late = TRUE, !.left = @ \/ b]
      BY <2>2
    <3> QED
      BY <3>1, <3>2
  <2>5. NoRequest \in SimRequest
    BY DEF NoRequest, SimRequest
  <2>4. SamePlaces
    <3> HIDE DEF i
    <3> QED
      BY <1>0, <2>3, <2>5, PlacesKept, ClientChange, ClientSession, ZenonT(60)
  <2> QED
    BY <1>1, <1>8, <2>4 DEF ReplyTimeout, SimTypes
<1>9. CASE PeerClosed(c)
  BY <1>1, <1>3, <1>9 DEF PeerClosed, SimTypes
<1>10. CASE Detach(c)
  BY <1>1, <1>2, <1>10 DEF Detach, SimTypes
<1> QED
  BY <1>4, <1>5, <1>6, <1>7, <1>8, <1>9, <1>10 DEF ClientStep, AwaitReply

ServeStep(s) == RecvRequest(s) \/ HandleRequest(s)

(* A serving thread keeps its host and moves between reading, handling and *)
(* its end.                                                                *)
LEMMA ServePlaces ==
  ASSUME SimTypes, NEW s \in DOMAIN session, ServeStep(s)
  PROVE  /\ SimTypes' /\ UNCHANGED <<dirs, sock, contended>>
         /\ session[s].at \in {"serving", "handling"} /\ session'[s].host = session[s].host
         /\ DOMAIN session' = DOMAIN session /\ \A i \in DOMAIN session : i # s => session'[i] = session[i]
         /\ \A g \in SimHost : server'[g].pc = server[g].pc /\ server'[g].dir = server[g].dir
<1> USE SimTypeFacts
<1>0. session[s] \in SimConnection
  OBVIOUS
<1>1. CASE RecvRequest(s)
  <2>1. UNCHANGED <<dirs, sock, server, device, client, budget, contended>>
    BY <1>1 DEF RecvRequest
  <2>2. ASSUME session[s].reqs # <<>>,
               session' = [session EXCEPT ![s].at = "handling", ![s].req = Head(session[s].reqs), ![s].reqs = Tail(@)]
        PROVE  \E r \in SimConnection : r.host = session[s].host /\ session' = [session EXCEPT ![s] = r]
    <3>1. session[s].reqs \in Seq(SimRequest)
      BY <1>0 DEF SimConnection
    <3>2. Head(session[s].reqs) \in SimRequest /\ Tail(session[s].reqs) \in Seq(SimRequest)
      BY <2>2, <3>1
    <3> DEFINE r == [session[s] EXCEPT !.at = "handling", !.req = Head(session[s].reqs), !.reqs = Tail(@)]
    <3>3. r \in SimConnection /\ r.host = session[s].host
      BY <1>0, <3>2 DEF SimConnection
    <3>4. session' = [session EXCEPT ![s] = r]
      BY <2>2, <1>0 DEF SimConnection
    <3> HIDE DEF r
    <3> QED
      BY <3>3, <3>4
  <2>3. ASSUME session' = [session EXCEPT ![s].at = "finished"]
        PROVE  \E r \in SimConnection : r.host = session[s].host /\ session' = [session EXCEPT ![s] = r]
    <3> DEFINE r == [session[s] EXCEPT !.at = "finished"]
    <3>3. r \in SimConnection /\ r.host = session[s].host
      BY <1>0 DEF SimConnection
    <3>4. session' = [session EXCEPT ![s] = r]
      BY <2>3, <1>0 DEF SimConnection
    <3> HIDE DEF r
    <3> QED
      BY <3>3, <3>4
  <2>4. PICK r \in SimConnection : r.host = session[s].host /\ session' = [session EXCEPT ![s] = r]
    BY <1>1, <2>2, <2>3 DEF RecvRequest
  <2>5. /\ session' \in Seq(SimConnection) /\ DOMAIN session' = DOMAIN session
        /\ session'[s] = r /\ \A i \in DOMAIN session : i # s => session'[i] = session[i]
    BY <2>4, SessionChange
  <2>6. session[s].at = "serving"
    BY <1>1 DEF RecvRequest
  <2> QED
    BY <2>1, <2>4, <2>5, <2>6 DEF SimTypes
<1>2. CASE HandleRequest(s)
  <2> DEFINE h == session[s].host
             r == session[s].req
  <2>1. UNCHANGED <<dirs, sock, client, budget, contended>> /\ session[s].at = "handling"
    BY <1>2 DEF HandleRequest
  <2>2. h \in SimHost /\ r \in SimRequest /\ session[s].client \in SimClient \cup {Nobody}
    BY <1>0 DEF SimConnection
  <2>3. PICK ok \in BOOLEAN :
          /\ session' = Replied(s, Answer(h, r, ok))
          /\ device' = [device EXCEPT ![h].log = IF Performed(h, r, ok) THEN Append(@, [client |-> session[s].client, tag |-> r.tag]) ELSE @]
    BY <1>2 DEF HandleRequest
  <2>4. device[h].log \in Seq([client : SimClient \cup {Nobody}, tag : Nat]) /\ device[h].closed \in BOOLEAN
    BY <2>2 DEF SimTypes
  <2>5. Answer(h, r, ok) \in SimReply
    <3>1. Len(device[h].log) \in Nat
      BY <2>4
    <3>2. r.tag \in Nat
      BY <2>2 DEF SimRequest
    <3> DEFINE n == IF device[h].closed THEN 0 ELSE Len(device[h].log) + (IF Performed(h, r, ok) THEN 1 ELSE 0)
    <3>3. n \in Nat
      <4> DEFINE one == IF Performed(h, r, ok) THEN 1 ELSE 0
      <4>1. one \in {0, 1}
        OBVIOUS
      <4>2. n = 0 \/ n = Len(device[h].log) + one
        BY <2>4
      <4> HIDE DEF one, n
      <4> QED
        BY <3>1, <4>1, <4>2
    <3>4. Answer(h, r, ok) = [tag |-> r.tag, ok |-> ok, data |-> n]
      BY DEF Answer
    <3> HIDE DEF h, r, n
    <3> QED
      BY <3>2, <3>3, <3>4 DEF SimReply
  <2>6. PICK a \in SimReply : session' = Replied(s, a)
    BY <2>3, <2>5
  <2>7. ASSUME session' = [session EXCEPT ![s].at = "finished", ![s].req = NoRequest]
        PROVE  \E q \in SimConnection : q.host = session[s].host /\ session' = [session EXCEPT ![s] = q]
    <3> DEFINE q == [session[s] EXCEPT !.at = "finished", !.req = NoRequest]
    <3>1. q \in SimConnection /\ q.host = session[s].host
      BY <1>0 DEF SimConnection, NoRequest, SimRequest
    <3>2. session' = [session EXCEPT ![s] = q]
      BY <2>7, <1>0 DEF SimConnection
    <3> HIDE DEF q
    <3> QED
      BY <3>1, <3>2
  <2>8. ASSUME session' = [session EXCEPT ![s].at = "serving", ![s].req = NoRequest, ![s].replies = Append(@, a)]
        PROVE  \E q \in SimConnection : q.host = session[s].host /\ session' = [session EXCEPT ![s] = q]
    <3> DEFINE q == [session[s] EXCEPT !.at = "serving", !.req = NoRequest, !.replies = Append(@, a)]
    <3>0. NoRequest \in SimRequest /\ Append(session[s].replies, a) \in Seq(SimReply)
      BY <1>0 DEF SimConnection, NoRequest, SimRequest
    <3>1. q \in SimConnection /\ q.host = session[s].host
      BY <1>0, <3>0 DEF SimConnection
    <3>2. session' = [session EXCEPT ![s] = q]
      BY <2>8, <1>0 DEF SimConnection
    <3> HIDE DEF q
    <3> QED
      BY <3>1, <3>2
  <2>9. PICK q \in SimConnection : q.host = session[s].host /\ session' = [session EXCEPT ![s] = q]
    BY <2>6, <2>7, <2>8 DEF Replied
  <2>10. /\ session' \in Seq(SimConnection) /\ DOMAIN session' = DOMAIN session
         /\ session'[s] = q /\ \A i \in DOMAIN session : i # s => session'[i] = session[i]
    BY <2>9, SessionChange
  <2>11. device' \in [SimHost -> [log : Seq([client : SimClient \cup {Nobody}, tag : Nat]), closed : BOOLEAN]]
    <3>1. [client |-> session[s].client, tag |-> r.tag] \in [client : SimClient \cup {Nobody}, tag : Nat]
      BY <2>2 DEF SimRequest
    <3>2. PICK e \in [client : SimClient \cup {Nobody}, tag : Nat] :
            device' = [device EXCEPT ![h].log = IF Performed(h, r, ok) THEN Append(@, e) ELSE @]
      BY <2>3, <3>1
    <3>3. Append(device[h].log, e) \in Seq([client : SimClient \cup {Nobody}, tag : Nat])
      BY <2>4
    <3> QED
      BY <2>2, <3>2, <3>3, ZenonT(60) DEF SimTypes
  <2>12. PICK b \in BOOLEAN : server' = [server EXCEPT ![h].stop = @ \/ b]
    BY <1>2 DEF HandleRequest
  <2>13. /\ server' \in [SimHost -> SimServer]
         /\ \A g \in SimHost : server'[g].pc = server[g].pc /\ server'[g].dir = server[g].dir
    <3>1. server[h] \in SimServer /\ server \in [SimHost -> SimServer]
      BY <2>2 DEF SimTypes
    <3> DEFINE w == [server[h] EXCEPT !.stop = @ \/ b]
    <3>2. w \in SimServer /\ w.pc = server[h].pc /\ w.dir = server[h].dir
      BY <3>1 DEF SimServer
    <3>3. server' = [server EXCEPT ![h] = w]
      BY <2>12, <3>1
    <3> HIDE DEF h, w
    <3> QED
      BY <2>2, <3>1, <3>2, <3>3
  <2> QED
    BY <2>1, <2>9, <2>10, <2>11, <2>13 DEF SimTypes
<1> QED
  BY <1>1, <1>2 DEF ServeStep

(* A host accepts: the oldest waiting connection gets a thread, or is      *)
(* dropped by a host that stops.                                           *)
LEMMA AcceptPlaces ==
  ASSUME SimTypes, NEW h \in SimHost, DoAccept(h)
  PROVE  /\ SimTypes' /\ UNCHANGED <<dirs, sock, server, contended>>
         /\ DOMAIN session' = DOMAIN session
         /\ \A i \in DOMAIN session :
              /\ session'[i].host = session[i].host
              /\ session'[i].at \in {"serving", "handling"} /\ session'[i].at # session[i].at =>
                   session[i].host = h /\ server[h].pc = "serving"
<1> USE SimTypeFacts
<1> DEFINE s == Min(BacklogOf(h))
<1>1. UNCHANGED <<dirs, sock, server, device, client, budget, contended>>
  BY DEF DoAccept
<1>2. ASSUME At(h, "serving"),
             session' = [r \in DOMAIN session |->
               IF r = s THEN [session[r] EXCEPT !.at = "serving"]
               ELSE IF r \in FinishedOf(h) THEN [session[r] EXCEPT !.at = "reaped"] ELSE session[r]],
             s \in BacklogOf(h)
      PROVE  /\ session' \in Seq(SimConnection) /\ DOMAIN session' = DOMAIN session
             /\ \A i \in DOMAIN session :
                  /\ session'[i].host = session[i].host
                  /\ session'[i].at \in {"serving", "handling"} /\ session'[i].at # session[i].at =>
                       session[i].host = h /\ server[h].pc = "serving"
  <2> HIDE DEF s
  <2>1. \A i \in 1 .. Len(session) : session'[i] \in SimConnection /\ session'[i].host = session[i].host
    <3> SUFFICES ASSUME NEW i \in 1 .. Len(session)
                 PROVE  session'[i] \in SimConnection /\ session'[i].host = session[i].host
      OBVIOUS
    <3>1. session[i] \in SimConnection
      OBVIOUS
    <3>2. CASE i = s
      <4>1. session'[i] = [session[i] EXCEPT !.at = "serving"]
        BY <1>2, <3>2
      <4> QED
        BY ONLY <3>1, <4>1 DEF SimConnection
    <3>3. CASE i # s /\ i \in FinishedOf(h)
      <4>1. session'[i] = [session[i] EXCEPT !.at = "reaped"]
        BY <1>2, <3>3
      <4> QED
        BY ONLY <3>1, <4>1 DEF SimConnection
    <3>4. CASE i # s /\ i \notin FinishedOf(h)
      BY <1>2, <3>1, <3>4
    <3> QED
      BY <3>2, <3>3, <3>4
  <2>2. DOMAIN session' = 1 .. Len(session) /\ session' \in [1 .. Len(session) -> SimConnection]
    BY <1>2, <2>1
  <2>3. \A i \in DOMAIN session : session'[i].at \in {"serving", "handling"} /\ session'[i].at # session[i].at => i = s
    <3> SUFFICES ASSUME NEW i \in DOMAIN session, i # s, session'[i].at # session[i].at
                 PROVE  session'[i].at = "reaped"
      OBVIOUS
    <3>1. session'[i] = [session[i] EXCEPT !.at = "reaped"] /\ session[i] \in SimConnection
      BY <1>2
    <3> QED
      BY <3>1 DEF SimConnection
  <2> QED
    BY <1>2, <2>1, <2>2, <2>3 DEF BacklogOf, At
<1>3. ASSUME session' = [session EXCEPT ![s].at = "reaped", ![s].shut = TRUE]
      PROVE  /\ session' \in Seq(SimConnection) /\ DOMAIN session' = DOMAIN session
             /\ \A i \in DOMAIN session : session'[i].host = session[i].host /\ (session'[i].at = session[i].at \/ session'[i].at = "reaped")
  <2> DEFINE r == [session[s] EXCEPT !.at = "reaped", !.shut = TRUE]
  <2>1. session' = [session EXCEPT ![s] = r]
    BY <1>3 DEF SimConnection
  <2>2. s \in DOMAIN session => r \in SimConnection /\ r.host = session[s].host /\ r.at = "reaped"
    BY ConnectionChange
  <2> HIDE DEF s, r
  <2>3. /\ session' \in Seq(SimConnection) /\ DOMAIN session' = DOMAIN session
        /\ \A i \in DOMAIN session : i # s => session'[i] = session[i]
        /\ s \in DOMAIN session => session'[s] = r
    BY <2>1, <2>2, SessionUpdate
  <2> QED
    BY <2>2, <2>3
<1>4. BacklogOf(h) # {} => s \in BacklogOf(h)
  <2>1. BacklogOf(h) \subseteq Nat
    BY DEF BacklogOf
  <2> QED
    BY <2>1, LeastIs
<1> QED
  BY <1>1, <1>2, <1>3, <1>4 DEF DoAccept, SimTypes

LEMMA HostTypes ==
  ASSUME SimTypes, NEW h \in SimHost, StartHost(h) \/ CloseHostDevice(h) \/ Interrupt(h)
  PROVE  SimTypes'
<1> USE SimTypeFacts
<1>1. CASE StartHost(h)
  <2>1. PICK plan \in budget.plans : server' = [server EXCEPT ![h] = plan]
    BY <1>1 DEF StartHost
  <2>2. plan \in SimServer
    BY DEF SimTypes, SimBudget, SimPlans, SimServer
  <2>3. budget' \in SimBudget
    BY <1>1, BudgetChange DEF StartHost, SimTypes
  <2> QED
    <3>1. server' \in [SimHost -> SimServer] /\ contended' \in BOOLEAN
      BY <1>1, <2>1, <2>2 DEF StartHost, Watch, SimTypes
    <3>2. device' \in [SimHost -> [log : Seq([client : SimClient \cup {Nobody}, tag : Nat]), closed : BOOLEAN]]
      <4> DEFINE D == [log : Seq([client : SimClient \cup {Nobody}, tag : Nat]), closed : BOOLEAN]
      <4>1. [log |-> <<>>, closed |-> FALSE] \in D
        OBVIOUS
      <4>2. PICK d \in D : device' = [device EXCEPT ![h] = d]
        BY <1>1, <4>1 DEF StartHost
      <4>3. device \in [SimHost -> D]
        BY DEF SimTypes
      <4> HIDE DEF D
      <4>4. device' \in [SimHost -> D]
        BY <4>2, <4>3
      <4> QED
        BY <4>4 DEF D
    <3> QED
      BY <1>1, <2>3, <3>1, <3>2 DEF StartHost, SimTypes
<1>2. CASE CloseHostDevice(h)
  <2>1. budget' \in SimBudget
    BY <1>2, BudgetChange DEF CloseHostDevice, SimTypes
  <2> QED
    BY <1>2, <2>1 DEF CloseHostDevice, SimTypes
<1>3. CASE Interrupt(h)
  BY <1>3 DEF Interrupt, SimTypes, SimServer
<1> QED
  BY <1>1, <1>2, <1>3

(* The host steps other than accepting and the connections they leave      *)
(* served.                                                                 *)
LEMMA ThreadStep ==
  ASSUME SimTypes, SimTypes', ThreadInv, NEW h \in SimHost,
         \A g \in SimHost : g # h => server'[g].pc = server[g].pc,
         DOMAIN session \subseteq DOMAIN session',
         \A s \in DOMAIN session' \ DOMAIN session : session'[s].at = "backlog",
         \A s \in DOMAIN session : session'[s].host = session[s].host /\
           (session'[s].at \in {"serving", "handling"} => session'[s].at = session[s].at),
         \/ server'[h].pc \in {"serving", "joining"}
         \/ server[h].pc \notin {"serving", "joining"}
         \/ \A s \in DOMAIN session : session[s].host = h => session'[s].at \notin {"serving", "handling"}
  PROVE  ThreadInv'
<1> SUFFICES ASSUME NEW s \in DOMAIN session', session'[s].at \in {"serving", "handling"}
             PROVE  server'[session'[s].host].pc \in {"serving", "joining"}
  BY DEF ThreadInv
<1>1. s \in DOMAIN session /\ session'[s].host = session[s].host /\ session[s].at \in {"serving", "handling"}
  OBVIOUS
<1>2. server[session[s].host].pc \in {"serving", "joining"} /\ session[s].host \in SimHost
  BY <1>1, SimTypeFacts DEF ThreadInv, SimConnection
<1> QED
  BY <1>1, <1>2

LEMMA CutPlaces ==
  ASSUME SimTypes, NEW h \in SimHost, NEW gone, session' = Cut(h, gone)
  PROVE  /\ DOMAIN session' = DOMAIN session
         /\ \A s \in DOMAIN session :
              /\ session'[s].host = session[s].host
              /\ session'[s].at = session[s].at \/ session'[s].at = "reaped"
              /\ session[s].host = h /\ session[s].at \in gone => session'[s].at = "reaped"
<1> SUFFICES ASSUME NEW s \in DOMAIN session
             PROVE  /\ session'[s].host = session[s].host
                    /\ session'[s].at = session[s].at \/ session'[s].at = "reaped"
                    /\ session[s].host = h /\ session[s].at \in gone => session'[s].at = "reaped"
  BY DEF Cut
<1>1. session[s] \in SimConnection
  BY SimTypeFacts
<1>2. CASE session[s].host = h /\ session[s].at \in gone
  <2>1. session'[s] = [session[s] EXCEPT !.at = "reaped", !.shut = TRUE]
    BY <1>2 DEF Cut
  <2> QED
    BY ONLY <1>1, <2>1 DEF SimConnection
<1>3. CASE ~(session[s].host = h /\ session[s].at \in gone)
  BY <1>3 DEF Cut
<1> QED
  BY <1>2, <1>3

HostStep(h) ==
  StartHost(h) \/ Claim(h) \/ DoAccept(h) \/ CloseHostDevice(h) \/ Interrupt(h) \/ Teardown(h) \/ CrashHost(h)

LEMMA HostStepTypes ==
  ASSUME SimTypes, NEW h \in SimHost, HostStep(h)
  PROVE  SimTypes'
BY HostTypes, ClaimTypes, AcceptPlaces, TeardownTypes DEF HostStep

(* A host that stops serving has no connection served: it has joined the   *)
(* threads, or died with them.                                             *)
LEMMA HostThreads ==
  ASSUME SimTypes, SimTypes', ThreadInv, NEW h \in SimHost, HostStep(h)
  PROVE  ThreadInv'
<1> USE SimTypeFacts
<1>0. \A s \in DOMAIN session : session[s] \in SimConnection
  OBVIOUS
<1>1. CASE StartHost(h) \/ CloseHostDevice(h) \/ Interrupt(h)
  <2>1. session' = session /\ \A g \in SimHost : g # h => server'[g].pc = server[g].pc
    BY <1>1 DEF StartHost, CloseHostDevice, Interrupt, SimTypes
  <2>2. server[h].pc = "off" \/ (server[h].pc = "serving" /\ server'[h].pc = "serving")
    BY <1>1 DEF StartHost, CloseHostDevice, Interrupt, At, SimTypes, SimServer
  <2> QED
    BY <2>1, <2>2, ThreadStep
<1>2. CASE Claim(h)
  <2>1. PICK l \in Labels : server[h].pc \notin {"serving", "joining"} /\ \A g \in SimHost : g # h => server'[g].pc = server[g].pc
    BY <1>2 DEF Claim, AllocateServerDirectory, CreateDirectories, BindSocket, IsLive, CreateFails, IsSocket, RemoveStale,
                Permissions, Listen, StartBackend, Goto, At, SimTypes, Labels
  <2>2. SamePlaces
    <3>1. CASE IsLive(h)
      <4>1. ASSUME NEW g \in Reachable(Path(h)), session' = Append(session, Connection(Nobody, g, TRUE))
            PROVE  SamePlaces
        <5>1. Connection(Nobody, g, TRUE) \in SimConnection /\ Connection(Nobody, g, TRUE).at = "backlog"
          BY DEF Reachable, Connection, SimConnection, NoRequest, SimRequest
        <5>2. PICK r \in SimConnection : r.at = "backlog" /\ session' = Append(session, r)
          BY <4>1, <5>1
        <5> QED
          BY <5>2, PlacesGrow
      <4> QED
        BY <3>1, <4>1, PlacesSame DEF IsLive
    <3>2. CASE ~IsLive(h)
      <4>1. session' = session
        BY <1>2, <3>2 DEF Claim, AllocateServerDirectory, CreateDirectories, BindSocket, IsSocket, RemoveStale,
                          Permissions, Listen, StartBackend, Quiet
      <4> QED
        BY <4>1, PlacesSame
    <3> QED
      BY <3>1, <3>2
  <2> QED
    BY <2>1, <2>2, ThreadStep DEF SamePlaces
<1>3. CASE DoAccept(h)
  <2>1. /\ server' = server /\ DOMAIN session' = DOMAIN session
        /\ \A i \in DOMAIN session :
             /\ session'[i].host = session[i].host
             /\ session'[i].at \in {"serving", "handling"} /\ session'[i].at # session[i].at =>
                  session[i].host = h /\ server[h].pc = "serving"
    BY <1>3, AcceptPlaces
  <2> QED
    BY <2>1 DEF ThreadInv
<1>4. CASE BeginStop(h)
  <2>1. \A s \in DOMAIN session : session'[s].host = session[s].host /\ session'[s].at = session[s].at
    <3> SUFFICES ASSUME NEW s \in DOMAIN session
                 PROVE  session'[s].host = session[s].host /\ session'[s].at = session[s].at
      OBVIOUS
    <3>1. session'[s] = session[s] \/ session'[s] = [session[s] EXCEPT !.shut = TRUE]
      BY <1>4 DEF BeginStop, ShutConnections
    <3>2. session[s] \in SimConnection
      OBVIOUS
    <3> QED
      BY ONLY <3>1, <3>2 DEF SimConnection
  <2>2. DOMAIN session' = DOMAIN session
    BY <1>4 DEF BeginStop, ShutConnections
  <2>3. server'[h].pc = "joining" /\ \A g \in SimHost : g # h => server'[g].pc = server[g].pc
    BY <1>4 DEF BeginStop, Goto, SimTypes, SimServer
  <2> QED
    BY <2>1, <2>2, <2>3, ThreadStep
<1>5. CASE JoinThreads(h)
  <2>1. session' = session /\ \A g \in SimHost : g # h => server'[g].pc = server[g].pc
    BY <1>5 DEF JoinThreads, Quiet, Goto, SimTypes
  <2>2. \A s \in DOMAIN session : session[s].host = h => session[s].at \notin {"serving", "handling"}
    BY <1>5 DEF JoinThreads, ServedBy
  <2> QED
    BY <2>1, <2>2, ThreadStep
<1>6. CASE RemoveSocket(h) \/ RemoveDirectory(h)
  <2>1. session' = session /\ \A g \in SimHost : g # h => server'[g].pc = server[g].pc
    BY <1>6 DEF RemoveSocket, RemoveDirectory, Quiet, Goto, SimTypes
  <2>2. server[h].pc \notin {"serving", "joining"}
    BY <1>6 DEF RemoveSocket, RemoveDirectory, At
  <2> QED
    BY <2>1, <2>2, ThreadStep
<1>7. CASE CloseAcceptor(h)
  <2>1. server[h].pc \notin {"serving", "joining"} /\ \A g \in SimHost : g # h => server'[g].pc = server[g].pc
    BY <1>7 DEF CloseAcceptor, At, Goto, SimTypes
  <2>2. /\ DOMAIN session' = DOMAIN session
        /\ \A s \in DOMAIN session : session'[s].host = session[s].host /\ (session'[s].at = session[s].at \/ session'[s].at = "reaped")
    BY <1>7, CutPlaces DEF CloseAcceptor
  <2> QED
    BY <2>1, <2>2, ThreadStep
<1>8. CASE CrashHost(h)
  <2>1. \A g \in SimHost : g # h => server'[g].pc = server[g].pc
    BY <1>8 DEF CrashHost, Goto, SimTypes
  <2>2. session' = Cut(h, {"backlog", "serving", "handling", "finished"})
    BY <1>8 DEF CrashHost
  <2>3. /\ DOMAIN session' = DOMAIN session
        /\ \A s \in DOMAIN session :
             /\ session'[s].host = session[s].host
             /\ session'[s].at = session[s].at \/ session'[s].at = "reaped"
             /\ session[s].host = h /\ session[s].at \in {"backlog", "serving", "handling", "finished"} => session'[s].at = "reaped"
    BY <2>2, CutPlaces
  <2>4. \A s \in DOMAIN session : session[s].host = h => session'[s].at \notin {"serving", "handling"}
    BY <2>3
  <2> QED
    BY <2>1, <2>3, <2>4, ThreadStep
<1> QED
  BY <1>1, <1>2, <1>3, <1>4, <1>5, <1>6, <1>7, <1>8 DEF HostStep, Teardown

(* Steps that move no host and touch no file.                              *)
LEMMA SocketSame ==
  ASSUME SocketInv, UNCHANGED <<dirs, sock>>,
         \A g \in SimHost : server'[g].pc = server[g].pc /\ server'[g].dir = server[g].dir
  PROVE  SocketInv'
<1>1. ~Clash'
  BY ClashSame DEF SocketInv
<1> QED
  BY <1>1 DEF SocketInv, Path

(* Steps of h that leave the files alone, and its directory for the hosts  *)
(* that own one.                                                           *)
LEMMA SocketIdle ==
  ASSUME SimTypes, SimTypes', SocketInv, ~Clash', NEW h \in SimHost, sock' = sock, dirs \subseteq dirs',
         \A g \in SimHost : g # h => server'[g] = server[g],
         server'[h].pc \in Owning <=> server[h].pc \in Owning,
         server'[h].pc \in Owning => server'[h].dir = server[h].dir,
         server'[h].pc \in {"stat", "remove"} => sock[server'[h].dir] \notin SimHost
  PROVE  SocketInv'
<1>1. \A d \in Dir : sock'[d] = h => server'[h].pc \in Owning /\ server'[h].dir = d
  BY DEF SocketInv, Path
<1>2. server'[h].pc \in Owning => sock'[server'[h].dir] = h /\ server'[h].dir \in dirs'
  BY DEF SocketInv, Path
<1>3. \A g \in SimHost : g # h /\ server[g].pc \in Owning => sock'[Path(g)] = g /\ Path(g) \in dirs'
  BY DEF SocketInv
<1> QED
  BY <1>1, <1>2, <1>3, SocketKept

(* h removes the file of its path, which no other host owns.               *)
LEMMA SocketRemoved ==
  ASSUME SimTypes, SimTypes', SocketInv, ~Clash', NEW h \in SimHost, dirs' = dirs,
         sock' = [sock EXCEPT ![Path(h)] = Nobody],
         \A g \in SimHost : g # h => server'[g] = server[g],
         server[h].pc \in Owning \/ sock[Path(h)] \notin SimHost,
         server'[h].pc \notin Owning \cup {"stat", "remove"}
  PROVE  SocketInv'
<1>0. Path(h) \in Dir /\ sock \in [Dir -> SimHost \cup {Nobody, Stale}] /\ Nobody \notin SimHost
  BY SimTypeFacts, SimBounds DEF Path, SimTypes
<1>1. \A d \in Dir : sock'[d] = h => FALSE
  <2> SUFFICES ASSUME NEW d \in Dir, sock'[d] = h PROVE FALSE
    OBVIOUS
  <2>1. sock[d] = h /\ d # Path(h)
    BY <1>0
  <2> QED
    BY <2>1 DEF SocketInv
<1>2. \A g \in SimHost : g # h /\ server[g].pc \in Owning => sock'[Path(g)] = g /\ Path(g) \in dirs'
  <2> SUFFICES ASSUME NEW g \in SimHost, g # h, server[g].pc \in Owning
               PROVE  sock'[Path(g)] = g /\ Path(g) \in dirs'
    OBVIOUS
  <2>1. sock[Path(g)] = g /\ Path(g) \in dirs /\ Path(g) \in Dir
    BY SimTypeFacts DEF SocketInv, Path
  <2>2. Path(g) # Path(h)
    BY <2>1 DEF SocketInv
  <2> QED
    BY <1>0, <2>1, <2>2
<1>3. \A d \in Dir : sock'[d] = sock[d] \/ sock'[d] \notin SimHost
  BY <1>0
<1> QED
  BY <1>1, <1>2, <1>3, SocketKept

LEMMA HostSockets ==
  ASSUME SimTypes, SimTypes', SocketInv, NEW h \in SimHost, HostStep(h), ~contended'
  PROVE  SocketInv'
<1> USE SimTypeFacts
<1> DEFINE Moved(l) ==
       /\ server'[h].pc = l /\ server'[h].dir = server[h].dir
       /\ \A g \in SimHost : g # h => server'[g] = server[g]
       /\ ~Clash'
<1>0. ASSUME NEW l \in Labels, Goto(h, l) PROVE Moved(l)
  BY <1>0, GotoEffect
<1>01. Labels = {"off", "allocate", "mkdirs", "bind", "probe", "stat", "remove", "rebind", "permissions", "listen",
                 "present", "serving", "joining", "unlink", "rmdir", "close"}
  BY DEF Labels, Claiming, Listening
<1> HIDE DEF Moved
<1>1. CASE StartHost(h)
  <2>1. PICK plan \in budget.plans : server' = [server EXCEPT ![h] = plan]
    BY <1>1 DEF StartHost
  <2>2. plan.pc \in {"allocate", "mkdirs"}
    BY DEF SimTypes, SimBudget, SimPlans
  <2>3. server'[h].pc \in {"allocate", "mkdirs"} /\ \A g \in SimHost : g # h => server'[g] = server[g]
    BY <2>1, <2>2 DEF SimTypes
  <2>4. ~Clash' /\ server[h].pc = "off" /\ sock' = sock /\ dirs' = dirs
    BY <1>1 DEF StartHost, Watch, Clash, At
  <2> QED
    BY <2>3, <2>4, SocketIdle DEF Owning
<1>2. CASE AllocateServerDirectory(h)
  <2>1. server'[h].pc \in {"allocate", "mkdirs", "off"} /\ (\A g \in SimHost : g # h => server'[g] = server[g]) /\ ~Clash'
    <3>1. CASE Goto(h, "mkdirs") \/ Goto(h, "off")
      BY <1>0, <1>01, <3>1 DEF Moved
    <3>2. CASE server' = [server EXCEPT ![h].dir = @ + 1] /\ Watch
      BY <1>2, <3>2, ZenonT(60) DEF AllocateServerDirectory, Watch, Clash, At, SimTypes, SimServer
    <3> QED
      BY <1>2, <3>1, <3>2 DEF AllocateServerDirectory
  <2>2. server[h].pc = "allocate" /\ sock' = sock /\ dirs \subseteq dirs'
    BY <1>2 DEF AllocateServerDirectory, At
  <2> QED
    BY <2>1, <2>2, SocketIdle DEF Owning
<1>3. CASE CreateDirectories(h)
  <2>1. Moved("bind") /\ server[h].pc = "mkdirs" /\ sock' = sock /\ dirs \subseteq dirs'
    BY <1>0, <1>01, <1>3 DEF CreateDirectories, At
  <2> QED
    BY <2>1, SocketIdle DEF Owning, Moved
<1>4. CASE BindSocket(h)
  <2>1. CASE sock' = sock
    <3>0. Path(h) \in Dir /\ Nobody \notin SimHost /\ sock \in [Dir -> SimHost \cup {Nobody, Stale}]
      BY SimBounds DEF Path, SimTypes
    <3>9. Goto(h, "probe") \/ Goto(h, "off")
      BY <1>4, <2>1, <3>0 DEF BindSocket
    <3>1. Moved("probe") \/ Moved("off")
      BY <1>0, <1>01, <3>9
    <3>2. server[h].pc \in {"bind", "rebind"} /\ dirs' = dirs
      BY <1>4 DEF BindSocket
    <3> QED
      BY <2>1, <3>1, <3>2, SocketIdle DEF Owning, Moved
  <2>2. CASE sock' # sock
    <3>1. /\ Goto(h, "permissions") /\ server[h].pc \in {"bind", "rebind"}
          /\ Path(h) \in dirs /\ sock[Path(h)] = Nobody /\ dirs' = dirs /\ sock' = [sock EXCEPT ![Path(h)] = h]
      BY <1>4, <2>2 DEF BindSocket
    <3>2. Moved("permissions")
      BY <1>0, <1>01, <3>1
    <3>3. Path(h) \in Dir /\ Nobody \notin SimHost /\ sock \in [Dir -> SimHost \cup {Nobody, Stale}]
      BY SimBounds DEF Path, SimTypes
    <3>4. \A d \in Dir : sock'[d] = h => d = Path(h)
      BY <3>1, <3>3 DEF SocketInv, Owning
    <3>5. \A g \in SimHost : g # h /\ server[g].pc \in Owning => sock'[Path(g)] = g /\ Path(g) \in dirs'
      BY <3>1, <3>3 DEF SocketInv
    <3>6. \A d \in Dir : sock'[d] = sock[d] \/ (sock'[d] = h /\ sock[d] \notin SimHost)
      BY <3>1, <3>3
    <3>7. server'[h].pc = "permissions" /\ server'[h].dir = Path(h) /\ ~Clash'
          /\ \A g \in SimHost : g # h => server'[g] = server[g]
      BY <3>2 DEF Moved, Path
    <3>8. sock'[Path(h)] = h
      BY <3>1, <3>3
    <3> QED
      BY <3>1, <3>4, <3>5, <3>6, <3>7, <3>8, SocketKept DEF Owning, Claiming
  <2> QED
    BY <2>1, <2>2
<1>5. CASE IsLive(h)
  <2>1. sock' = sock /\ dirs' = dirs /\ server[h].pc = "probe"
    BY <1>5 DEF IsLive, CreateFails, At
  <2>2. CASE Goto(h, "off")
    <3>1. Moved("off")
      BY <1>0, <1>01, <2>2
    <3> QED
      BY <2>1, <3>1, SocketIdle DEF Owning, Moved
  <2>3. CASE Goto(h, "stat") /\ Refused(Path(h))
    <3>1. Moved("stat")
      BY <1>0, <1>01, <2>3
    <3>2. sock[Path(h)] \notin SimHost
      <4> SUFFICES ASSUME NEW g \in SimHost, sock[Path(h)] = g PROVE FALSE
        OBVIOUS
      <4>1. server[g].pc \in Owning /\ Path(g) = Path(h) /\ server[g].pc \notin Listening
        BY <2>3 DEF SocketInv, Refused, Path
      <4>2. server[g].pc \in Claiming /\ g # h
        BY <2>1, <4>1 DEF Owning, Listening, Claiming
      <4> QED
        BY <2>1, <4>1, <4>2 DEF SocketInv, Clash, Path, Claiming
    <3> QED
      BY <2>1, <3>1, <3>2, SocketIdle DEF Owning, Moved, Path
  <2> QED
    BY <1>5, <2>2, <2>3 DEF IsLive, CreateFails
<1>6. CASE IsSocket(h)
  <2>1. sock' = sock /\ dirs' = dirs /\ server[h].pc = "stat" /\ (Goto(h, "remove") \/ Goto(h, "off"))
    BY <1>6 DEF IsSocket, At
  <2>2. Moved("remove") \/ Moved("off")
    BY <1>0, <1>01, <2>1
  <2>3. sock[Path(h)] \notin SimHost
    BY <2>1 DEF SocketInv
  <2> QED
    BY <2>1, <2>2, <2>3, SocketIdle DEF Owning, Moved, Path
<1>7. CASE RemoveStale(h)
  <2>1. sock' = [sock EXCEPT ![Path(h)] = Nobody] /\ dirs' = dirs /\ server[h].pc = "remove"
    BY <1>7 DEF RemoveStale, At
  <2>2. Moved("rebind")
    BY <1>0, <1>01, <1>7 DEF RemoveStale
  <2>3. sock[Path(h)] \notin SimHost
    BY <2>1 DEF SocketInv
  <2> QED
    BY <2>1, <2>2, <2>3, SocketRemoved DEF Owning, Moved
<1>8. CASE Permissions(h)
  <2>1. sock' = sock /\ dirs' = dirs /\ server[h].pc = "permissions"
    BY <1>8 DEF Permissions, At
  <2>2. sock[Path(h)] = h /\ Nobody \notin SimHost
    BY <2>1, SimBounds DEF SocketInv, Owning
  <2>3. Moved("listen")
    BY <1>0, <1>01, <1>8, <2>2 DEF Permissions
  <2> QED
    BY <2>1, <2>3, SocketIdle DEF Owning, Moved
<1>9. CASE Listen(h)
  <2>1. dirs' = dirs /\ server[h].pc = "listen"
    BY <1>9 DEF Listen, At
  <2>2. CASE Goto(h, "present") /\ sock' = sock
    <3>1. Moved("present")
      BY <1>0, <1>01, <2>2
    <3> QED
      BY <2>1, <2>2, <3>1, SocketIdle DEF Owning, Moved
  <2>3. CASE Goto(h, "off") /\ sock' = [sock EXCEPT ![Path(h)] = Nobody]
    <3>1. Moved("off")
      BY <1>0, <1>01, <2>3
    <3> QED
      BY <2>1, <2>3, <3>1, SocketRemoved DEF Owning, Moved
  <2> QED
    BY <1>9, <2>2, <2>3 DEF Listen
<1>10. CASE StartBackend(h)
  <2>1. sock' = sock /\ dirs' = dirs /\ server[h].pc = "present"
    BY <1>10 DEF StartBackend, At
  <2>2. Moved("serving") \/ Moved("unlink")
    BY <1>0, <1>01, <1>10 DEF StartBackend
  <2> QED
    BY <2>1, <2>2, SocketIdle DEF Owning, Moved
<1>11. CASE DoAccept(h) \/ CloseHostDevice(h) \/ Interrupt(h)
  <2>1. UNCHANGED <<dirs, sock>>
    BY <1>11 DEF DoAccept, CloseHostDevice, Interrupt
  <2>2. \A g \in SimHost : server'[g].pc = server[g].pc /\ server'[g].dir = server[g].dir
    BY <1>11 DEF DoAccept, CloseHostDevice, Interrupt, SimTypes, SimServer
  <2> QED
    BY <2>1, <2>2, SocketSame
<1>12. CASE BeginStop(h) \/ JoinThreads(h)
  <2>1. sock' = sock /\ dirs' = dirs /\ server[h].pc \in {"serving", "joining"}
    BY <1>12 DEF BeginStop, JoinThreads, At
  <2>2. Moved("joining") \/ Moved("unlink")
    BY <1>0, <1>01, <1>12 DEF BeginStop, JoinThreads
  <2> QED
    BY <2>1, <2>2, SocketIdle DEF Owning, Moved
<1>13. CASE RemoveSocket(h)
  <2>1. sock' = [sock EXCEPT ![Path(h)] = Nobody] /\ dirs' = dirs /\ server[h].pc = "unlink"
    BY <1>13 DEF RemoveSocket, At
  <2>2. Moved("rmdir")
    BY <1>0, <1>01, <1>13 DEF RemoveSocket
  <2> QED
    BY <2>1, <2>2, SocketRemoved DEF Owning, Moved
<1>14. CASE RemoveDirectory(h)
  <2>1. sock' = sock /\ server[h].pc = "rmdir" /\ Moved("close")
    BY <1>0, <1>01, <1>14 DEF RemoveDirectory, At
  <2>2. \A g \in SimHost : server[g].pc \in Owning => sock[Path(g)] = g /\ Path(g) \in dirs'
    BY <1>14, SimBounds DEF RemoveDirectory, SocketInv
  <2>3. \A d \in Dir : sock[d] # h
    BY <2>1 DEF SocketInv, Owning
  <2> QED
    BY <2>1, <2>2, <2>3, SocketKept DEF Owning, Moved
<1>15. CASE CloseAcceptor(h)
  <2>1. sock' = sock /\ dirs' = dirs /\ server[h].pc = "close" /\ Moved("off")
    BY <1>0, <1>01, <1>15 DEF CloseAcceptor, At
  <2> QED
    BY <2>1, SocketIdle DEF Owning, Moved
<1>16. CASE CrashHost(h)
  <2>1. sock' = [d \in Dir |-> IF sock[d] = h THEN Stale ELSE sock[d]] /\ dirs' = dirs /\ Moved("off")
    BY <1>0, <1>01, <1>16 DEF CrashHost
  <2>2. Stale \notin SimHost
    BY SimBounds
  <2>3. \A g \in SimHost : g # h /\ server[g].pc \in Owning => sock'[Path(g)] = g /\ Path(g) \in dirs'
    BY <2>1 DEF SocketInv, Path
  <2>4. \A d \in Dir : sock'[d] # h /\ (sock'[d] = sock[d] \/ sock'[d] \notin SimHost)
    BY <2>1, <2>2
  <2> QED
    BY <2>1, <2>3, <2>4, SocketKept DEF Owning, Moved
<1> QED
  BY <1>1, <1>2, <1>3, <1>4, <1>5, <1>6, <1>7, <1>8, <1>9, <1>10, <1>11, <1>12, <1>13, <1>14, <1>15, <1>16
  DEF HostStep, Claim, Teardown

LEMMA SimInitInv == SimInit => SimInv
<1> SUFFICES ASSUME SimInit PROVE SimInv
  OBVIOUS
<1>1. SimTypes
  <2>1. session \in Seq(SimConnection) /\ contended \in BOOLEAN
    <3>1. session = <<>> /\ contended = FALSE
      BY DEF SimInit
    <3>2. <<>> \in Seq(SimConnection)
      OBVIOUS
    <3> QED
      BY <3>1, <3>2
  <2>2. budget \in SimBudget
    <3>1. budget \in [plans : SimPlans, starts : [SimHost -> Nat], crashes : Nat, calls : [SimClient -> Nat], closes : Nat]
      BY SimBounds DEF SimInit, SimPlans, Dir
    <3>2. budget.starts \in [SimHost -> Int] /\ budget.crashes \in Int /\ budget.closes \in Int
      BY <3>1
    <3> QED
      BY <3>1, <3>2 DEF SimBudget
  <2>3. server \in [SimHost -> SimServer]
    BY SimBounds DEF SimInit, SimServer, Dir
  <2>4. device \in [SimHost -> [log : Seq([client : SimClient \cup {Nobody}, tag : Nat]), closed : BOOLEAN]]
    BY DEF SimInit
  <2>5. sock \in [Dir -> SimHost \cup {Nobody, Stale}]
    BY DEF SimInit
  <2> QED
    BY <2>1, <2>2, <2>3, <2>4, <2>5 DEF SimTypes
<1>2. ThreadInv
  BY DEF SimInit, ThreadInv
<1>3. SocketInv
  BY SimBounds DEF SimInit, SocketInv, Clash, Claiming, Owning, Path
<1> QED
  BY <1>1, <1>2, <1>3 DEF SimInv

LEMMA SimNextInv == SimInv /\ SimNext => SimInv'
<1> SUFFICES ASSUME SimInv, SimNext PROVE SimInv'
  OBVIOUS
<1> USE DEF SimInv
<1>1. ASSUME NEW h \in SimHost, HostStep(h) PROVE SimInv'
  <2>1. SimTypes'
    BY <1>1, HostStepTypes
  <2>2. ThreadInv'
    BY <1>1, <2>1, HostThreads
  <2>3. ~contended' => ~contended
    BY <1>1 DEF HostStep, StartHost, Claim, DoAccept, CloseHostDevice, Interrupt, Teardown, CrashHost,
         AllocateServerDirectory, CreateDirectories, BindSocket, IsLive, CreateFails, IsSocket, RemoveStale,
         Permissions, Listen, StartBackend, BeginStop, JoinThreads, RemoveSocket, RemoveDirectory, CloseAcceptor, Goto, Watch
  <2>4. ~contended' => SocketInv'
    BY <1>1, <2>1, <2>3, HostSockets
  <2> QED
    BY <2>1, <2>2, <2>4
<1>2. ASSUME NEW s \in DOMAIN session, ServeStep(s) PROVE SimInv'
  <2>1. /\ SimTypes' /\ UNCHANGED <<dirs, sock, contended>>
        /\ session[s].at \in {"serving", "handling"} /\ session'[s].host = session[s].host
        /\ DOMAIN session' = DOMAIN session /\ \A i \in DOMAIN session : i # s => session'[i] = session[i]
        /\ \A g \in SimHost : server'[g].pc = server[g].pc /\ server'[g].dir = server[g].dir
    BY <1>2, ServePlaces
  <2>2. ThreadInv'
    <3>1. \A i \in DOMAIN session : session[i].host \in SimHost
      BY SimTypeFacts DEF SimConnection
    <3> QED
      BY <2>1, <3>1 DEF ThreadInv
  <2>3. ~contended' => SocketInv'
    BY <2>1, SocketSame
  <2> QED
    BY <2>1, <2>2, <2>3
<1>3. ASSUME NEW c \in SimClient, ClientStep(c) PROVE SimInv'
  <2>1. SamePlaces /\ budget' \in SimBudget /\ UNCHANGED <<dirs, sock, server, device, contended>>
    BY <1>3, ClientPlaces
  <2>2. SimTypes'
    BY <2>1 DEF SimTypes, SamePlaces
  <2>3. ThreadInv'
    BY <2>1 DEF ThreadInv, SamePlaces
  <2>4. ~contended' => SocketInv'
    BY <2>1, SocketSame
  <2> QED
    BY <2>2, <2>3, <2>4
<1> QED
  BY <1>1, <1>2, <1>3 DEF SimNext, HostStep, Serve, ServeStep, ClientStep

LEMMA SimStutter == SimInv /\ UNCHANGED simVars => SimInv'
<1> SUFFICES ASSUME SimInv, UNCHANGED simVars PROVE SimInv'
  OBVIOUS
<1>1. SimTypes' /\ ThreadInv'
  BY DEF SimInv, SimTypes, ThreadInv, simVars
<1>2. ~contended' => SocketInv'
  <2> SUFFICES ASSUME ~contended' PROVE SocketInv'
    OBVIOUS
  <2>1. SocketInv /\ UNCHANGED <<dirs, sock, server>>
    BY DEF SimInv, simVars
  <2> QED
    BY <2>1, SocketSame
<1> QED
  BY <1>1, <1>2 DEF SimInv

(* LiveHostReachable, for any number of hosts, clients, directories and    *)
(* connections: through crashes, reclaims of stale sockets, failed claims  *)
(* and teardowns, a host that bind_and_listen() has left listening keeps   *)
(* its socket file and its directory as long as no two hosts have been     *)
(* claiming one path at once, and ~SimulationServerSocket leaves no        *)
(* serving thread behind.                                                  *)
THEOREM LiveHostStaysReachable == SimulationSpec => []LiveHostReachable
<1>1. SimulationInit => SimInv
  BY SimInitInv DEF SimulationInit
<1>2. SimInv /\ [SimulationNext]_vars => SimInv'
  BY SimNextInv, SimStutter DEF SimulationNext, Servers, Rtls, Backends, vars, simVars
<1>3. SimInv => LiveHostReachable
  <2> SUFFICES ASSUME SimInv PROVE LiveHostReachable
    OBVIOUS
  <2>1. ~contended => \A h \in SimHost :
          server[h].pc \in {"present", "serving", "joining", "unlink"} => sock[Path(h)] = h /\ Path(h) \in dirs
    BY DEF SimInv, SocketInv, Owning
  <2>2. \A h \in SimHost : server[h].pc \in {"unlink", "rmdir", "close", "off"} => ServedBy(h) = {}
    BY DEF SimInv, ThreadInv, ServedBy
  <2> QED
    BY <2>1, <2>2 DEF LiveHostReachable
<1> QED
  BY <1>1, <1>2, <1>3, PTL DEF SimulationSpec

-----------------------------------------------------------------------------
(* Requests and replies of SimulationServer.                               *)

SimCaller ==
  [pc : {"off", "connect", "attached", "sent"}, why : {"device", "kill"}, dir : Dir, s : Nat, fresh : BOOLEAN,
   want : SimRequest, got : SimReply]
CallerTypes == dirs \subseteq Dir /\ client \in [SimClient -> SimCaller]

(* The request a connection holds that its host may still perform.         *)
Asked(s) == session[s].at = "handling" \/ (session[s].at \in {"backlog", "serving"} /\ session[s].reqs # <<>>)
Question(s) == IF session[s].at = "handling" THEN session[s].req ELSE session[s].reqs[1]

(* A connection is served under its host's eyes: it is shut down exactly   *)
(* when the host is joining its threads, and nothing is left open when the *)
(* host has gone.                                                          *)
Home(s) ==
  /\ session[s].at \in {"serving", "handling"} =>
       server[session[s].host].pc = IF session[s].shut THEN "joining" ELSE "serving"
  /\ session[s].at = "backlog" => ~session[s].shut /\ server[session[s].host].pc \in Listening
  /\ session[s].at \in {"finished", "reaped"} => session[s].shut \/ session[s].left
  /\ session[s].client \notin SimClient => session[s].reqs = <<>> /\ session[s].at # "handling"
HomeInv == \A s \in DOMAIN session : Home(s)

Current(c) ==
  /\ client[c].s <= Len(session)
  /\ client[c].pc \in {"attached", "sent"} =>
       client[c].s > 0 /\ session[client[c].s].client = c /\ ~session[client[c].s].left
  /\ client[c].got # NoReply => client[c].pc \in {"off", "attached"} /\ client[c].s > 0 /\ session[client[c].s].client = c
  /\ client[c].fresh \/ client[c].pc = "off" => client[c].want.kind # "write"
  /\ client[c].pc = "sent" => client[c].want.tag = budget.calls[c] + 1
CurrentInv == \A c \in SimClient : Current(c)

(* The reply of a write of an open device says that it was done.           *)
InLog(h, c, t) == \E i \in DOMAIN device[h].log : device[h].log[i] = [client |-> c, tag |-> t]
Open(s) == ~device[session[s].host].closed /\ ~session[s].shut
Written(s, w, reply) == w.kind = "write" /\ reply.ok /\ Open(s) => InLog(session[s].host, session[s].client, w.tag)
Sent(s) == session[s].client \in SimClient /\ client[session[s].client].pc = "sent" /\ client[session[s].client].s = s
Want(s) == client[session[s].client].want

Own(c) == client[c].got # NoReply /\ ~session[client[c].s].late =>
  client[c].got.tag = client[c].want.tag /\ Written(client[c].s, client[c].want, client[c].got)
OwnInv == \A c \in SimClient : Own(c)

(* Until a request times out a connection has one request of its client,   *)
(* or its reply, unless it was shut down and the client has given up.      *)
AskInv == \A s \in DOMAIN session : ~session[s].late =>
  /\ Asked(s) => Len(session[s].reqs) <= 1 /\ (session[s].at = "handling" => session[s].reqs = <<>>)
  /\ Asked(s) /\ ~session[s].shut => Sent(s) /\ session[s].replies = <<>> /\ Question(s) = Want(s)
  /\ session[s].replies # <<>> =>
       /\ Sent(s) /\ Len(session[s].replies) = 1
       /\ session[s].replies[1].tag = Want(s).tag /\ Written(s, Want(s), session[s].replies[1])

(* Requests that wait are older than what the client asks now and newer    *)
(* than what was performed, those at other hosts that are stopping aside.  *)
LateOf(c) == \E s \in DOMAIN session : session[s].client = c /\ session[s].late
Of(c) == {s \in DOMAIN session : session[s].client = c}
OrderInv == \A c \in SimClient : ~LateOf(c) =>
  /\ \A s \in Of(c) : Asked(s) =>
       Question(s).tag > budget.calls[c] /\ (client[c].pc = "sent" /\ client[c].s # s => Question(s).tag > client[c].want.tag)
  /\ \A s, r \in Of(c) : Asked(s) /\ Asked(r) /\ session[s].shut /\ session[r].shut /\ session[s].host = session[r].host => s = r
  /\ \A h \in SimHost : \A i \in DOMAIN device[h].log : device[h].log[i].client = c =>
       /\ device[h].log[i].tag > budget.calls[c]
       /\ \A s \in Of(c) : Asked(s) /\ (~session[s].shut \/ session[s].host = h) => device[h].log[i].tag > Question(s).tag
       /\ \A j \in DOMAIN device[h].log : i < j /\ device[h].log[j].client = c => device[h].log[i].tag >= device[h].log[j].tag
LogInv == \A h \in SimHost : \A i \in DOMAIN device[h].log : device[h].log[i].client \in SimClient

IoInv == CallerTypes /\ HomeInv /\ CurrentInv /\ OwnInv /\ AskInv /\ OrderInv /\ LogInv

LEMMA IoTypes ==
  ASSUME SimTypes, CallerTypes
  PROVE  /\ Len(session) \in Nat /\ DOMAIN session = 1 .. Len(session)
         /\ \A s \in DOMAIN session :
              /\ session[s] \in SimConnection /\ session[s].host \in SimHost
              /\ session[s].reqs \in Seq(SimRequest) /\ session[s].replies \in Seq(SimReply) /\ session[s].req \in SimRequest
         /\ \A c \in SimClient :
              /\ client[c] \in SimCaller /\ client[c].s \in Nat
              /\ client[c].want \in SimRequest /\ client[c].want.tag \in Nat /\ client[c].got \in SimReply
              /\ budget.calls[c] \in Nat
         /\ \A h \in SimHost : device[h].log \in Seq([client : SimClient \cup {Nobody}, tag : Nat])
<1>1. Len(session) \in Nat /\ DOMAIN session = 1 .. Len(session) /\ \A s \in DOMAIN session : session[s] \in SimConnection
  BY SimTypeFacts
<1>2. \A s \in DOMAIN session : session[s].host \in SimHost /\
        session[s].reqs \in Seq(SimRequest) /\ session[s].replies \in Seq(SimReply) /\ session[s].req \in SimRequest
  BY <1>1 DEF SimConnection
<1>3. \A c \in SimClient : client[c] \in SimCaller
  BY DEF CallerTypes
<1>4. \A c \in SimClient : client[c].s \in Nat /\ client[c].want \in SimRequest /\ client[c].got \in SimReply
  BY <1>3 DEF SimCaller
<1>5. \A c \in SimClient : client[c].want.tag \in Nat
  BY <1>4 DEF SimRequest
<1>6. \A c \in SimClient : budget.calls[c] \in Nat
  BY DEF SimTypes, SimBudget
<1>7. \A h \in SimHost : device[h].log \in Seq([client : SimClient \cup {Nobody}, tag : Nat])
  BY DEF SimTypes
<1> QED
  BY <1>1, <1>2, <1>3, <1>4, <1>5, <1>6, <1>7

(* A step of the host's side that performs no request: connections come in *)
(* from the backlog, are read, shut down or cut, and what is asked is the  *)
(* same or no longer.                                                      *)
Fades(s) ==
  /\ session'[s].client = session[s].client /\ session'[s].host = session[s].host /\ session'[s].late = session[s].late
  /\ session'[s].left = session[s].left /\ session'[s].replies = session[s].replies
  /\ session[s].shut => session'[s].shut
  /\ Asked(s)' => Asked(s) /\ Question(s)' = Question(s)
  /\ Asked(s)' /\ ~session[s].late => Len(session'[s].reqs) <= 1 /\ (session'[s].at = "handling" => session'[s].reqs = <<>>)
  /\ session'[s].at \in {"serving", "handling"} /\ session'[s].shut => session[s].at \in {"serving", "handling"}
Fading ==
  /\ Len(session') = Len(session) /\ DOMAIN session' = DOMAIN session /\ \A s \in DOMAIN session : Fades(s)
  /\ client' = client /\ budget'.calls = budget.calls
  /\ \A h \in SimHost : device'[h].log = device[h].log /\ (device[h].closed => device'[h].closed)

LEMMA FadeWritten ==
  ASSUME SimTypes, CallerTypes, Fading, NEW s \in DOMAIN session, NEW w, NEW a, Written(s, w, a)
  PROVE  Written(s, w, a)'
<1>1. PICK h \in SimHost : h = session[s].host
  BY IoTypes
<1>2. session'[s].host = h /\ session'[s].client = session[s].client /\ (session[s].shut => session'[s].shut)
  BY <1>1 DEF Fading, Fades
<1>3. device'[h].log = device[h].log /\ (device[h].closed => device'[h].closed)
  BY DEF Fading
<1>4. Open(s)' => Open(s)
  BY <1>1, <1>2, <1>3, Zenon DEF Open
<1>5. InLog(h, session[s].client, w.tag) => InLog(session[s].host, session[s].client, w.tag)'
  BY <1>1, <1>2, <1>3 DEF InLog
<1> QED
  BY <1>1, <1>4, <1>5 DEF Written

LEMMA FadeAsk ==
  ASSUME SimTypes, CallerTypes, AskInv, Fading
  PROVE  AskInv'
<1> USE IoTypes DEF Fading
<1> SUFFICES ASSUME NEW s \in DOMAIN session, ~session[s].late
             PROVE  /\ Asked(s)' => Len(session'[s].reqs) <= 1 /\ (session'[s].at = "handling" => session'[s].reqs = <<>>)
                    /\ Asked(s)' /\ ~session'[s].shut => Sent(s)' /\ session'[s].replies = <<>> /\ Question(s)' = Want(s)'
                    /\ session'[s].replies # <<>> =>
                         /\ Sent(s)' /\ Len(session'[s].replies) = 1
                         /\ session'[s].replies[1].tag = Want(s)'.tag /\ Written(s, Want(s), session[s].replies[1])'
  BY DEF AskInv, Fades
<1>1. Fades(s)
  OBVIOUS
<1>2. Sent(s)' <=> Sent(s)
  BY <1>1 DEF Fades, Sent
<1>3. Want(s)' = Want(s)
  BY <1>1 DEF Fades, Want
<1>4. Asked(s)' => Len(session'[s].reqs) <= 1 /\ (session'[s].at = "handling" => session'[s].reqs = <<>>)
  BY <1>1 DEF Fades
<1>5. ASSUME Asked(s)', ~session'[s].shut PROVE Sent(s)' /\ session'[s].replies = <<>> /\ Question(s)' = Want(s)'
  <2>1. Asked(s) /\ ~session[s].shut /\ Question(s)' = Question(s) /\ session'[s].replies = session[s].replies
    BY <1>1, <1>5 DEF Fades
  <2> QED
    BY <1>2, <1>3, <2>1 DEF AskInv
<1>6. ASSUME session'[s].replies # <<>>
      PROVE  /\ Sent(s)' /\ Len(session'[s].replies) = 1
             /\ session'[s].replies[1].tag = Want(s)'.tag /\ Written(s, Want(s), session[s].replies[1])'
  <2>1. session'[s].replies = session[s].replies /\ session'[s].host = session[s].host /\ session'[s].client = session[s].client
        /\ (session[s].shut => session'[s].shut) /\ session[s].host \in SimHost
    BY <1>1 DEF Fades
  <2>2. Sent(s) /\ Len(session[s].replies) = 1 /\ session[s].replies[1].tag = Want(s).tag /\ Written(s, Want(s), session[s].replies[1])
    BY <1>6, <2>1 DEF AskInv
  <2>3. PICK w, a : w = Want(s) /\ w = Want(s)' /\ a = session[s].replies[1] /\ a = session'[s].replies[1]
    BY <1>3, <2>1
  <2>4. Written(s, w, a) => Written(s, w, a)'
    BY FadeWritten
  <2> QED
    BY <1>2, <2>1, <2>2, <2>3, <2>4
<1> QED
  BY <1>4, <1>5, <1>6

LEMMA FadeOwn ==
  ASSUME SimTypes, CallerTypes, CurrentInv, OwnInv, Fading
  PROVE  CurrentInv' /\ OwnInv'
<1> USE IoTypes DEF Fading
<1>1. CurrentInv'
  <2> SUFFICES ASSUME NEW c \in SimClient
               PROVE  /\ client[c].s <= Len(session)
                      /\ client[c].pc \in {"attached", "sent"} =>
                           client[c].s > 0 /\ session'[client[c].s].client = c /\ ~session'[client[c].s].left
                      /\ client[c].got # NoReply => client[c].pc \in {"off", "attached"} /\ client[c].s > 0 /\ session'[client[c].s].client = c
                      /\ client[c].fresh \/ client[c].pc = "off" => client[c].want.kind # "write"
                      /\ client[c].pc = "sent" => client[c].want.tag = budget.calls[c] + 1
    BY DEF CurrentInv, Current
  <2>1. client[c].s > 0 => client[c].s \in DOMAIN session
    BY DEF CurrentInv, Current
  <2>2. client[c].s > 0 => session'[client[c].s].client = session[client[c].s].client /\ session'[client[c].s].left = session[client[c].s].left
    BY <2>1 DEF Fades
  <2> QED
    BY <2>2 DEF CurrentInv, Current
<1>2. OwnInv'
  <2> SUFFICES ASSUME NEW c \in SimClient, client[c].got # NoReply, ~session'[client[c].s].late
               PROVE  client[c].got.tag = client[c].want.tag /\ Written(client[c].s, client[c].want, client[c].got)'
    BY DEF OwnInv, Own
  <2>0. client[c].s \in DOMAIN session
    <3>1. client[c].s > 0 /\ client[c].s <= Len(session) /\ client[c].s \in Nat
      BY DEF CurrentInv, Current
    <3> QED
      BY <3>1
  <2>1. PICK s, w, a : s \in DOMAIN session /\ s = client[c].s /\ w = client[c].want /\ a = client[c].got
    BY <2>0
  <2>2. session'[s].late = session[s].late
    BY <2>1 DEF Fades
  <2>3. client[c].got.tag = client[c].want.tag /\ Written(s, w, a)
    BY <2>1, <2>2 DEF OwnInv, Own
  <2>4. Written(s, w, a)'
    BY <2>1, <2>3, FadeWritten
  <2>5. client'[c] = client[c]
    OBVIOUS
  <2> QED
    BY <2>1, <2>3, <2>4, <2>5
<1> QED
  BY <1>1, <1>2

(* Two connections of a client that one host serves and that are asked are *)
(* one: both are open, and then it is where the client waits, or both shut.*)
LEMMA OneAsked ==
  ASSUME SimTypes, CallerTypes, HomeInv, AskInv, OrderInv, NEW c \in SimClient, ~LateOf(c),
         NEW s \in Of(c), NEW r \in Of(c), Asked(s), Asked(r), session[s].host = session[r].host,
         session[s].at \in {"serving", "handling"}, session[r].at \in {"serving", "handling"}
  PROVE  s = r
<1>1. s \in DOMAIN session /\ r \in DOMAIN session /\ session[s].client = c /\ session[r].client = c /\ ~session[s].late /\ ~session[r].late
  BY DEF Of, LateOf
<1>2. session[s].shut <=> session[r].shut
  BY <1>1 DEF HomeInv, Home
<1>3. CASE ~session[s].shut
  <2>1. Sent(s) /\ Sent(r)
    BY <1>1, <1>2, <1>3 DEF AskInv
  <2> QED
    BY <1>1, <2>1 DEF Sent
<1>4. CASE session[s].shut
  BY <1>2, <1>4 DEF OrderInv
<1> QED
  BY <1>3, <1>4

LEMMA FadeOrder ==
  ASSUME SimTypes, CallerTypes, HomeInv, HomeInv', AskInv, OrderInv, LogInv, Fading
  PROVE  OrderInv' /\ LogInv'
<1> USE IoTypes DEF Fading
<1>0. LogInv'
  BY DEF LogInv
<1> SUFFICES ASSUME NEW c \in SimClient, ~LateOf(c)'
             PROVE  /\ \A s \in Of(c)' : Asked(s)' =>
                         Question(s)'.tag > budget.calls[c] /\ (client[c].pc = "sent" /\ client[c].s # s => Question(s)'.tag > client[c].want.tag)
                    /\ \A s, r \in Of(c)' : Asked(s)' /\ Asked(r)' /\ session'[s].shut /\ session'[r].shut /\ session'[s].host = session'[r].host => s = r
                    /\ \A h \in SimHost : \A i \in DOMAIN device[h].log : device[h].log[i].client = c =>
                         /\ device[h].log[i].tag > budget.calls[c]
                         /\ \A s \in Of(c)' : Asked(s)' /\ (~session'[s].shut \/ session'[s].host = h) => device[h].log[i].tag > Question(s)'.tag
                         /\ \A j \in DOMAIN device[h].log : i < j /\ device[h].log[j].client = c => device[h].log[i].tag >= device[h].log[j].tag
  <2> HIDE IoTypes
  <2> QED
    BY <1>0 DEF OrderInv
<1>1. \A s \in DOMAIN session : Fades(s)
  OBVIOUS
<1>2. Of(c)' = Of(c) /\ ~LateOf(c)
  BY <1>1 DEF Of, LateOf, Fades
<1>3. \A s \in Of(c) : s \in DOMAIN session /\ session[s].client = c /\ ~session[s].late
  BY <1>2 DEF Of, LateOf
<1>4. \A s \in Of(c) : Asked(s)' => Asked(s) /\ Question(s)' = Question(s)
  BY <1>1, <1>3 DEF Fades
<1>5. \A s \in Of(c) : Asked(s)' =>
        Question(s)'.tag > budget.calls[c] /\ (client[c].pc = "sent" /\ client[c].s # s => Question(s)'.tag > client[c].want.tag)
  BY <1>2, <1>4 DEF OrderInv
<1>6. ASSUME NEW s \in Of(c), NEW r \in Of(c), Asked(s)', Asked(r)', session'[s].shut, session'[r].shut, session'[s].host = session'[r].host
      PROVE  s = r
  <2>1. session'[s].at \in {"serving", "handling"} /\ session'[r].at \in {"serving", "handling"}
    BY <1>3, <1>6 DEF Asked, HomeInv, Home
  <2>2. session[s].at \in {"serving", "handling"} /\ session[r].at \in {"serving", "handling"} /\ session[s].host = session[r].host
    BY <1>1, <1>3, <1>6, <2>1 DEF Fades
  <2> QED
    BY <1>2, <1>4, <1>6, <2>2, OneAsked
<1>7. ASSUME NEW h \in SimHost, NEW i \in DOMAIN device[h].log, device[h].log[i].client = c
      PROVE  /\ device[h].log[i].tag > budget.calls[c]
             /\ \A s \in Of(c) : Asked(s)' /\ (~session'[s].shut \/ session'[s].host = h) => device[h].log[i].tag > Question(s)'.tag
             /\ \A j \in DOMAIN device[h].log : i < j /\ device[h].log[j].client = c => device[h].log[i].tag >= device[h].log[j].tag
  <2>1. /\ device[h].log[i].tag > budget.calls[c]
        /\ \A s \in Of(c) : Asked(s) /\ (~session[s].shut \/ session[s].host = h) => device[h].log[i].tag > Question(s).tag
        /\ \A j \in DOMAIN device[h].log : i < j /\ device[h].log[j].client = c => device[h].log[i].tag >= device[h].log[j].tag
    BY <1>2, <1>7 DEF OrderInv
  <2>2. \A s \in Of(c) : session'[s].host = session[s].host /\ (session[s].shut => session'[s].shut)
    BY <1>1, <1>3 DEF Fades
  <2> QED
    BY <1>4, <2>1, <2>2
<1> QED
  BY <1>2, <1>5, <1>6, <1>7

(* What becomes of one connection in a step of the host's side: nothing,   *)
(* its end, a thread, a shutdown, or the reading of its first request.     *)
Same(s) == session'[s] = session[s]
Ends(s) ==
  \E l \in {"finished", "reaped"} :
    \/ session'[s] = [session[s] EXCEPT !.at = l] /\ (session[s].shut \/ session[s].left)
    \/ session'[s] = [session[s] EXCEPT !.at = l, !.shut = TRUE]
Accepted(s) == session[s].at = "backlog" /\ session'[s] = [session[s] EXCEPT !.at = "serving"]
ShutDown(s) == session[s].at \in {"serving", "handling"} /\ session'[s] = [session[s] EXCEPT !.shut = TRUE]
Received(s) ==
  /\ session[s].at = "serving" /\ session[s].reqs # <<>>
  /\ session'[s] = [session[s] EXCEPT !.at = "handling", !.req = Head(session[s].reqs), !.reqs = Tail(@)]

LEMMA OpenFields ==
  ASSUME NEW r \in SimConnection, NEW q, q = [r EXCEPT !.at = "serving"] \/ q = [r EXCEPT !.shut = TRUE]
  PROVE  /\ q.client = r.client /\ q.host = r.host /\ q.late = r.late /\ q.left = r.left /\ q.replies = r.replies
         /\ q.reqs = r.reqs /\ q.req = r.req /\ (r.shut => q.shut)
BY DEF SimConnection

LEMMA ReceivedFields ==
  ASSUME NEW r \in SimConnection, NEW q, q = [r EXCEPT !.at = "handling", !.req = Head(r.reqs), !.reqs = Tail(@)]
  PROVE  /\ q.client = r.client /\ q.host = r.host /\ q.late = r.late /\ q.left = r.left /\ q.replies = r.replies
         /\ q.reqs = Tail(r.reqs) /\ q.req = Head(r.reqs) /\ q.shut = r.shut /\ q.at = "handling"
BY DEF SimConnection

LEMMA OneFades ==
  ASSUME SimTypes, CallerTypes, HomeInv, AskInv, NEW s \in DOMAIN session,
         Same(s) \/ Ends(s) \/ Accepted(s) \/ ShutDown(s) \/ Received(s)
  PROVE  Fades(s)
<1>0. session[s] \in SimConnection /\ session[s].reqs \in Seq(SimRequest)
  BY IoTypes
<1>00. ~session[s].late /\ Asked(s) => Len(session[s].reqs) <= 1 /\ (session[s].at = "handling" => session[s].reqs = <<>>)
  BY DEF AskInv
<1>1. CASE Same(s)
  BY <1>1, <1>00 DEF Same, Fades, Asked, Question
<1>2. CASE Ends(s)
  <2>1. PICK l \in {"finished", "reaped"} : session'[s] = [session[s] EXCEPT !.at = l] \/ session'[s] = [session[s] EXCEPT !.at = l, !.shut = TRUE]
    BY <1>2 DEF Ends
  <2>2. PICK r, q : r \in SimConnection /\ r = session[s] /\ q = session'[s]
    BY <1>0
  <2>3. /\ q.client = r.client /\ q.host = r.host /\ q.late = r.late /\ q.left = r.left /\ q.replies = r.replies
        /\ q.reqs = r.reqs /\ q.at = l /\ (r.shut => q.shut)
    <3>1. q = [r EXCEPT !.at = l] \/ q = [r EXCEPT !.at = l, !.shut = TRUE]
      BY <2>1, <2>2
    <3> QED
      BY ONLY <2>2, <3>1, l \in {"finished", "reaped"} DEF SimConnection
  <2> QED
    BY <2>2, <2>3 DEF Fades, Asked
<1>3. CASE Accepted(s)
  <2>2. PICK r, q : r \in SimConnection /\ r = session[s] /\ q = session'[s]
    BY <1>0
  <2>3. /\ q.client = r.client /\ q.host = r.host /\ q.late = r.late /\ q.left = r.left /\ q.replies = r.replies
        /\ q.reqs = r.reqs /\ q.req = r.req /\ (r.shut => q.shut)
    BY <1>3, <2>2, OpenFields DEF Accepted
  <2>4. r.at = "backlog" /\ q.at = "serving" /\ q.shut = r.shut /\ ~r.shut
    BY <1>3, <2>2 DEF Accepted, HomeInv, Home, SimConnection
  <2> QED
    BY <1>00, <2>2, <2>3, <2>4 DEF Fades, Asked, Question
<1>4. CASE ShutDown(s)
  <2>2. PICK r, q : r \in SimConnection /\ r = session[s] /\ q = session'[s]
    BY <1>0
  <2>3. /\ q.client = r.client /\ q.host = r.host /\ q.late = r.late /\ q.left = r.left /\ q.replies = r.replies
        /\ q.reqs = r.reqs /\ q.req = r.req /\ (r.shut => q.shut)
    BY <1>4, <2>2, OpenFields DEF ShutDown
  <2>4. r.at \in {"serving", "handling"} /\ q.at = r.at
    BY <1>4, <2>2 DEF ShutDown, SimConnection
  <2> QED
    BY <1>00, <2>2, <2>3, <2>4 DEF Fades, Asked, Question
<1>5. CASE Received(s)
  <2>2. PICK r, q : r \in SimConnection /\ r = session[s] /\ q = session'[s]
    BY <1>0
  <2>3. /\ q.client = r.client /\ q.host = r.host /\ q.late = r.late /\ q.left = r.left /\ q.replies = r.replies
        /\ q.reqs = Tail(r.reqs) /\ q.req = Head(r.reqs) /\ q.shut = r.shut /\ q.at = "handling"
    <3>1. q = [r EXCEPT !.at = "handling", !.req = Head(r.reqs), !.reqs = Tail(@)]
      BY <1>5, <2>2 DEF Received
    <3> QED
      BY ONLY <2>2, <3>1, ReceivedFields
  <2>4. r.at = "serving" /\ r.reqs # <<>> /\ Head(r.reqs) = r.reqs[1] /\ (Len(r.reqs) <= 1 => Tail(r.reqs) = <<>> /\ Len(Tail(r.reqs)) <= 1)
    BY <1>0, <1>5, <2>2 DEF Received
  <2> QED
    BY <1>00, <2>2, <2>3, <2>4 DEF Fades, Asked, Question
<1> QED
  BY <1>1, <1>2, <1>3, <1>4, <1>5

(* The same with what becomes of its host.                                 *)
Settled(s) == server'[session[s].host].pc = server[session[s].host].pc
Moves(s) ==
  \/ Same(s) /\ Settled(s)
  \/ Same(s) /\ session[s].at \notin {"serving", "handling"} /\ (session[s].at = "backlog" => server'[session[s].host].pc \in Listening)
  \/ Ends(s)
  \/ Accepted(s) /\ server'[session[s].host].pc = "serving"
  \/ ShutDown(s) /\ server'[session[s].host].pc = "joining"
  \/ Received(s) /\ Settled(s)
SameCalls == client' = client /\ budget'.calls = budget.calls
Moving ==
  /\ Len(session') = Len(session) /\ DOMAIN session' = DOMAIN session /\ \A s \in DOMAIN session : Moves(s)
  /\ SameCalls /\ \A h \in SimHost : device'[h].log = device[h].log /\ (device[h].closed => device'[h].closed)

LEMMA HomeMoves ==
  ASSUME SimTypes, CallerTypes, HomeInv, NEW s \in DOMAIN session, Moves(s)
  PROVE  Home(s)'
<1>0. session[s] \in SimConnection /\ Home(s)
  BY IoTypes DEF HomeInv
<1>1. CASE Same(s)
  BY <1>0, <1>1 DEF Same, Home, Moves, Settled, Ends, Accepted, ShutDown, Received, SimConnection
<1>2. CASE Ends(s)
  <2>1. PICK l \in {"finished", "reaped"} :
          \/ session'[s] = [session[s] EXCEPT !.at = l] /\ (session[s].shut \/ session[s].left)
          \/ session'[s] = [session[s] EXCEPT !.at = l, !.shut = TRUE]
    BY <1>2 DEF Ends
  <2>2. PICK r, q : r \in SimConnection /\ r = session[s] /\ q = session'[s]
    BY <1>0
  <2>3. /\ q.client = r.client /\ q.reqs = r.reqs /\ q.at = l /\ (q.shut \/ q.left)
    <3>1. (q = [r EXCEPT !.at = l] /\ (r.shut \/ r.left)) \/ q = [r EXCEPT !.at = l, !.shut = TRUE]
      BY <2>1, <2>2
    <3> QED
      BY ONLY <2>2, <3>1, l \in {"finished", "reaped"} DEF SimConnection
  <2> QED
    BY <1>0, <2>2, <2>3 DEF Home
<1>3. CASE Accepted(s) /\ server'[session[s].host].pc = "serving"
  <2>2. PICK r, q : r \in SimConnection /\ r = session[s] /\ q = session'[s]
    BY <1>0
  <2>3. q.client = r.client /\ q.host = r.host /\ q.reqs = r.reqs /\ q.at = "serving" /\ q.shut = r.shut /\ ~r.shut
    BY <1>0, <1>3, <2>2 DEF Accepted, SimConnection, Home
  <2> QED
    BY <1>0, <1>3, <2>2, <2>3 DEF Home
<1>4. CASE ShutDown(s) /\ server'[session[s].host].pc = "joining"
  <2>2. PICK r, q : r \in SimConnection /\ r = session[s] /\ q = session'[s]
    BY <1>0
  <2>3. q.client = r.client /\ q.host = r.host /\ q.reqs = r.reqs /\ q.at = r.at /\ q.shut /\ r.at \in {"serving", "handling"}
    BY <1>4, <2>2 DEF ShutDown, SimConnection
  <2> QED
    BY <1>0, <1>4, <2>2, <2>3 DEF Home
<1>5. CASE Received(s) /\ Settled(s)
  <2>2. PICK r, q : r \in SimConnection /\ r = session[s] /\ q = session'[s]
    BY <1>0
  <2>3. q.client = r.client /\ q.host = r.host /\ q.shut = r.shut /\ q.at = "handling"
    <3>1. q = [r EXCEPT !.at = "handling", !.req = Head(r.reqs), !.reqs = Tail(@)]
      BY <1>5, <2>2 DEF Received
    <3> QED
      BY ONLY <2>2, <3>1, ReceivedFields
  <2>4. r.at = "serving" /\ r.reqs # <<>>
    BY <1>5, <2>2 DEF Received
  <2>5. r.client \in SimClient /\ server[r.host].pc = IF r.shut THEN "joining" ELSE "serving"
    BY <1>0, <2>2, <2>4 DEF Home
  <2> QED
    BY <1>5, <2>2, <2>3, <2>5 DEF Home, Settled
<1> QED
  BY <1>1, <1>2, <1>3, <1>4, <1>5 DEF Moves

IoRest == CurrentInv /\ OwnInv /\ AskInv /\ OrderInv /\ LogInv

LEMMA MovingKeeps ==
  ASSUME SimTypes, CallerTypes, HomeInv, IoRest, Moving
  PROVE  HomeInv' /\ IoRest'
<1>1. HomeInv'
  BY HomeMoves DEF Moving, HomeInv
<1>2. \A s \in DOMAIN session : Fades(s)
  BY OneFades DEF Moving, Moves, IoRest
<1>3. Fading
  BY <1>2 DEF Fading, Moving, SameCalls
<1> QED
  BY <1>1, <1>3, FadeOwn, FadeAsk, FadeOrder DEF IoRest

(* A host moves from label to label with no connection served.             *)
LEMMA HostMoves ==
  ASSUME SimTypes, CallerTypes, HomeInv, NEW h \in SimHost, \A s \in DOMAIN session : session'[s] = session[s],
         \A g \in SimHost : g # h => server'[g].pc = server[g].pc,
         \/ server'[h].pc = server[h].pc
         \/ ServedBy(h) = {} /\ (server[h].pc \in Listening => server'[h].pc \in Listening)
  PROVE  \A s \in DOMAIN session : Moves(s)
<1> SUFFICES ASSUME NEW s \in DOMAIN session PROVE Moves(s)
  OBVIOUS
<1>1. Same(s) /\ session[s].host \in SimHost /\ Home(s)
  BY IoTypes DEF Same, HomeInv
<1>2. CASE session[s].host # h \/ server'[h].pc = server[h].pc
  BY <1>1, <1>2 DEF Moves, Settled
<1>3. CASE session[s].host = h /\ ServedBy(h) = {} /\ (server[h].pc \in Listening => server'[h].pc \in Listening)
  <2>1. session[s].at \notin {"serving", "handling"}
    BY <1>3 DEF ServedBy
  <2> QED
    BY <1>1, <1>3, <2>1 DEF Moves, Home
<1> QED
  BY <1>2, <1>3

LEMMA NoneServed ==
  ASSUME ThreadInv, NEW h \in SimHost, server[h].pc \notin {"serving", "joining"}
  PROVE  ServedBy(h) = {}
BY DEF ThreadInv, ServedBy

(* The claim of a path, up to a probe that finds a live host.              *)
LEMMA ClaimMoves ==
  ASSUME SimTypes, CallerTypes, HomeInv, ThreadInv, NEW h \in SimHost, Claim(h), session' = session
  PROVE  Moving
<1>0. server[h] \in SimServer /\ server \in [SimHost -> SimServer] /\ Len(session) \in Nat
  BY SimTypeFacts DEF SimTypes
<1>1. device' = device /\ client' = client /\ budget' = budget
  BY DEF Claim, AllocateServerDirectory, CreateDirectories, BindSocket, IsLive, IsSocket, RemoveStale,
         Permissions, Listen, StartBackend, Quiet
<1>2. \A g \in SimHost : g # h => server'[g].pc = server[g].pc
  BY <1>0 DEF Claim, AllocateServerDirectory, CreateDirectories, BindSocket, IsLive, CreateFails, IsSocket, RemoveStale,
              Permissions, Listen, StartBackend, Goto
<1>3. server[h].pc \notin {"serving", "joining"}
  BY DEF Claim, AllocateServerDirectory, CreateDirectories, BindSocket, IsLive, IsSocket, RemoveStale,
         Permissions, Listen, StartBackend, At
<1>4. server[h].pc \in Listening => server'[h].pc \in Listening
  <2>1. CASE StartBackend(h)
    BY <1>0, <2>1 DEF StartBackend, Goto, Listening, SimServer
  <2>2. CASE ~StartBackend(h)
    BY <2>2 DEF Claim, AllocateServerDirectory, CreateDirectories, BindSocket, IsLive, IsSocket, RemoveStale,
                Permissions, Listen, At, Listening
  <2> QED
    BY <2>1, <2>2
<1>5. \A s \in DOMAIN session : Moves(s)
  BY <1>2, <1>3, <1>4, HostMoves, NoneServed
<1> QED
  BY <1>0, <1>1, <1>5 DEF Moving, SameCalls

LEMMA ServingMoves ==
  ASSUME SimTypes, CallerTypes, HomeInv, NEW h \in SimHost, CloseHostDevice(h) \/ Interrupt(h)
  PROVE  Moving
<1>0. server[h] \in SimServer /\ server \in [SimHost -> SimServer] /\ Len(session) \in Nat /\ budget \in SimBudget
  BY SimTypeFacts DEF SimTypes
<1>1. session' = session /\ client' = client
  BY DEF CloseHostDevice, Interrupt
<1>2. \A g \in SimHost : server'[g].pc = server[g].pc
  BY <1>0 DEF CloseHostDevice, Interrupt, SimServer
<1>3. \A s \in DOMAIN session : Moves(s)
  BY <1>1, <1>2, HostMoves
<1>4. budget'.calls = budget.calls
  BY <1>0 DEF CloseHostDevice, Interrupt, SimBudget
<1>5. \A g \in SimHost : device'[g].log = device[g].log /\ (device[g].closed => device'[g].closed)
  <2>1. CASE CloseHostDevice(h)
    <3>1. device \in [SimHost -> [log : Seq([client : SimClient \cup {Nobody}, tag : Nat]), closed : BOOLEAN]]
      BY DEF SimTypes
    <3>2. device' = [device EXCEPT ![h].closed = TRUE]
      BY <2>1 DEF CloseHostDevice
    <3>3. device'[h].log = device[h].log /\ device'[h].closed
      BY ONLY <3>1, <3>2, h \in SimHost
    <3>4. \A g \in SimHost : g # h => device'[g] = device[g]
      BY ONLY <3>1, <3>2
    <3> QED
      BY <3>3, <3>4
  <2>2. CASE Interrupt(h)
    BY <2>2 DEF Interrupt
  <2> QED
    BY <2>1, <2>2
<1> QED
  BY <1>0, <1>1, <1>3, <1>4, <1>5 DEF Moving, SameCalls

LEMMA TeardownMoves ==
  ASSUME SimTypes, CallerTypes, HomeInv, ThreadInv, NEW h \in SimHost, Teardown(h) \/ CrashHost(h)
  PROVE  Moving
<1>0. server[h] \in SimServer /\ server \in [SimHost -> SimServer] /\ Len(session) \in Nat /\ budget \in SimBudget
      /\ DOMAIN session = 1 .. Len(session)
  BY SimTypeFacts DEF SimTypes
<1>1. device' = device /\ client' = client
  BY DEF Teardown, BeginStop, JoinThreads, RemoveSocket, RemoveDirectory, CloseAcceptor, CrashHost, Quiet
<1>2. budget'.calls = budget.calls
  BY <1>0 DEF Teardown, BeginStop, JoinThreads, RemoveSocket, RemoveDirectory, CloseAcceptor, CrashHost, Quiet, SimBudget
<1>3. \A g \in SimHost : g # h => server'[g].pc = server[g].pc
  BY <1>0 DEF Teardown, BeginStop, JoinThreads, RemoveSocket, RemoveDirectory, CloseAcceptor, CrashHost, Goto
<1>4. CASE JoinThreads(h) \/ RemoveSocket(h) \/ RemoveDirectory(h)
  <2>1. session' = session
    BY <1>4 DEF JoinThreads, RemoveSocket, RemoveDirectory, Quiet
  <2>2. ServedBy(h) = {}
    BY <1>4, NoneServed DEF JoinThreads, RemoveSocket, RemoveDirectory, At
  <2>3. server'[h].pc \in Listening
    BY <1>0, <1>4 DEF JoinThreads, RemoveSocket, RemoveDirectory, Goto, Listening, SimServer
  <2>4. \A s \in DOMAIN session : Moves(s)
    BY <1>3, <2>1, <2>2, <2>3, HostMoves
  <2> QED
    BY <1>0, <1>1, <1>2, <2>1, <2>4 DEF Moving, SameCalls
<1>5. CASE BeginStop(h)
  <2>1. server'[h].pc = "joining"
    BY <1>0, <1>5 DEF BeginStop, Goto, SimServer
  <2>2. DOMAIN session' = DOMAIN session /\ Len(session') = Len(session)
    BY <1>0, <1>5 DEF BeginStop, ShutConnections
  <2>3. ASSUME NEW s \in DOMAIN session PROVE Moves(s)
    <3>0. session[s].host \in SimHost
      BY IoTypes
    <3>1. CASE s \in ServedBy(h)
      <4>1. session'[s] = [session[s] EXCEPT !.shut = TRUE]
        BY <1>5, <3>1 DEF BeginStop, ShutConnections
      <4> QED
        BY <2>1, <3>1, <4>1 DEF Moves, ShutDown, ServedBy
    <3>2. CASE s \notin ServedBy(h)
      <4>1. Same(s)
        BY <1>5, <3>2 DEF BeginStop, ShutConnections, Same
      <4>2. session[s].host # h \/ session[s].at \notin {"serving", "handling"}
        BY <3>2 DEF ServedBy
      <4> QED
        BY <1>3, <2>1, <3>0, <4>1, <4>2 DEF Moves, Settled, Listening
    <3> QED
      BY <3>1, <3>2
  <2> QED
    BY <1>1, <1>2, <2>2, <2>3 DEF Moving, SameCalls
<1>6. CASE CloseAcceptor(h) \/ CrashHost(h)
  <2>1. PICK gone : session' = Cut(h, gone) /\ "backlog" \in gone /\ (ServedBy(h) = {} \/ {"serving", "handling"} \subseteq gone)
    <3>1. CASE CloseAcceptor(h)
      BY <3>1, NoneServed DEF CloseAcceptor, At
    <3>2. CASE CrashHost(h)
      BY <3>2 DEF CrashHost
    <3> QED
      BY <1>6, <3>1, <3>2
  <2>2. DOMAIN session' = DOMAIN session /\ Len(session') = Len(session)
    BY <1>0, <2>1, CutTypes, CutPlaces
  <2>3. ASSUME NEW s \in DOMAIN session PROVE Moves(s)
    <3>0. session[s].host \in SimHost
      BY IoTypes
    <3>1. CASE session[s].host = h /\ session[s].at \in gone
      <4>1. session'[s] = [session[s] EXCEPT !.at = "reaped", !.shut = TRUE]
        BY <2>1, <3>1 DEF Cut
      <4> QED
        BY <4>1 DEF Moves, Ends
    <3>2. CASE ~(session[s].host = h /\ session[s].at \in gone)
      <4>1. Same(s)
        BY <2>1, <3>2 DEF Cut, Same
      <4>2. session[s].host = h => session[s].at \notin {"backlog", "serving", "handling"}
        BY <2>1, <3>2 DEF ServedBy
      <4> QED
        BY <1>3, <3>0, <4>1, <4>2 DEF Moves, Settled
    <3> QED
      BY <3>1, <3>2
  <2> QED
    BY <1>1, <1>2, <2>2, <2>3 DEF Moving, SameCalls
<1> QED
  BY <1>4, <1>5, <1>6 DEF Teardown

LEMMA AcceptMoves ==
  ASSUME SimTypes, CallerTypes, HomeInv, NEW h \in SimHost, DoAccept(h)
  PROVE  Moving
<1>0. Len(session) \in Nat /\ DOMAIN session = 1 .. Len(session) /\ \A s \in DOMAIN session : session[s] \in SimConnection
  BY SimTypeFacts
<1>1. UNCHANGED <<server, device, client, budget>>
  BY DEF DoAccept
<1>2. SimTypes' /\ DOMAIN session' = DOMAIN session
  BY AcceptPlaces
<1>3. Len(session') = Len(session)
  BY <1>0, <1>2, SimTypeFacts DEF SimTypes
<1>4. PICK s : s = Min(BacklogOf(h))
  OBVIOUS
<1>5. s \in BacklogOf(h)
  <2>1. BacklogOf(h) \subseteq Nat /\ BacklogOf(h) # {}
    BY <1>0 DEF BacklogOf, DoAccept
  <2> QED
    BY <1>4, <2>1, LeastIs
<1>6. s \in DOMAIN session /\ session[s].host = h /\ session[s].at = "backlog"
  BY <1>5 DEF BacklogOf
<1>7. ASSUME NEW r \in DOMAIN session PROVE Moves(r)
  <2>1. CASE At(h, "serving")
    <3>1. session' = [q \in DOMAIN session |->
               IF q = s THEN [session[q] EXCEPT !.at = "serving"]
               ELSE IF q \in FinishedOf(h) THEN [session[q] EXCEPT !.at = "reaped"] ELSE session[q]]
      BY <1>4, <2>1 DEF DoAccept, At
    <3>2. CASE r = s
      BY <1>1, <1>6, <2>1, <3>1, <3>2 DEF Moves, Accepted, At
    <3>3. CASE r # s /\ r \in FinishedOf(h)
      <4>1. session'[r] = [session[r] EXCEPT !.at = "reaped"]
        BY <3>1, <3>3
      <4>2. session[r].shut \/ session[r].left
        BY <3>3 DEF FinishedOf, HomeInv, Home
      <4> QED
        BY <4>1, <4>2 DEF Moves, Ends
    <3>4. CASE r # s /\ r \notin FinishedOf(h)
      BY <1>1, <3>1, <3>4 DEF Moves, Same, Settled
    <3> QED
      BY <3>2, <3>3, <3>4
  <2>2. CASE At(h, "joining")
    <3>1. session' = [session EXCEPT ![s].at = "reaped", ![s].shut = TRUE]
      BY <1>4, <2>2 DEF DoAccept, At
    <3>2. session' = [session EXCEPT ![s] = [session[s] EXCEPT !.at = "reaped", !.shut = TRUE]]
      BY <1>0, <1>6, <3>1 DEF SimConnection
    <3>3. r # s => session'[r] = session[r]
      BY <3>2
    <3>4. r = s => session'[r] = [session[r] EXCEPT !.at = "reaped", !.shut = TRUE]
      BY <3>2
    <3> QED
      BY <1>1, <3>3, <3>4 DEF Moves, Same, Settled, Ends
  <2> QED
    BY <2>1, <2>2 DEF DoAccept, At
<1> QED
  BY <1>1, <1>2, <1>3, <1>7 DEF Moving, SameCalls

LEMMA ReceiveMoves ==
  ASSUME SimTypes, CallerTypes, HomeInv, NEW s \in DOMAIN session, RecvRequest(s)
  PROVE  Moving
<1>0. Len(session) \in Nat /\ DOMAIN session = 1 .. Len(session) /\ session[s] \in SimConnection
  BY SimTypeFacts
<1>1. UNCHANGED <<server, device, client, budget>> /\ session[s].at = "serving"
  BY DEF RecvRequest
<1>2. SimTypes' /\ DOMAIN session' = DOMAIN session /\ \A i \in DOMAIN session : i # s => session'[i] = session[i]
  BY ServePlaces DEF ServeStep
<1>3. Len(session') = Len(session)
  BY <1>0, <1>2, SimTypeFacts DEF SimTypes
<1>4. Moves(s)
  <2>1. CASE session[s].reqs # <<>>
    <3>1. session' = [session EXCEPT ![s].at = "handling", ![s].req = Head(session[s].reqs), ![s].reqs = Tail(@)]
      BY <2>1 DEF RecvRequest
    <3>2. session'[s] = [session[s] EXCEPT !.at = "handling", !.req = Head(session[s].reqs), !.reqs = Tail(@)]
      BY <1>0, <3>1 DEF SimConnection
    <3> QED
      BY <1>1, <2>1, <3>2 DEF Moves, Received, Settled
  <2>2. CASE session[s].reqs = <<>>
    <3>1. session' = [session EXCEPT ![s].at = "finished"] /\ (session[s].left \/ session[s].shut)
      BY <2>2 DEF RecvRequest
    <3>2. session'[s] = [session[s] EXCEPT !.at = "finished"]
      BY <3>1
    <3> QED
      BY <3>1, <3>2 DEF Moves, Ends
  <2> QED
    BY <2>1, <2>2
<1>5. \A r \in DOMAIN session : r # s => Moves(r)
  BY <1>1, <1>2 DEF Moves, Same, Settled
<1> QED
  BY <1>1, <1>2, <1>3, <1>4, <1>5 DEF Moving, SameCalls

(* A host that starts again has no connection that is open.                *)
LEMMA StartKeeps ==
  ASSUME SimTypes, CallerTypes, HomeInv, ThreadInv, IoRest, NEW h \in SimHost, StartHost(h)
  PROVE  HomeInv' /\ IoRest'
<1>0. server[h] \in SimServer /\ server \in [SimHost -> SimServer] /\ Len(session) \in Nat /\ budget \in SimBudget
  BY SimTypeFacts DEF SimTypes
<1>1. session' = session /\ client' = client /\ server[h].pc = "off"
  BY DEF StartHost, At
<1>2. budget'.calls = budget.calls
  BY <1>0 DEF StartHost, SimBudget
<1>3. \A g \in SimHost : g # h => server'[g].pc = server[g].pc /\ device'[g] = device[g]
  BY <1>0 DEF StartHost, SimTypes
<1>4. device'[h].log = <<>>
  BY DEF StartHost, SimTypes
<1>5. HomeInv'
  <2>1. \A s \in DOMAIN session : Moves(s)
    BY <1>1, <1>3, HostMoves, NoneServed DEF Listening
  <2> QED
    BY <1>1, <2>1, HomeMoves DEF HomeInv
<1>6. \A s \in DOMAIN session : session[s].host = h => session[s].shut \/ session[s].left
  <2> SUFFICES ASSUME NEW s \in DOMAIN session, session[s].host = h PROVE session[s].shut \/ session[s].left
    OBVIOUS
  <2>1. session[s].at \in {"backlog", "serving", "handling", "finished", "reaped"}
    BY IoTypes DEF SimConnection
  <2> QED
    BY <1>1, <2>1 DEF HomeInv, Home, Listening
<1>7. ASSUME NEW s, NEW w, NEW a, s \in DOMAIN session, session[s].left => w.kind # "write", Written(s, w, a) PROVE Written(s, w, a)'
  <2>1. CASE session[s].host = h
    BY <1>1, <1>6, <1>7, <2>1 DEF Written, Open
  <2>2. CASE session[s].host # h
    <3>0. session[s].host \in SimHost
      BY <1>7, IoTypes
    <3>1. device'[session[s].host] = device[session[s].host]
      BY <1>3, <2>2, <3>0
    <3> QED
      BY <1>1, <1>7, <3>1 DEF Written, Open, InLog
  <2> QED
    BY <2>1, <2>2
<1>8. CurrentInv'
  BY <1>1, <1>2 DEF IoRest, CurrentInv, Current
<1>9. OwnInv'
  <2> SUFFICES ASSUME NEW c \in SimClient, client[c].got # NoReply, ~session[client[c].s].late
               PROVE  client[c].got.tag = client[c].want.tag /\ Written(client[c].s, client[c].want, client[c].got)'
    BY <1>1 DEF OwnInv, Own
  <2>1. client[c].s > 0 /\ client[c].s <= Len(session) /\ client[c].s \in Nat /\ client[c].pc \in {"off", "attached"}
    BY IoTypes DEF IoRest, CurrentInv, Current
  <2>2. PICK s, w, a : s \in DOMAIN session /\ s = client[c].s /\ w = client[c].want /\ a = client[c].got
    <3>1. DOMAIN session = 1 .. Len(session) /\ Len(session) \in Nat
      BY IoTypes
    <3>2. client[c].s \in DOMAIN session
      BY <2>1, <3>1
    <3> QED
      BY <3>2
  <2>3. session[s].left => w.kind # "write"
    BY <2>1, <2>2 DEF IoRest, CurrentInv, Current
  <2>4. client[c].got.tag = client[c].want.tag /\ Written(s, w, a)
    BY <2>2 DEF IoRest, OwnInv, Own
  <2>5. Written(s, w, a)'
    BY <1>7, <2>2, <2>3, <2>4
  <2> QED
    BY <1>1, <2>2, <2>4, <2>5
<1>10. AskInv'
  <2> SUFFICES ASSUME NEW s \in DOMAIN session, ~session[s].late
               PROVE  /\ Asked(s)' => Len(session[s].reqs) <= 1 /\ (session[s].at = "handling" => session[s].reqs = <<>>)
                      /\ Asked(s)' /\ ~session[s].shut => Sent(s)' /\ session[s].replies = <<>> /\ Question(s)' = Want(s)'
                      /\ session[s].replies # <<>> =>
                           /\ Sent(s)' /\ Len(session[s].replies) = 1
                           /\ session[s].replies[1].tag = Want(s)'.tag /\ Written(s, Want(s), session[s].replies[1])'
    BY <1>1 DEF AskInv
  <2>1. (Asked(s)' <=> Asked(s)) /\ (Sent(s)' <=> Sent(s)) /\ Question(s)' = Question(s) /\ Want(s)' = Want(s)
    BY <1>1 DEF Asked, Sent, Question, Want
  <2>2. ASSUME session[s].replies # <<>> PROVE Written(s, Want(s), session[s].replies[1])'
    <3>1. Sent(s) /\ Written(s, Want(s), session[s].replies[1])
      BY <2>2 DEF IoRest, AskInv
    <3>2. ~session[s].left
      BY <3>1 DEF Sent, IoRest, CurrentInv, Current
    <3>3. PICK w, a : w = Want(s) /\ a = session[s].replies[1]
      OBVIOUS
    <3>4. Written(s, w, a)'
      BY <1>7, <3>1, <3>2, <3>3
    <3> QED
      BY <1>1, <2>1, <3>3, <3>4
  <2> QED
    BY <2>1, <2>2 DEF IoRest, AskInv
<1>11. OrderInv'
  <2> SUFFICES ASSUME NEW c \in SimClient, ~LateOf(c)'
               PROVE  /\ \A s \in Of(c)' : Asked(s)' =>
                           Question(s)'.tag > budget.calls[c] /\ (client[c].pc = "sent" /\ client[c].s # s => Question(s)'.tag > client[c].want.tag)
                      /\ \A s, r \in Of(c)' : Asked(s)' /\ Asked(r)' /\ session[s].shut /\ session[r].shut /\ session[s].host = session[r].host => s = r
                      /\ \A g \in SimHost : \A i \in DOMAIN device'[g].log : device'[g].log[i].client = c =>
                           /\ device'[g].log[i].tag > budget.calls[c]
                           /\ \A s \in Of(c)' : Asked(s)' /\ (~session[s].shut \/ session[s].host = g) => device'[g].log[i].tag > Question(s)'.tag
                           /\ \A j \in DOMAIN device'[g].log : i < j /\ device'[g].log[j].client = c => device'[g].log[i].tag >= device'[g].log[j].tag
    BY <1>1, <1>2 DEF OrderInv
  <2>1. Of(c)' = Of(c) /\ ~LateOf(c) /\ \A s : (Asked(s)' <=> Asked(s)) /\ Question(s)' = Question(s)
    BY <1>1 DEF Of, LateOf, Asked, Question
  <2>2. ASSUME NEW g \in SimHost, NEW i \in DOMAIN device'[g].log PROVE g # h /\ device'[g].log = device[g].log
    BY <1>3, <1>4
  <2> QED
    BY <2>1, <2>2 DEF IoRest, OrderInv
<1>12. LogInv'
  BY <1>3, <1>4 DEF IoRest, LogInv
<1> QED
  BY <1>5, <1>8, <1>9, <1>10, <1>11, <1>12 DEF IoRest

(* A connection comes in, from a probe or from a client that attaches.     *)
Joins(r) ==
  /\ session' = Append(session, r) /\ r \in SimConnection
  /\ r.at = "backlog" /\ r.reqs = <<>> /\ r.replies = <<>> /\ ~r.shut /\ ~r.late
  /\ device' = device /\ budget'.calls = budget.calls
  /\ \A c \in SimClient :
       \/ client'[c] = client[c]
       \/ /\ client[c].pc = "connect" /\ r.client = c /\ ~r.left
          /\ client'[c] = [client[c] EXCEPT !.pc = "attached", !.s = Len(session) + 1]

LEMMA ArrivalKeeps ==
  ASSUME SimTypes, CallerTypes, HomeInv, IoRest, NEW r, Joins(r), NEW h \in SimHost,
         \A g \in SimHost : g # h => server'[g].pc = server[g].pc,
         server'[h].pc = server[h].pc \/ (ServedBy(h) = {} /\ server[h].pc \notin Listening),
         server'[r.host].pc \in Listening
  PROVE  HomeInv' /\ IoRest'
<1>0. Len(session) \in Nat /\ DOMAIN session = 1 .. Len(session) /\ session \in Seq(SimConnection)
  BY IoTypes DEF SimTypes
<1>1. r \in SimConnection /\ session' = Append(session, r)
  BY DEF Joins
<1>2. PICK n : n = Len(session) + 1
  OBVIOUS
<1>3. /\ Len(session') = n /\ DOMAIN session' = 1 .. n /\ session'[n] = r
      /\ \A s \in DOMAIN session : session'[s] = session[s] /\ s # n /\ s \in DOMAIN session'
      /\ \A s \in DOMAIN session' : s = n \/ s \in DOMAIN session
  <2>1. session' \in Seq(SimConnection) /\ Len(session') = n /\ session'[n] = r /\ \A s \in 1 .. Len(session) : session'[s] = session[s]
    BY <1>0, <1>1, <1>2
  <2> QED
    BY <1>0, <1>2, <2>1
<1>4. HomeInv'
  <2>1. \A s \in DOMAIN session : Moves(s)
    BY <1>3, HostMoves
  <2>2. \A s \in DOMAIN session : Home(s)'
    BY <2>1, HomeMoves
  <2>3. Home(n)'
    BY <1>3 DEF Home, Joins
  <2> QED
    BY <1>3, <2>2, <2>3 DEF HomeInv
<1>5. device' = device /\ budget'.calls = budget.calls /\ ~Asked(n)' /\ session'[n].replies = <<>> /\ ~session'[n].late
  BY <1>3 DEF Joins, Asked
<1>6. \A s \in DOMAIN session : (Asked(s)' <=> Asked(s)) /\ Question(s)' = Question(s) /\ session'[s] = session[s]
  BY <1>3 DEF Asked, Question
<1>7. \A s \in DOMAIN session : \A w, a : Written(s, w, a)' <=> Written(s, w, a)
  BY <1>3, <1>5 DEF Written, Open, InLog
<1>8. ASSUME NEW c \in SimClient, client'[c] # client[c]
      PROVE  /\ client[c].pc = "connect" /\ client[c].got = NoReply /\ r.client = c /\ ~r.left
             /\ client'[c].pc = "attached" /\ client'[c].s = n /\ client'[c].got = NoReply
             /\ client'[c].want = client[c].want /\ client'[c].fresh = client[c].fresh
  <2>1. client[c] \in SimCaller
    BY IoTypes
  <2>2. client[c].pc = "connect" /\ r.client = c /\ ~r.left /\ client'[c] = [client[c] EXCEPT !.pc = "attached", !.s = n]
    BY <1>2, <1>8 DEF Joins
  <2>3. client[c].got = NoReply
    BY <2>2 DEF IoRest, CurrentInv, Current
  <2> QED
    BY <2>1, <2>2, <2>3 DEF SimCaller
<1>9. CurrentInv'
  <2> SUFFICES ASSUME NEW c \in SimClient PROVE Current(c)'
    BY DEF CurrentInv
  <2>0. Current(c) /\ client[c].s \in Nat
    BY IoTypes DEF IoRest, CurrentInv
  <2>1. CASE client'[c] = client[c]
    <3>1. client[c].s > 0 => session'[client[c].s] = session[client[c].s]
      BY <1>0, <1>3, <2>0 DEF Current
    <3>2. client[c].s <= n
      BY <1>0, <1>2, <2>0 DEF Current
    <3> QED
      BY <1>3, <1>5, <2>0, <2>1, <3>1, <3>2 DEF Current
  <2>2. CASE client'[c] # client[c]
    <3>1. n > 0 /\ n <= n
      BY <1>0, <1>2
    <3> QED
      BY <1>3, <1>8, <2>0, <2>2, <3>1 DEF Current
  <2> QED
    BY <2>1, <2>2
<1>10. OwnInv'
  <2> SUFFICES ASSUME NEW c \in SimClient PROVE Own(c)'
    BY DEF OwnInv
  <2>1. CASE client'[c] # client[c]
    BY <1>8, <2>1 DEF Own
  <2>2. CASE client'[c] = client[c] /\ client[c].got # NoReply
    <3>1. client[c].s > 0 /\ client[c].s <= Len(session) /\ client[c].s \in Nat
      BY <2>2, IoTypes DEF IoRest, CurrentInv, Current
    <3>2. PICK s, w, a : s \in DOMAIN session /\ s = client[c].s /\ w = client[c].want /\ a = client[c].got
      <4>1. client[c].s \in DOMAIN session
        BY <1>0, <3>1
      <4> QED
        BY <4>1
    <3>3. ~session[s].late => client[c].got.tag = client[c].want.tag /\ Written(s, w, a)
      BY <2>2, <3>2 DEF IoRest, OwnInv, Own
    <3>4. session'[s] = session[s] /\ (Written(s, w, a)' <=> Written(s, w, a))
      BY <1>3, <1>7, <3>2
    <3> QED
      BY <2>2, <3>2, <3>3, <3>4 DEF Own
  <2>3. CASE client'[c] = client[c] /\ client[c].got = NoReply
    BY <2>3 DEF Own
  <2> QED
    BY <2>1, <2>2, <2>3
<1>11. AskInv'
  <2> SUFFICES ASSUME NEW s \in DOMAIN session', ~session'[s].late
               PROVE  /\ Asked(s)' => Len(session'[s].reqs) <= 1 /\ (session'[s].at = "handling" => session'[s].reqs = <<>>)
                      /\ Asked(s)' /\ ~session'[s].shut => Sent(s)' /\ session'[s].replies = <<>> /\ Question(s)' = Want(s)'
                      /\ session'[s].replies # <<>> =>
                           /\ Sent(s)' /\ Len(session'[s].replies) = 1
                           /\ session'[s].replies[1].tag = Want(s)'.tag /\ Written(s, Want(s), session[s].replies[1])'
    BY DEF AskInv
  <2>1. CASE s = n
    BY <1>5, <2>1
  <2>2. CASE s # n
    <3>1. s \in DOMAIN session /\ session'[s] = session[s] /\ (Asked(s)' <=> Asked(s)) /\ Question(s)' = Question(s)
      BY <1>3, <1>6, <2>2
    <3>2. Sent(s) => Sent(s)' /\ Want(s)' = Want(s)
      <4>1. SUFFICES ASSUME Sent(s) PROVE client'[session[s].client] = client[session[s].client]
        BY <3>1 DEF Sent, Want
      <4> QED
        BY <1>8, <4>1 DEF Sent
    <3>3. PICK w, a : w = Want(s) /\ a = session[s].replies[1]
      OBVIOUS
    <3>4. Written(s, w, a)' <=> Written(s, w, a)
      BY <1>7, <3>1
    <3>5. session[s].replies # <<>> => Sent(s) /\ Len(session[s].replies) = 1 /\ a.tag = w.tag /\ Written(s, w, a)
      BY <3>1, <3>3 DEF IoRest, AskInv
    <3>6. session'[s].replies # <<>> =>
            /\ Sent(s)' /\ Len(session'[s].replies) = 1
            /\ session'[s].replies[1].tag = Want(s)'.tag /\ Written(s, Want(s), session[s].replies[1])'
      BY <3>1, <3>2, <3>3, <3>4, <3>5
    <3>7. Asked(s)' => Len(session'[s].reqs) <= 1 /\ (session'[s].at = "handling" => session'[s].reqs = <<>>)
      BY <3>1 DEF IoRest, AskInv
    <3>8. Asked(s)' /\ ~session'[s].shut => Sent(s)' /\ session'[s].replies = <<>> /\ Question(s)' = Want(s)'
      BY <3>1, <3>2 DEF IoRest, AskInv
    <3> QED
      BY <3>6, <3>7, <3>8
  <2> QED
    BY <2>1, <2>2
<1>12. OrderInv'
  <2> SUFFICES ASSUME NEW c \in SimClient, ~LateOf(c)'
               PROVE  /\ \A s \in Of(c)' : Asked(s)' =>
                           Question(s)'.tag > budget.calls[c] /\ (client'[c].pc = "sent" /\ client'[c].s # s => Question(s)'.tag > client'[c].want.tag)
                      /\ \A s, q \in Of(c)' : Asked(s)' /\ Asked(q)' /\ session'[s].shut /\ session'[q].shut /\ session'[s].host = session'[q].host => s = q
                      /\ \A g \in SimHost : \A i \in DOMAIN device[g].log : device[g].log[i].client = c =>
                           /\ device[g].log[i].tag > budget.calls[c]
                           /\ \A s \in Of(c)' : Asked(s)' /\ (~session'[s].shut \/ session'[s].host = g) => device[g].log[i].tag > Question(s)'.tag
                           /\ \A j \in DOMAIN device[g].log : i < j /\ device[g].log[j].client = c => device[g].log[i].tag >= device[g].log[j].tag
    BY <1>5 DEF OrderInv
  <2>1. ~LateOf(c)
    BY <1>3 DEF LateOf
  <2>2. \A s \in Of(c)' : Asked(s)' => s \in Of(c) /\ Asked(s) /\ Question(s)' = Question(s) /\ session'[s] = session[s]
    BY <1>3, <1>5, <1>6 DEF Of
  <2>3. client'[c].pc = "sent" => client'[c] = client[c]
    BY <1>8
  <2>4. /\ \A s \in Of(c) : Asked(s) =>
             Question(s).tag > budget.calls[c] /\ (client[c].pc = "sent" /\ client[c].s # s => Question(s).tag > client[c].want.tag)
        /\ \A s, q \in Of(c) : Asked(s) /\ Asked(q) /\ session[s].shut /\ session[q].shut /\ session[s].host = session[q].host => s = q
    BY <2>1 DEF IoRest, OrderInv
  <2>5. \A g \in SimHost : \A i \in DOMAIN device[g].log : device[g].log[i].client = c =>
          /\ device[g].log[i].tag > budget.calls[c]
          /\ \A s \in Of(c) : Asked(s) /\ (~session[s].shut \/ session[s].host = g) => device[g].log[i].tag > Question(s).tag
          /\ \A j \in DOMAIN device[g].log : i < j /\ device[g].log[j].client = c => device[g].log[i].tag >= device[g].log[j].tag
    BY <2>1 DEF IoRest, OrderInv
  <2>6. \A s \in Of(c)' : Asked(s)' =>
          Question(s)'.tag > budget.calls[c] /\ (client'[c].pc = "sent" /\ client'[c].s # s => Question(s)'.tag > client'[c].want.tag)
    BY <2>2, <2>3, <2>4
  <2>7. \A s, q \in Of(c)' : Asked(s)' /\ Asked(q)' /\ session'[s].shut /\ session'[q].shut /\ session'[s].host = session'[q].host => s = q
    BY <2>2, <2>4
  <2> QED
    BY <2>2, <2>5, <2>6, <2>7
<1>13. LogInv'
  BY <1>5 DEF IoRest, LogInv
<1> QED
  BY <1>4, <1>9, <1>10, <1>11, <1>12, <1>13 DEF IoRest

LEMMA InSeq ==
  ASSUME NEW S, NEW q \in Seq(S), NEW i \in DOMAIN q
  PROVE  q[i] \in S
OBVIOUS

LEMMA LogEntries ==
  ASSUME SimTypes, CallerTypes, NEW h \in SimHost, NEW i \in DOMAIN device[h].log
  PROVE  device[h].log[i].tag \in Nat
<1>1. PICK S : S = [client : SimClient \cup {Nobody}, tag : Nat]
  OBVIOUS
<1>2. device[h].log \in Seq(S)
  BY <1>1, IoTypes
<1>3. device[h].log[i] \in S
  BY <1>2, InSeq
<1> QED
  BY <1>1, <1>3

LEMMA QuestionType ==
  ASSUME SimTypes, CallerTypes, NEW s \in DOMAIN session, Asked(s)
  PROVE  Question(s) \in SimRequest /\ Question(s).tag \in Nat
<1>1. session[s].req \in SimRequest /\ session[s].reqs \in Seq(SimRequest)
  BY IoTypes
<1>2. session[s].at # "handling" => session[s].reqs # <<>>
  BY DEF Asked
<1>3. session[s].at # "handling" => session[s].reqs[1] \in SimRequest
  BY <1>1, <1>2
<1>4. Question(s) \in SimRequest
  BY <1>1, <1>3 DEF Question
<1> QED
  BY <1>4 DEF SimRequest

(* A client is done with what it asked: it has the reply, or gives up, on  *)
(* a connection that is shut or from now on late.                          *)
Trims(s) ==
  /\ session'[s].client = session[s].client /\ session'[s].host = session[s].host /\ session'[s].at = session[s].at
  /\ session'[s].reqs = session[s].reqs /\ session'[s].req = session[s].req /\ session'[s].shut = session[s].shut
  /\ (session[s].late => session'[s].late) /\ (session[s].left => session'[s].left)
Leaving(c) ==
  /\ Len(session') = Len(session) /\ DOMAIN session' = DOMAIN session
  /\ \A s \in DOMAIN session : session'[s] = session[s] \/ (s = client[c].s /\ session[s].client = c /\ Trims(s))
  /\ client[c].s \in DOMAIN session /\ session[client[c].s].client = c =>
       \/ session'[client[c].s].late
       \/ session'[client[c].s].replies = <<>> /\ (Asked(client[c].s) => session[client[c].s].shut)
  /\ \A b \in SimClient : b # c => client'[b] = client[b] /\ budget'.calls[b] = budget.calls[b]
  /\ budget'.calls[c] \in Nat /\ budget'.calls[c] <= budget.calls[c]
  /\ client'[c].pc # "sent" /\ Current(c)' /\ Own(c)'
  /\ server' = server /\ device' = device

LEMMA LeaveKeeps ==
  ASSUME SimTypes, CallerTypes, HomeInv, IoRest, NEW c \in SimClient, Leaving(c)
  PROVE  HomeInv' /\ IoRest'
<1>0. Len(session) \in Nat /\ DOMAIN session = 1 .. Len(session)
  BY IoTypes
<1>1. Len(session') = Len(session) /\ DOMAIN session' = DOMAIN session /\ server' = server /\ device' = device
  BY DEF Leaving
<1>2. \A s \in DOMAIN session : Trims(s) /\ (session'[s] = session[s] \/ (s = client[c].s /\ session[s].client = c))
  BY DEF Leaving, Trims
<1>3. \A s \in DOMAIN session : (Asked(s)' <=> Asked(s)) /\ Question(s)' = Question(s)
  BY <1>2 DEF Trims, Asked, Question
<1>4. \A s \in DOMAIN session : \A w, a : Written(s, w, a)' <=> Written(s, w, a)
  <2> TAKE s \in DOMAIN session
  <2>1. session'[s].host = session[s].host /\ session'[s].client = session[s].client /\ session'[s].shut = session[s].shut
    BY <1>2 DEF Trims
  <2> QED
    BY <1>1, <2>1 DEF Written, Open, InLog
<1>5. \A b \in SimClient : b # c => client'[b] = client[b] /\ budget'.calls[b] = budget.calls[b]
  BY DEF Leaving
<1>6. HomeInv'
  <2> SUFFICES ASSUME NEW s \in DOMAIN session PROVE Home(s)'
    BY <1>1 DEF HomeInv
  <2>1. Home(s) /\ Trims(s)
    BY <1>2 DEF HomeInv
  <2> QED
    BY <1>1, <2>1 DEF Home, Trims
<1>7. \A b \in SimClient : b # c => Current(b)' /\ Own(b)'
  <2> SUFFICES ASSUME NEW b \in SimClient, b # c PROVE Current(b)' /\ Own(b)'
    OBVIOUS
  <2>0. Current(b) /\ Own(b) /\ client'[b] = client[b] /\ budget'.calls[b] = budget.calls[b] /\ client[b].s \in Nat
    BY <1>5, IoTypes DEF IoRest, CurrentInv, OwnInv
  <2>1. client[b].s > 0 => client[b].s \in DOMAIN session
    BY <1>0, <2>0 DEF Current
  <2>2. client[b].s > 0 => session'[client[b].s].client = session[client[b].s].client
    BY <1>2, <2>1 DEF Trims
  <2>3. client[b].s > 0 /\ session[client[b].s].client = b => session'[client[b].s] = session[client[b].s]
    BY <1>2, <2>1
  <2>4. Current(b)'
    BY <1>1, <2>0, <2>2, <2>3 DEF Current
  <2>5. Own(b)'
    <3>1. CASE client[b].got = NoReply
      BY <2>0, <3>1 DEF Own
    <3>2. CASE client[b].got # NoReply
      <4>1. client[b].s > 0 /\ session[client[b].s].client = b
        BY <2>0, <3>2 DEF Current
      <4>2. PICK s, w, a : s \in DOMAIN session /\ s = client[b].s /\ w = client[b].want /\ a = client[b].got
        BY <2>1, <4>1
      <4>3. ~session[s].late => client[b].got.tag = client[b].want.tag /\ Written(s, w, a)
        BY <2>0, <3>2, <4>2 DEF Own
      <4>4. session'[s] = session[s] /\ (Written(s, w, a)' <=> Written(s, w, a))
        BY <1>4, <2>3, <4>1, <4>2
      <4> QED
        BY <2>0, <4>2, <4>3, <4>4 DEF Own
    <3> QED
      BY <3>1, <3>2
  <2> QED
    BY <2>4, <2>5
<1>8. CurrentInv' /\ OwnInv'
  BY <1>7 DEF CurrentInv, OwnInv, Leaving
<1>9. AskInv'
  <2> SUFFICES ASSUME NEW s \in DOMAIN session, ~session'[s].late
               PROVE  /\ Asked(s)' => Len(session'[s].reqs) <= 1 /\ (session'[s].at = "handling" => session'[s].reqs = <<>>)
                      /\ Asked(s)' /\ ~session'[s].shut => Sent(s)' /\ session'[s].replies = <<>> /\ Question(s)' = Want(s)'
                      /\ session'[s].replies # <<>> =>
                           /\ Sent(s)' /\ Len(session'[s].replies) = 1
                           /\ session'[s].replies[1].tag = Want(s)'.tag /\ Written(s, Want(s), session[s].replies[1])'
    BY <1>1 DEF AskInv
  <2>0. Trims(s) /\ ~session[s].late /\ (Asked(s)' <=> Asked(s)) /\ Question(s)' = Question(s)
    BY <1>2, <1>3 DEF Trims
  <2>1. Asked(s)' => Len(session'[s].reqs) <= 1 /\ (session'[s].at = "handling" => session'[s].reqs = <<>>)
    BY <2>0 DEF IoRest, AskInv, Trims
  <2>2. CASE session[s].client = c
    <3>1. CASE s = client[c].s
      <4>1. session'[s].replies = <<>> /\ (Asked(s) => session[s].shut)
        BY <2>2, <3>1 DEF Leaving
      <4> QED
        BY <2>0, <2>1, <4>1 DEF Trims
    <3>2. CASE s # client[c].s
      <4>1. session'[s] = session[s] /\ ~Sent(s)
        BY <1>2, <2>2, <3>2 DEF Sent
      <4>2. session[s].replies = <<>> /\ (Asked(s) => session[s].shut)
        BY <2>0, <4>1 DEF IoRest, AskInv
      <4> QED
        BY <2>0, <2>1, <4>1, <4>2
    <3> QED
      BY <3>1, <3>2
  <2>3. CASE session[s].client # c
    <3>1. session'[s] = session[s]
      BY <1>2, <2>3
    <3>2. Sent(s) => Sent(s)' /\ Want(s)' = Want(s)
      BY <1>5, <2>3, <3>1 DEF Sent, Want
    <3>3. PICK w, a : w = Want(s) /\ a = session[s].replies[1]
      OBVIOUS
    <3>4. Written(s, w, a)' <=> Written(s, w, a)
      BY <1>4
    <3>5. session[s].replies # <<>> => Sent(s) /\ Len(session[s].replies) = 1 /\ a.tag = w.tag /\ Written(s, w, a)
      BY <2>0, <3>3 DEF IoRest, AskInv
    <3>6. session'[s].replies # <<>> =>
            /\ Sent(s)' /\ Len(session'[s].replies) = 1
            /\ session'[s].replies[1].tag = Want(s)'.tag /\ Written(s, Want(s), session[s].replies[1])'
      BY <3>1, <3>2, <3>3, <3>4, <3>5
    <3>7. Asked(s)' /\ ~session'[s].shut => Sent(s)' /\ session'[s].replies = <<>> /\ Question(s)' = Want(s)'
      BY <2>0, <3>1, <3>2 DEF IoRest, AskInv
    <3> QED
      BY <2>1, <3>6, <3>7
  <2> QED
    BY <2>2, <2>3
<1>10. OrderInv'
  <2> SUFFICES ASSUME NEW b \in SimClient, ~LateOf(b)'
               PROVE  /\ \A s \in Of(b)' : Asked(s)' =>
                           Question(s)'.tag > budget'.calls[b] /\ (client'[b].pc = "sent" /\ client'[b].s # s => Question(s)'.tag > client'[b].want.tag)
                      /\ \A s, q \in Of(b)' : Asked(s)' /\ Asked(q)' /\ session'[s].shut /\ session'[q].shut /\ session'[s].host = session'[q].host => s = q
                      /\ \A g \in SimHost : \A i \in DOMAIN device[g].log : device[g].log[i].client = b =>
                           /\ device[g].log[i].tag > budget'.calls[b]
                           /\ \A s \in Of(b)' : Asked(s)' /\ (~session'[s].shut \/ session'[s].host = g) => device[g].log[i].tag > Question(s)'.tag
                           /\ \A j \in DOMAIN device[g].log : i < j /\ device[g].log[j].client = b => device[g].log[i].tag >= device[g].log[j].tag
    BY <1>1 DEF OrderInv
  <2>1. ~LateOf(b) /\ Of(b)' = Of(b)
    BY <1>1, <1>2 DEF LateOf, Of, Trims
  <2>2. \A s \in Of(b) : /\ (Asked(s)' <=> Asked(s)) /\ Question(s)' = Question(s)
                         /\ session'[s].shut = session[s].shut /\ session'[s].host = session[s].host
    BY <1>2, <1>3 DEF Of, Trims
  <2>3. client'[b].pc = "sent" => client'[b] = client[b]
    BY <1>5 DEF Leaving
  <2>4. budget'.calls[b] \in Nat /\ budget.calls[b] \in Nat /\ budget'.calls[b] <= budget.calls[b]
    <3>1. CASE b = c
      BY <3>1, IoTypes DEF Leaving
    <3>2. CASE b # c
      <4>1. budget'.calls[b] = budget.calls[b] /\ budget.calls[b] \in Nat
        BY <3>2, IoTypes DEF Leaving
      <4> QED
        BY <4>1
    <3> QED
      BY <3>1, <3>2
  <2>5. \A s \in Of(b) : Asked(s) => Question(s).tag \in Nat
    BY QuestionType DEF Of
  <2>6. \A s \in Of(b)' : Asked(s)' =>
          Question(s)'.tag > budget'.calls[b] /\ (client'[b].pc = "sent" /\ client'[b].s # s => Question(s)'.tag > client'[b].want.tag)
    <3> SUFFICES ASSUME NEW s \in Of(b), Asked(s)
                 PROVE  Question(s).tag > budget'.calls[b] /\ (client'[b].pc = "sent" /\ client'[b].s # s => Question(s).tag > client'[b].want.tag)
      BY <2>1, <2>2
    <3>1. Question(s).tag > budget.calls[b] /\ (client[b].pc = "sent" /\ client[b].s # s => Question(s).tag > client[b].want.tag)
      BY <2>1 DEF IoRest, OrderInv
    <3>2. Question(s).tag \in Nat
      BY <2>5
    <3> QED
      BY <2>3, <2>4, <3>1, <3>2
  <2>7. \A s, q \in Of(b)' : Asked(s)' /\ Asked(q)' /\ session'[s].shut /\ session'[q].shut /\ session'[s].host = session'[q].host => s = q
    BY <2>1, <2>2 DEF IoRest, OrderInv
  <2>8. ASSUME NEW g \in SimHost, NEW i \in DOMAIN device[g].log, device[g].log[i].client = b
        PROVE  /\ device[g].log[i].tag > budget'.calls[b]
               /\ \A s \in Of(b)' : Asked(s)' /\ (~session'[s].shut \/ session'[s].host = g) => device[g].log[i].tag > Question(s)'.tag
               /\ \A j \in DOMAIN device[g].log : i < j /\ device[g].log[j].client = b => device[g].log[i].tag >= device[g].log[j].tag
    <3>1. /\ device[g].log[i].tag > budget.calls[b]
          /\ \A s \in Of(b) : Asked(s) /\ (~session[s].shut \/ session[s].host = g) => device[g].log[i].tag > Question(s).tag
          /\ \A j \in DOMAIN device[g].log : i < j /\ device[g].log[j].client = b => device[g].log[i].tag >= device[g].log[j].tag
      BY <2>1, <2>8 DEF IoRest, OrderInv
    <3>2. device[g].log[i].tag \in Nat
      BY LogEntries
    <3>3. device[g].log[i].tag > budget'.calls[b]
      BY <2>4, <3>1, <3>2
    <3> QED
      BY <2>1, <2>2, <3>1, <3>3
  <2> QED
    BY <2>6, <2>7, <2>8
<1>11. LogInv'
  BY <1>1 DEF IoRest, LogInv
<1> QED
  BY <1>6, <1>8, <1>9, <1>10, <1>11 DEF IoRest

LEMMA NotWaiting ==
  ASSUME AskInv, NEW s \in DOMAIN session, ~Sent(s), ~session[s].late
  PROVE  session[s].replies = <<>> /\ (Asked(s) => session[s].shut)
BY DEF AskInv

LEMMA CallerSet ==
  ASSUME CallerTypes, NEW c \in SimClient, NEW r \in SimCaller, client' = [client EXCEPT ![c] = r]
  PROVE  client' \in [SimClient -> SimCaller] /\ client'[c] = r /\ \A b \in SimClient : b # c => client'[b] = client[b]
BY DEF CallerTypes

LEMMA NoClientType == NoClient \in SimCaller /\ NoRequest \in SimRequest /\ NoReply \in SimReply /\ NoRequest.kind = "none"
<1>1. 0 \in Dir
  BY SimBounds DEF Dir
<1>2. NoRequest \in SimRequest /\ NoRequest.kind = "none" /\ NoReply \in SimReply
  BY DEF NoRequest, NoReply, SimRequest, SimReply
<1> QED
  BY <1>1, <1>2 DEF NoClient, SimCaller

(* A client without a connection.                                          *)
LEMMA Unconnected ==
  ASSUME NEW c \in SimClient, client'[c].pc \in {"off", "connect"}, client'[c].s = 0, client'[c].got = NoReply,
         client'[c].want = NoRequest, Len(session') \in Nat
  PROVE  client'[c].pc # "sent" /\ Current(c)' /\ Own(c)'
BY NoClientType DEF Current, Own

LEMMA DropFields ==
  ASSUME NEW r \in SimConnection, NEW q, q = [r EXCEPT !.left = TRUE, !.replies = <<>>]
  PROVE  /\ q \in SimConnection /\ q.replies = <<>> /\ q.left
         /\ q.client = r.client /\ q.host = r.host /\ q.at = r.at /\ q.reqs = r.reqs /\ q.req = r.req
         /\ q.shut = r.shut /\ q.late = r.late
<1>1. <<>> \in Seq(SimReply)
  OBVIOUS
<1> QED
  BY <1>1 DEF SimConnection

(* The connection of a client that goes away.                              *)
LEMMA DropTrims ==
  ASSUME SimTypes, CallerTypes, NEW c \in SimClient, NEW i \in DOMAIN session, i = client[c].s, session' = Dropped(c)
  PROVE  /\ Len(session') = Len(session) /\ DOMAIN session' = DOMAIN session
         /\ \A s \in DOMAIN session : s # i => session'[s] = session[s]
         /\ Trims(i) /\ session'[i].replies = <<>>
<1>0. session[i] \in SimConnection /\ DOMAIN session = 1 .. Len(session) /\ Len(session) \in Nat
  BY IoTypes
<1>1. PICK q : q = [session[i] EXCEPT !.left = TRUE, !.replies = <<>>]
  OBVIOUS
<1>2. session' = [session EXCEPT ![i] = q]
  BY <1>0, <1>1 DEF Dropped, SimConnection
<1>3. /\ q \in SimConnection /\ q.replies = <<>> /\ q.left
      /\ q.client = session[i].client /\ q.host = session[i].host /\ q.at = session[i].at /\ q.reqs = session[i].reqs
      /\ q.req = session[i].req /\ q.shut = session[i].shut /\ q.late = session[i].late
  BY <1>0, <1>1, DropFields
<1>4. /\ session' \in Seq(SimConnection) /\ DOMAIN session' = DOMAIN session
      /\ session'[i] = q /\ \A s \in DOMAIN session : s # i => session'[s] = session[s]
  BY <1>2, <1>3, SessionChange
<1>5. Len(session') = Len(session)
  BY <1>0, <1>4
<1> QED
  BY <1>3, <1>4, <1>5 DEF Trims

LEMMA GiveUpFields ==
  ASSUME NEW r \in SimCaller, NEW q, q = [r EXCEPT !.pc = "attached", !.got = NoReply, !.want = NoRequest]
  PROVE  q \in SimCaller /\ q.pc = "attached" /\ q.got = NoReply /\ q.want = NoRequest /\ q.s = r.s
BY NoClientType DEF SimCaller

SameHosts == server' = server /\ device' = device /\ dirs' = dirs
SpentBy(c) ==
  /\ \A b \in SimClient : b # c => budget'.calls[b] = budget.calls[b]
  /\ budget'.calls[c] \in Nat /\ budget'.calls[c] <= budget.calls[c]

LEMMA DiscoverLeaves ==
  ASSUME SimTypes, CallerTypes, HomeInv, IoRest, NEW c \in SimClient,
         Discover(c) \/ (Attach(c) /\ session' = session)
  PROVE  CallerTypes' /\ Leaving(c)
<1>0. Len(session) \in Nat
  BY IoTypes
<1>1. session' = session /\ budget' = budget /\ SameHosts
  BY DEF Discover, Attach, ClientOnly, SameHosts
<1>2. client[c].pc \in {"off", "connect"}
  BY DEF Discover, Attach
<1>3. PICK r \in SimCaller : /\ client' = [client EXCEPT ![c] = r] /\ r.pc \in {"off", "connect"} /\ r.s = 0
                             /\ r.got = NoReply /\ r.want = NoRequest
  <2>1. CASE Discover(c)
    <3>1. PICK d \in dirs, why \in {"device", "kill"} :
            client' = [client EXCEPT ![c] = [NoClient EXCEPT !.pc = "connect", !.why = why, !.dir = d]]
      BY <2>1 DEF Discover
    <3>2. PICK r : r = [NoClient EXCEPT !.pc = "connect", !.why = why, !.dir = d]
      OBVIOUS
    <3>3. d \in Dir
      BY DEF CallerTypes
    <3>4. r \in SimCaller /\ r.pc = "connect" /\ r.s = 0 /\ r.got = NoReply /\ r.want = NoRequest
      BY <3>2, <3>3, NoClientType DEF NoClient, SimCaller
    <3> QED
      BY <3>1, <3>2, <3>4
  <2>2. CASE Attach(c) /\ session' = session
    <3>1. client' = [client EXCEPT ![c] = NoClient]
      <4>1. ASSUME NEW g, session' = Append(session, Connection(c, g, FALSE)) PROVE FALSE
        <5>1. PICK q : q = Connection(c, g, FALSE)
          OBVIOUS
        <5>2. session \in Seq(SimConnection) /\ session' = Append(session, q)
          BY <4>1, <5>1 DEF SimTypes
        <5>3. Len(Append(session, q)) = Len(session) + 1
          BY <5>2
        <5> QED
          BY <1>0, <1>1, <5>2, <5>3
      <4> QED
        BY <2>2, <4>1 DEF Attach
    <3> QED
      BY <3>1, NoClientType DEF NoClient
  <2> QED
    BY <2>1, <2>2
<1>4. client' \in [SimClient -> SimCaller] /\ client'[c] = r /\ \A b \in SimClient : b # c => client'[b] = client[b]
  BY <1>3, CallerSet
<1>5. CallerTypes'
  BY <1>1, <1>4 DEF CallerTypes, SameHosts
<1>6. client'[c].pc # "sent" /\ Current(c)' /\ Own(c)'
  BY <1>0, <1>1, <1>3, <1>4, Unconnected
<1>7. ASSUME client[c].s \in DOMAIN session, session[client[c].s].client = c, ~session[client[c].s].late
      PROVE  session[client[c].s].replies = <<>> /\ (Asked(client[c].s) => session[client[c].s].shut)
  <2>1. ~Sent(client[c].s)
    BY <1>2, <1>7 DEF Sent
  <2> QED
    BY <1>7, <2>1, NotWaiting DEF IoRest
<1>8. budget.calls[c] \in Nat
  BY IoTypes
<1> QED
  BY <1>1, <1>4, <1>5, <1>6, <1>7, <1>8 DEF Leaving, SameHosts

LEMMA Attached ==
  ASSUME SimTypes, CallerTypes, IoRest, NEW c \in SimClient, client[c].pc \in {"attached", "sent"}
  PROVE  /\ client[c].s \in DOMAIN session /\ session[client[c].s].client = c /\ ~session[client[c].s].left
         /\ session[client[c].s] \in SimConnection
<1>1. client[c].s > 0 /\ client[c].s <= Len(session) /\ client[c].s \in Nat /\ Len(session) \in Nat /\ DOMAIN session = 1 .. Len(session)
  BY IoTypes DEF IoRest, CurrentInv, Current
<1>2. client[c].s \in DOMAIN session
  BY <1>1
<1> QED
  BY <1>2, IoTypes DEF IoRest, CurrentInv, Current

(* transact() throws on a connection that was shut down.                   *)
LEMMA ThrowLeaves ==
  ASSUME SimTypes, CallerTypes, HomeInv, IoRest, NEW c \in SimClient, client[c].pc \in {"attached", "sent"},
         Session(c).shut, client[c].pc = "sent" => Session(c).replies = <<>>, Throw(c), SameHosts, SpentBy(c)
  PROVE  CallerTypes' /\ Leaving(c)
<1>0. PICK i \in DOMAIN session : i = client[c].s /\ session[i].client = c /\ ~session[i].left /\ session[i].shut
  BY Attached DEF Session
<1>1. Len(session) \in Nat
  BY IoTypes
<1>2. ~session[i].late => session[i].replies = <<>>
  <2>1. CASE client[c].pc = "sent"
    BY <1>0, <2>1 DEF Session
  <2>2. CASE client[c].pc = "attached"
    <3>1. ~Sent(i)
      BY <1>0, <2>2 DEF Sent
    <3> QED
      BY <3>1, NotWaiting DEF IoRest
  <2> QED
    BY <2>1, <2>2
<1>3. CASE client[c].fresh
  <2>1. session' = Dropped(c) /\ client' = [client EXCEPT ![c] = NoClient]
    BY <1>3 DEF Throw
  <2>2. client' \in [SimClient -> SimCaller] /\ client'[c] = NoClient /\ \A b \in SimClient : b # c => client'[b] = client[b]
    BY <2>1, CallerSet, NoClientType
  <2>3. /\ Len(session') = Len(session) /\ DOMAIN session' = DOMAIN session
        /\ \A s \in DOMAIN session : s # i => session'[s] = session[s]
        /\ Trims(i) /\ session'[i].replies = <<>>
    BY <1>0, <2>1, DropTrims
  <2>4. client'[c].pc # "sent" /\ Current(c)' /\ Own(c)'
    BY <1>1, <2>2, <2>3, Unconnected DEF NoClient
  <2>5. CallerTypes'
    BY <2>2 DEF CallerTypes, SameHosts
  <2> QED
    BY <1>0, <2>2, <2>3, <2>4, <2>5 DEF Leaving, SameHosts, SpentBy
<1>4. CASE ~client[c].fresh
  <2>1. PICK r : r = [client[c] EXCEPT !.pc = "attached", !.got = NoReply, !.want = NoRequest]
    OBVIOUS
  <2>2. session' = session /\ client' = [client EXCEPT ![c] = r]
    BY <1>4, <2>1 DEF Throw, CallerTypes
  <2>3. r \in SimCaller /\ r.pc = "attached" /\ r.got = NoReply /\ r.want = NoRequest /\ r.s = client[c].s
    BY <2>1, GiveUpFields, IoTypes
  <2>4. client' \in [SimClient -> SimCaller] /\ client'[c] = r /\ \A b \in SimClient : b # c => client'[b] = client[b]
    BY <2>2, <2>3, CallerSet
  <2>5. CallerTypes'
    BY <2>4 DEF CallerTypes, SameHosts
  <2>6. Current(c) /\ i > 0
    BY <1>0, IoTypes DEF IoRest, CurrentInv
  <2>7. client'[c].pc # "sent" /\ Current(c)' /\ Own(c)'
    BY <1>0, <2>2, <2>3, <2>4, <2>6, NoClientType DEF Current, Own
  <2> QED
    BY <1>0, <1>2, <2>2, <2>4, <2>5, <2>7 DEF Leaving, SameHosts, SpentBy
<1> QED
  BY <1>3, <1>4

LEMMA DetachLeaves ==
  ASSUME SimTypes, CallerTypes, HomeInv, IoRest, NEW c \in SimClient, Detach(c)
  PROVE  CallerTypes' /\ Leaving(c)
<1>0. PICK i \in DOMAIN session : i = client[c].s /\ session[i].client = c
  BY Attached DEF Detach
<1>1. Len(session) \in Nat /\ budget.calls[c] \in Nat
  BY IoTypes
<1>2. session' = Dropped(c) /\ client' = [client EXCEPT ![c] = NoClient] /\ SameHosts /\ budget' = budget /\ client[c].pc = "attached"
  BY DEF Detach, ClientOnly, SameHosts
<1>3. client' \in [SimClient -> SimCaller] /\ client'[c] = NoClient /\ \A b \in SimClient : b # c => client'[b] = client[b]
  BY <1>2, CallerSet, NoClientType
<1>4. /\ Len(session') = Len(session) /\ DOMAIN session' = DOMAIN session
      /\ \A s \in DOMAIN session : s # i => session'[s] = session[s]
      /\ Trims(i) /\ session'[i].replies = <<>>
  BY <1>0, <1>2, DropTrims
<1>5. client'[c].pc # "sent" /\ Current(c)' /\ Own(c)'
  BY <1>1, <1>3, <1>4, Unconnected DEF NoClient
<1>6. CallerTypes'
  BY <1>2, <1>3 DEF CallerTypes, SameHosts
<1>7. session'[i].late \/ (Asked(i) => session[i].shut)
  <2>1. ~Sent(i)
    BY <1>0, <1>2 DEF Sent
  <2>2. session[i].late => session'[i].late
    BY <1>4 DEF Trims
  <2> QED
    BY <2>1, <2>2, NotWaiting DEF IoRest
<1> QED
  BY <1>0, <1>1, <1>2, <1>3, <1>4, <1>5, <1>6, <1>7 DEF Leaving, SameHosts

LEMMA TimeoutLeaves ==
  ASSUME SimTypes, CallerTypes, HomeInv, IoRest, NEW c \in SimClient, ReplyTimeout(c)
  PROVE  CallerTypes' /\ Leaving(c)
<1>0. PICK i \in DOMAIN session : i = client[c].s /\ session[i].client = c /\ ~session[i].left /\ session[i] \in SimConnection
  BY Attached DEF ReplyTimeout
<1>1. Len(session) \in Nat /\ DOMAIN session = 1 .. Len(session) /\ budget.calls[c] \in Nat
  BY IoTypes
<1>2. SameHosts /\ budget' = budget
  BY DEF ReplyTimeout, ClientOnly, SameHosts
<1>3. PICK b \in BOOLEAN : b <=> client[c].fresh
  BY Zenon
<1>4. PICK q : q = [session[i] EXCEPT !.late = TRUE, !.left = @ \/ b]
  OBVIOUS
<1>5. session' = [session EXCEPT ![i] = q]
  <2>1. session' = [session EXCEPT ![i].late = TRUE, ![i].left = @ \/ client[c].fresh]
    BY <1>0 DEF ReplyTimeout
  <2>2. session' = [session EXCEPT ![i] = [session[i] EXCEPT !.late = TRUE, !.left = @ \/ client[c].fresh]]
    BY <1>0, <2>1 DEF SimConnection
  <2>3. [session[i] EXCEPT !.late = TRUE, !.left = @ \/ client[c].fresh] = q
    BY <1>3, <1>4
  <2> QED
    BY <2>2, <2>3
<1>6. /\ q \in SimConnection /\ q.late /\ (q.left <=> session[i].left \/ b) /\ q.replies = session[i].replies
      /\ q.client = session[i].client /\ q.host = session[i].host /\ q.at = session[i].at /\ q.reqs = session[i].reqs
      /\ q.req = session[i].req /\ q.shut = session[i].shut
  <2>1. PICK r \in SimConnection : r = session[i]
    BY <1>0
  <2>2. q = [r EXCEPT !.late = TRUE, !.left = @ \/ b]
    BY <1>4, <2>1
  <2>3. /\ q \in SimConnection /\ q.late /\ (q.left <=> r.left \/ b) /\ q.replies = r.replies
        /\ q.client = r.client /\ q.host = r.host /\ q.at = r.at /\ q.reqs = r.reqs /\ q.req = r.req /\ q.shut = r.shut
    <3>1. q \in SimConnection /\ q.late /\ q.left = (r.left \/ b) /\ q.replies = r.replies
      BY ONLY <1>3, <2>1, <2>2 DEF SimConnection
    <3>2. q.client = r.client /\ q.host = r.host /\ q.at = r.at /\ q.reqs = r.reqs /\ q.req = r.req /\ q.shut = r.shut
      BY ONLY <1>3, <2>1, <2>2 DEF SimConnection
    <3> QED
      BY <3>1, <3>2
  <2> QED
    BY <2>1, <2>3
<1>7. /\ session' \in Seq(SimConnection) /\ DOMAIN session' = DOMAIN session
      /\ session'[i] = q /\ \A s \in DOMAIN session : s # i => session'[s] = session[s]
  BY <1>5, <1>6, SessionChange
<1>8. Len(session') = Len(session) /\ Trims(i)
  BY <1>1, <1>6, <1>7 DEF Trims
<1>9. CASE client[c].fresh
  <2>1. client' = [client EXCEPT ![c] = NoClient]
    BY <1>9 DEF ReplyTimeout, CallerTypes
  <2>2. client' \in [SimClient -> SimCaller] /\ client'[c] = NoClient /\ \A d \in SimClient : d # c => client'[d] = client[d]
    BY <2>1, CallerSet, NoClientType
  <2>3. client'[c].pc # "sent" /\ Current(c)' /\ Own(c)'
    BY <1>1, <1>8, <2>2, Unconnected DEF NoClient
  <2>4. CallerTypes'
    BY <1>2, <2>2 DEF CallerTypes, SameHosts
  <2> QED
    BY <1>0, <1>1, <1>2, <1>6, <1>7, <1>8, <2>2, <2>3, <2>4 DEF Leaving, SameHosts
<1>10. CASE ~client[c].fresh
  <2>1. PICK r : r = [client[c] EXCEPT !.pc = "attached", !.got = NoReply, !.want = NoRequest]
    OBVIOUS
  <2>2. client' = [client EXCEPT ![c] = r]
    BY <1>10, <2>1 DEF ReplyTimeout, CallerTypes
  <2>3. r \in SimCaller /\ r.pc = "attached" /\ r.got = NoReply /\ r.want = NoRequest /\ r.s = client[c].s
    BY <2>1, GiveUpFields, IoTypes
  <2>4. client' \in [SimClient -> SimCaller] /\ client'[c] = r /\ \A d \in SimClient : d # c => client'[d] = client[d]
    BY <2>2, <2>3, CallerSet
  <2>5. CallerTypes'
    BY <1>2, <2>4 DEF CallerTypes, SameHosts
  <2>6. i > 0 /\ i <= Len(session) /\ ~session'[i].left /\ session'[i].client = c
    BY <1>0, <1>1, <1>3, <1>6, <1>7, <1>10
  <2>7. client'[c].pc # "sent" /\ Current(c)' /\ Own(c)'
    BY <1>0, <1>8, <2>3, <2>4, <2>6, NoClientType DEF Current, Own
  <2> QED
    BY <1>0, <1>1, <1>2, <1>6, <1>7, <1>8, <2>4, <2>5, <2>7 DEF Leaving, SameHosts
<1> QED
  BY <1>9, <1>10

LEMMA OnlyOne ==
  ASSUME NEW S, NEW x \in Seq(S), Len(x) = 1
  PROVE  Tail(x) = <<>>
<1>1. Len(Tail(x)) = 0 /\ Tail(x) \in Seq(S)
  OBVIOUS
<1>2. PICK y \in Seq(S) : y = Tail(x) /\ Len(y) = 0
  BY <1>1
<1>3. y = <<>>
  BY ONLY <1>2
<1> QED
  BY <1>2, <1>3

LEMMA ReceiveLeaves ==
  ASSUME SimTypes, CallerTypes, HomeInv, IoRest, NEW c \in SimClient, ReceiveReply(c)
  PROVE  CallerTypes' /\ Leaving(c)
<1>0. PICK i \in DOMAIN session : i = client[c].s /\ session[i].client = c /\ ~session[i].left /\ session[i] \in SimConnection
  BY Attached DEF ReceiveReply
<1>1. Len(session) \in Nat /\ DOMAIN session = 1 .. Len(session) /\ budget.calls[c] \in Nat /\ client[c] \in SimCaller
      /\ session[i].replies \in Seq(SimReply)
  BY <1>0, IoTypes
<1>2. SameHosts /\ budget' = budget /\ client[c].pc = "sent" /\ session[i].replies # <<>>
  BY <1>0 DEF ReceiveReply, ClientOnly, SameHosts, Session
<1>3. PICK reply : reply = session[i].replies[1] /\ reply = Head(session[i].replies) /\ reply \in SimReply
  BY <1>1, <1>2
<1>4. PICK b : /\ b = (client[c].fresh /\ (client[c].why = "kill" \/ ~reply.ok))
               /\ client' = [client EXCEPT ![c].pc = IF b THEN "off" ELSE "attached", ![c].fresh = FALSE, ![c].got = reply]
               /\ session' = [session EXCEPT ![i].replies = Tail(@), ![i].left = @ \/ b]
  BY <1>0, <1>3 DEF ReceiveReply, Session
<1>5. b \in BOOLEAN
  BY <1>4
<1>6. PICK q : q = [session[i] EXCEPT !.replies = Tail(@), !.left = @ \/ b]
  OBVIOUS
<1>7. session' = [session EXCEPT ![i] = q]
  BY <1>0, <1>4, <1>5, <1>6 DEF SimConnection
<1>8. /\ q \in SimConnection /\ (q.left <=> session[i].left \/ b) /\ q.replies = Tail(session[i].replies) /\ q.late = session[i].late
      /\ q.client = session[i].client /\ q.host = session[i].host /\ q.at = session[i].at /\ q.reqs = session[i].reqs
      /\ q.req = session[i].req /\ q.shut = session[i].shut
  <2>1. PICK r \in SimConnection : r = session[i]
    BY <1>0
  <2>2. q = [r EXCEPT !.replies = Tail(@), !.left = @ \/ b]
    BY <1>6, <2>1
  <2>3. r.replies # <<>>
    BY <1>2, <2>1
  <2>4. /\ q \in SimConnection /\ (q.left <=> r.left \/ b) /\ q.replies = Tail(r.replies) /\ q.late = r.late
        /\ q.client = r.client /\ q.host = r.host /\ q.at = r.at /\ q.reqs = r.reqs /\ q.req = r.req /\ q.shut = r.shut
    <3>0. Tail(r.replies) \in Seq(SimReply)
      BY ONLY <2>1, <2>3 DEF SimConnection
    <3>1. q \in SimConnection /\ q.late = r.late /\ q.left = (r.left \/ b) /\ q.replies = Tail(r.replies)
      BY ONLY <1>5, <2>1, <2>2, <3>0 DEF SimConnection
    <3>2. q.client = r.client /\ q.host = r.host /\ q.at = r.at /\ q.reqs = r.reqs /\ q.req = r.req /\ q.shut = r.shut
      BY ONLY <1>5, <2>1, <2>2 DEF SimConnection
    <3> QED
      BY <3>1, <3>2
  <2> QED
    BY <2>1, <2>4
<1>9. /\ session' \in Seq(SimConnection) /\ DOMAIN session' = DOMAIN session
      /\ session'[i] = q /\ \A s \in DOMAIN session : s # i => session'[s] = session[s]
  BY <1>7, <1>8, SessionChange
<1>10. Len(session') = Len(session) /\ Trims(i)
  BY <1>0, <1>1, <1>8, <1>9 DEF Trims
<1>11. PICK r : r = [client[c] EXCEPT !.pc = IF b THEN "off" ELSE "attached", !.fresh = FALSE, !.got = reply]
  OBVIOUS
<1>12. client' = [client EXCEPT ![c] = r]
  BY <1>1, <1>4, <1>5, <1>11 DEF CallerTypes, SimCaller
<1>13. /\ r \in SimCaller /\ r.pc = (IF b THEN "off" ELSE "attached") /\ ~r.fresh /\ r.got = reply
       /\ r.want = client[c].want /\ r.s = client[c].s
  BY <1>1, <1>3, <1>11 DEF SimCaller
<1>14. client' \in [SimClient -> SimCaller] /\ client'[c] = r /\ \A d \in SimClient : d # c => client'[d] = client[d]
  BY <1>12, <1>13, CallerSet
<1>15. CallerTypes'
  BY <1>2, <1>14 DEF CallerTypes, SameHosts
<1>16. ~session[i].late => /\ Len(session[i].replies) = 1 /\ (Asked(i) => session[i].shut)
                           /\ reply.tag = client[c].want.tag /\ Written(i, client[c].want, reply)
  BY <1>0, <1>2, <1>3 DEF IoRest, AskInv, Want
<1>17. session'[i].late \/ (session'[i].replies = <<>> /\ (Asked(i) => session[i].shut))
  <2>1. PICK x : x = session[i].replies /\ x \in Seq(SimReply)
    BY <1>1
  <2>2. Len(x) = 1 => Tail(x) = <<>>
    BY ONLY <2>1, OnlyOne
  <2> QED
    BY <1>8, <1>9, <1>16, <2>1, <2>2
<1>18. Current(c)'
  <2>1. Current(c)
    BY DEF IoRest, CurrentInv
  <2>2. i > 0 /\ i <= Len(session) /\ session'[i].client = c /\ (r.pc = "attached" => ~session'[i].left)
    BY <1>0, <1>1, <1>8, <1>9, <1>13
  <2>3. r.pc = "off" => client[c].fresh
    BY <1>4, <1>13
  <2>4. r.pc \in {"off", "attached"}
    BY <1>13
  <2> QED
    BY <1>0, <1>2, <1>10, <1>13, <1>14, <2>1, <2>2, <2>3, <2>4 DEF Current
<1>19. Own(c)'
  <2>1. PICK w : w = client[c].want
    OBVIOUS
  <2>2. Written(i, w, reply)' <=> Written(i, w, reply)
    BY <1>2, <1>8, <1>9 DEF Written, Open, InLog, SameHosts
  <2>3. client'[c].got = reply /\ client'[c].want = w /\ client'[c].s = i
    BY <1>0, <1>13, <1>14, <2>1
  <2>4. ~session'[i].late => reply.tag = w.tag /\ Written(i, w, reply)'
    BY <1>8, <1>9, <1>16, <2>1, <2>2
  <2> QED
    BY <2>3, <2>4 DEF Own
<1>20. client'[c].pc # "sent"
  BY <1>13, <1>14
<1> QED
  BY <1>0, <1>1, <1>2, <1>9, <1>10, <1>14, <1>15, <1>17, <1>18, <1>19, <1>20 DEF Leaving, SameHosts

(* A client sends the request m on its connection i.                       *)
Asks(c, i, m) ==
  /\ i \in DOMAIN session /\ i = client[c].s /\ client[c].pc = "attached"
  /\ session[i].client = c /\ ~session[i].left /\ ~session[i].shut
  /\ m \in SimRequest /\ m.tag = budget.calls[c] /\ m.tag > 0 /\ (client[c].fresh => m.kind # "write")
  /\ session' = [session EXCEPT ![i] = [session[i] EXCEPT !.reqs = Append(@, m)]]
  /\ client' = [client EXCEPT ![c] = [client[c] EXCEPT !.pc = "sent", !.want = m, !.got = NoReply]]
  /\ budget'.calls[c] = budget.calls[c] - 1
  /\ \A b \in SimClient : b # c => budget'.calls[b] = budget.calls[b]
  /\ SameHosts

LEMMA SendKeeps ==
  ASSUME SimTypes, CallerTypes, HomeInv, IoRest, NEW c \in SimClient, NEW i, NEW m, Asks(c, i, m)
  PROVE  CallerTypes' /\ HomeInv' /\ IoRest'
<1>0. /\ i \in DOMAIN session /\ i = client[c].s /\ client[c].pc = "attached"
      /\ session[i].client = c /\ ~session[i].left /\ ~session[i].shut
      /\ m \in SimRequest /\ m.tag = budget.calls[c] /\ m.tag > 0 /\ (client[c].fresh => m.kind # "write")
      /\ SameHosts
  BY DEF Asks
<1>1. Len(session) \in Nat /\ DOMAIN session = 1 .. Len(session) /\ session[i] \in SimConnection /\ session[i].reqs \in Seq(SimRequest)
      /\ client[c] \in SimCaller /\ budget.calls[c] \in Nat
  BY <1>0, IoTypes
<1>2. PICK q : q = [session[i] EXCEPT !.reqs = Append(@, m)] /\ session' = [session EXCEPT ![i] = q]
  BY DEF Asks
<1>3. /\ q \in SimConnection /\ q.reqs = Append(session[i].reqs, m) /\ q.replies = session[i].replies
      /\ q.client = session[i].client /\ q.host = session[i].host /\ q.at = session[i].at /\ q.req = session[i].req
      /\ q.shut = session[i].shut /\ q.left = session[i].left /\ q.late = session[i].late
  <2>1. PICK r \in SimConnection : r = session[i]
    BY <1>1
  <2>2. q = [r EXCEPT !.reqs = Append(@, m)]
    BY <1>2, <2>1
  <2>3. /\ q \in SimConnection /\ q.reqs = Append(r.reqs, m) /\ q.replies = r.replies
        /\ q.client = r.client /\ q.host = r.host /\ q.at = r.at /\ q.req = r.req
        /\ q.shut = r.shut /\ q.left = r.left /\ q.late = r.late
    <3>1. m \in SimRequest
      BY <1>0
    <3>2. Append(r.reqs, m) \in Seq(SimRequest)
      BY ONLY <2>1, <3>1 DEF SimConnection
    <3> QED
      BY ONLY <2>1, <2>2, <3>2 DEF SimConnection
  <2> QED
    BY <2>1, <2>3
<1>4. /\ DOMAIN session' = DOMAIN session /\ session'[i] = q /\ \A s \in DOMAIN session : s # i => session'[s] = session[s]
      /\ session' \in Seq(SimConnection)
  BY <1>0, <1>2, <1>3, SessionChange
<1>5. Len(session') = Len(session)
  BY <1>1, <1>4
<1>6. PICK r : r = [client[c] EXCEPT !.pc = "sent", !.want = m, !.got = NoReply] /\ client' = [client EXCEPT ![c] = r]
  BY DEF Asks
<1>7. r \in SimCaller /\ r.pc = "sent" /\ r.want = m /\ r.got = NoReply /\ r.s = i /\ r.fresh = client[c].fresh
  BY <1>0, <1>1, <1>6, NoClientType DEF SimCaller
<1>8. client' \in [SimClient -> SimCaller] /\ client'[c] = r /\ \A b \in SimClient : b # c => client'[b] = client[b]
  BY <1>6, <1>7, CallerSet
<1>9. CallerTypes'
  BY <1>0, <1>8 DEF CallerTypes, SameHosts
<1>10. \A s \in DOMAIN session :
         /\ session'[s].client = session[s].client /\ session'[s].host = session[s].host /\ session'[s].at = session[s].at
         /\ session'[s].req = session[s].req /\ session'[s].replies = session[s].replies /\ session'[s].late = session[s].late
         /\ session'[s].shut = session[s].shut /\ session'[s].left = session[s].left
  BY <1>3, <1>4
<1>11. server' = server /\ device' = device
  BY <1>0 DEF SameHosts
<1>12. /\ budget'.calls[c] = budget.calls[c] - 1 /\ m.tag = budget'.calls[c] + 1
       /\ \A b \in SimClient : b # c => budget'.calls[b] = budget.calls[b]
  BY <1>0, <1>1 DEF Asks
<1>13. ~Sent(i)
  BY <1>0 DEF Sent
<1>14. ~session[i].late => session[i].replies = <<>> /\ ~Asked(i)
  BY <1>0, <1>13, NotWaiting DEF IoRest
<1>15. \A s \in DOMAIN session : s # i => (Asked(s)' <=> Asked(s)) /\ Question(s)' = Question(s)
  BY <1>4 DEF Asked, Question
<1>16. ~session[i].late /\ Asked(i)' => session[i].at # "handling" /\ session'[i].reqs = <<m>>
  <2>1. SUFFICES ASSUME ~session[i].late, Asked(i)' PROVE session[i].at # "handling" /\ session[i].reqs = <<>>
    <3>1. Append(<<>>, m) = <<m>>
      BY <1>0
    <3> QED
      BY <1>3, <1>4, <3>1
  <2>2. ~Asked(i)
    BY <1>14, <2>1
  <2>3. session[i].at # "handling"
    BY <2>2 DEF Asked
  <2>4. session[i].at \in {"backlog", "serving"}
    BY <1>10, <1>0, <2>1, <2>3 DEF Asked
  <2> QED
    BY <2>2, <2>3, <2>4 DEF Asked
<1>17. ~session[i].late /\ Asked(i)' => Question(i)' = m /\ Len(session'[i].reqs) = 1
  <2>1. Len(<<m>>) = 1 /\ <<m>>[1] = m
    OBVIOUS
  <2>2. session[i].at # "handling" => Question(i)' = session'[i].reqs[1]
    BY <1>0, <1>10 DEF Question
  <2> QED
    BY <1>16, <2>1, <2>2
<1>18. HomeInv'
  <2> SUFFICES ASSUME NEW s \in DOMAIN session PROVE Home(s)'
    BY <1>4 DEF HomeInv
  <2>1. Home(s)
    BY DEF HomeInv
  <2>2. session[s].client \notin SimClient => session'[s] = session[s]
    BY <1>0, <1>4
  <2> QED
    BY <1>10, <1>11, <2>1, <2>2 DEF Home
<1>19. CurrentInv' /\ OwnInv'
  <2> SUFFICES ASSUME NEW b \in SimClient PROVE Current(b)' /\ Own(b)'
    BY DEF CurrentInv, OwnInv
  <2>1. CASE b = c
    <3>1. i > 0 /\ i <= Len(session)
      BY <1>0, <1>1
    <3>2. session'[i].client = c /\ ~session'[i].left
      BY <1>0, <1>10
    <3>3. Current(b)'
      BY <1>0, <1>5, <1>7, <1>8, <1>12, <2>1, <3>1, <3>2 DEF Current
    <3>4. Own(b)'
      BY <1>7, <1>8, <2>1 DEF Own
    <3> QED
      BY <3>3, <3>4
  <2>2. CASE b # c
    <3>1. Current(b) /\ Own(b) /\ client'[b] = client[b] /\ client[b].s \in Nat
      BY <1>8, <2>2, IoTypes DEF IoRest, CurrentInv, OwnInv
    <3>2. client[b].s > 0 => client[b].s \in DOMAIN session
      BY <1>1, <3>1 DEF Current
    <3>3. Current(b)'
      BY <1>5, <1>10, <1>12, <2>2, <3>1, <3>2 DEF Current
    <3>4. Own(b)'
      <4>1. SUFFICES ASSUME client[b].got # NoReply, ~session'[client[b].s].late
                     PROVE  client[b].got.tag = client[b].want.tag /\ Written(client[b].s, client[b].want, client[b].got)'
        BY <3>1 DEF Own
      <4>2. PICK s \in DOMAIN session : s = client[b].s
        BY <3>1, <3>2, <4>1 DEF Current
      <4>3. PICK w, a : w = client[b].want /\ a = client[b].got
        OBVIOUS
      <4>4. a.tag = w.tag /\ Written(s, w, a)
        BY <1>10, <3>1, <4>1, <4>2, <4>3 DEF Own
      <4>5. Written(s, w, a)'
        BY <1>10, <1>11, <4>4 DEF Written, Open, InLog
      <4> QED
        BY <3>1, <4>2, <4>3, <4>4, <4>5
    <3> QED
      BY <3>3, <3>4
  <2> QED
    BY <2>1, <2>2
<1>20. AskInv'
  <2> SUFFICES ASSUME NEW s \in DOMAIN session, ~session[s].late
               PROVE  /\ Asked(s)' => Len(session'[s].reqs) <= 1 /\ (session'[s].at = "handling" => session'[s].reqs = <<>>)
                      /\ Asked(s)' /\ ~session'[s].shut => Sent(s)' /\ session'[s].replies = <<>> /\ Question(s)' = Want(s)'
                      /\ session'[s].replies # <<>> =>
                           /\ Sent(s)' /\ Len(session'[s].replies) = 1
                           /\ session'[s].replies[1].tag = Want(s)'.tag /\ Written(s, Want(s), session[s].replies[1])'
    BY <1>4, <1>10 DEF AskInv
  <2>1. CASE s = i
    <3>1. Sent(i)' /\ Want(i)' = m
      BY <1>0, <1>7, <1>8, <1>10 DEF Sent, Want
    <3>2. session'[i].replies = <<>>
      BY <1>10, <1>14, <2>1
    <3>3. Asked(i)' => Len(session'[i].reqs) <= 1 /\ session'[i].at # "handling" /\ Question(i)' = m
      <4>1. ~session[i].late /\ session'[i].at = session[i].at
        BY <1>0, <1>10, <2>1
      <4>2. Asked(i)' => Len(session'[i].reqs) = 1 /\ session'[i].at # "handling" /\ Question(i)' = m
        BY <1>16, <1>17, <4>1
      <4>3. 1 <= 1
        OBVIOUS
      <4> QED
        BY <4>2, <4>3, Zenon
    <3> QED
      BY <2>1, <3>1, <3>2, <3>3
  <2>2. CASE s # i
    <3>1. session'[s] = session[s] /\ (Asked(s)' <=> Asked(s)) /\ Question(s)' = Question(s)
      BY <1>4, <1>15, <2>2
    <3>2. Sent(s) => Sent(s)' /\ Want(s)' = Want(s)
      <4>1. SUFFICES ASSUME Sent(s) PROVE client'[session[s].client] = client[session[s].client]
        BY <3>1 DEF Sent, Want
      <4> QED
        BY <1>0, <1>8, <4>1 DEF Sent
    <3>3. PICK w, a : w = Want(s) /\ a = session[s].replies[1]
      OBVIOUS
    <3>4. Written(s, w, a)' <=> Written(s, w, a)
      BY <1>11, <3>1 DEF Written, Open, InLog
    <3>5. session[s].replies # <<>> => Sent(s) /\ Len(session[s].replies) = 1 /\ a.tag = w.tag /\ Written(s, w, a)
      BY <3>1, <3>3 DEF IoRest, AskInv
    <3>6. session'[s].replies # <<>> =>
            /\ Sent(s)' /\ Len(session'[s].replies) = 1
            /\ session'[s].replies[1].tag = Want(s)'.tag /\ Written(s, Want(s), session[s].replies[1])'
      BY <3>1, <3>2, <3>3, <3>4, <3>5
    <3>7. Asked(s)' => Len(session'[s].reqs) <= 1 /\ (session'[s].at = "handling" => session'[s].reqs = <<>>)
      BY <3>1 DEF IoRest, AskInv
    <3>8. Asked(s)' /\ ~session'[s].shut => Sent(s)' /\ session'[s].replies = <<>> /\ Question(s)' = Want(s)'
      BY <3>1, <3>2 DEF IoRest, AskInv
    <3> QED
      BY <3>6, <3>7, <3>8
  <2> QED
    BY <2>1, <2>2
<1>21. OrderInv'
  <2> SUFFICES ASSUME NEW b \in SimClient, ~LateOf(b)'
               PROVE  /\ \A s \in Of(b)' : Asked(s)' =>
                           Question(s)'.tag > budget'.calls[b] /\ (client'[b].pc = "sent" /\ client'[b].s # s => Question(s)'.tag > client'[b].want.tag)
                      /\ \A s, p \in Of(b)' : Asked(s)' /\ Asked(p)' /\ session'[s].shut /\ session'[p].shut /\ session'[s].host = session'[p].host => s = p
                      /\ \A g \in SimHost : \A k \in DOMAIN device[g].log : device[g].log[k].client = b =>
                           /\ device[g].log[k].tag > budget'.calls[b]
                           /\ \A s \in Of(b)' : Asked(s)' /\ (~session'[s].shut \/ session'[s].host = g) => device[g].log[k].tag > Question(s)'.tag
                           /\ \A j \in DOMAIN device[g].log : k < j /\ device[g].log[j].client = b => device[g].log[k].tag >= device[g].log[j].tag
    BY <1>11 DEF OrderInv
  <2>1. ~LateOf(b) /\ Of(b)' = Of(b) /\ Of(b) \subseteq DOMAIN session /\ \A s \in Of(b) : ~session[s].late
    BY <1>4, <1>10 DEF LateOf, Of
  <2>2. /\ \A s \in Of(b) : Asked(s) =>
             Question(s).tag > budget.calls[b] /\ (client[b].pc = "sent" /\ client[b].s # s => Question(s).tag > client[b].want.tag)
        /\ \A s, p \in Of(b) : Asked(s) /\ Asked(p) /\ session[s].shut /\ session[p].shut /\ session[s].host = session[p].host => s = p
    BY <2>1 DEF IoRest, OrderInv
  <2>3. \A g \in SimHost : \A k \in DOMAIN device[g].log : device[g].log[k].client = b =>
          /\ device[g].log[k].tag > budget.calls[b]
          /\ \A s \in Of(b) : Asked(s) /\ (~session[s].shut \/ session[s].host = g) => device[g].log[k].tag > Question(s).tag
          /\ \A j \in DOMAIN device[g].log : k < j /\ device[g].log[j].client = b => device[g].log[k].tag >= device[g].log[j].tag
    BY <2>1 DEF IoRest, OrderInv
  <2>4. \A s, p \in Of(b) : Asked(s)' /\ Asked(p)' /\ session'[s].shut /\ session'[p].shut /\ session'[s].host = session'[p].host => s = p
    BY <1>0, <1>10, <1>15, <2>1, <2>2
  <2>5. CASE b # c
    <3>1. \A s \in Of(b) : s # i
      BY <1>0, <2>5 DEF Of
    <3>2. \A s \in Of(b) : (Asked(s)' <=> Asked(s)) /\ Question(s)' = Question(s) /\ session'[s] = session[s]
      BY <1>4, <1>15, <2>1, <3>1
    <3>3. client'[b] = client[b] /\ budget'.calls[b] = budget.calls[b]
      BY <1>8, <1>12, <2>5
    <3> QED
      BY <2>1, <2>2, <2>3, <2>4, <3>2, <3>3
  <2>6. CASE b = c
    <3>0. PICK n \in Nat : n = budget.calls[b] /\ budget'.calls[b] = n - 1 /\ m.tag = n
      BY <1>0, <1>1, <1>12, <2>6
    <3>1. \A s \in Of(b) : s # i /\ Asked(s)' => Asked(s) /\ Question(s)' = Question(s) /\ session'[s] = session[s] /\ Question(s).tag > n
      BY <1>4, <1>15, <2>1, <2>2, <3>0
    <3>2. client'[b].s = i /\ client'[b].want.tag = n /\ (Asked(i)' => Question(i)'.tag = n)
      <4>1. i \in Of(b)
        BY <1>0, <2>6 DEF Of
      <4> QED
        BY <1>7, <1>8, <1>17, <2>1, <2>6, <3>0, <4>1
    <3>3. \A s \in Of(b) : Asked(s) => Question(s).tag \in Nat
      BY <2>1, QuestionType
    <3>4. \A s \in Of(b)' : Asked(s)' =>
            Question(s)'.tag > budget'.calls[b] /\ (client'[b].pc = "sent" /\ client'[b].s # s => Question(s)'.tag > client'[b].want.tag)
      <4> SUFFICES ASSUME NEW s \in Of(b), Asked(s)'
                   PROVE  Question(s)'.tag > n - 1 /\ (i # s => Question(s)'.tag > n)
        BY <2>1, <3>0, <3>2
      <4>1. CASE s = i
        BY <3>2, <4>1
      <4>2. CASE s # i
        <5>1. Question(s)' = Question(s) /\ Question(s).tag > n /\ Question(s).tag \in Nat
          BY <3>1, <3>3, <4>2
        <5> QED
          BY <4>2, <5>1
      <4> QED
        BY <4>1, <4>2
    <3>5. ASSUME NEW g \in SimHost, NEW k \in DOMAIN device[g].log, device[g].log[k].client = b
          PROVE  /\ device[g].log[k].tag > budget'.calls[b]
                 /\ \A s \in Of(b)' : Asked(s)' /\ (~session'[s].shut \/ session'[s].host = g) => device[g].log[k].tag > Question(s)'.tag
      <4>1. device[g].log[k].tag \in Nat /\ device[g].log[k].tag > n
        BY <2>3, <3>0, <3>5, LogEntries
      <4>2. ASSUME NEW s \in Of(b), Asked(s)', ~session'[s].shut \/ session'[s].host = g PROVE device[g].log[k].tag > Question(s)'.tag
        <5>1. CASE s = i
          BY <3>2, <4>1, <4>2, <5>1
        <5>2. CASE s # i
          BY <2>3, <3>1, <3>5, <4>2, <5>2
        <5> QED
          BY <5>1, <5>2
      <4> QED
        BY <2>1, <3>0, <4>1, <4>2
    <3> QED
      BY <2>1, <2>3, <2>4, <3>4, <3>5
  <2> QED
    BY <2>5, <2>6
<1>22. LogInv'
  BY <1>11 DEF IoRest, LogInv
<1> QED
  BY <1>9, <1>18, <1>19, <1>20, <1>21, <1>22 DEF IoRest

(* A thread performs the request r of the client c that it holds on the    *)
(* connection s of the host h.                                             *)
Grown(h, c, r) == device'[h].log = Append(device[h].log, [client |-> c, tag |-> r.tag])
Performing(s, h, c, r) ==
  /\ session[s].at = "handling" /\ h = session[s].host /\ c = session[s].client /\ r = session[s].req
  /\ Len(session') = Len(session) /\ DOMAIN session' = DOMAIN session
  /\ \A t \in DOMAIN session : t # s => session'[t] = session[t]
  /\ session'[s].client = c /\ session'[s].host = h /\ session'[s].reqs = session[s].reqs
  /\ session'[s].shut = session[s].shut /\ session'[s].left = session[s].left /\ session'[s].late = session[s].late
  /\ \/ (session[s].left \/ session[s].shut) /\ session'[s].at = "finished" /\ session'[s].replies = session[s].replies
     \/ ~session[s].left /\ ~session[s].shut /\ session'[s].at = "serving" /\
          \E a \in SimReply : /\ a.tag = r.tag /\ session'[s].replies = Append(session[s].replies, a)
                              /\ a.ok /\ r.kind = "write" /\ ~device[h].closed => Grown(h, c, r)
  /\ client' = client /\ budget' = budget /\ dirs' = dirs
  /\ \A g \in SimHost : server'[g].pc = server[g].pc /\ device'[g].closed = device[g].closed
  /\ \A g \in SimHost : g # h => device'[g].log = device[g].log
  /\ device'[h].log = device[h].log \/ Grown(h, c, r)

LEMMA AnswerType ==
  ASSUME SimTypes, NEW h \in SimHost, NEW r \in SimRequest, NEW ok \in BOOLEAN
  PROVE  Answer(h, r, ok) \in SimReply /\ Answer(h, r, ok).tag = r.tag /\ (Answer(h, r, ok).ok => ok)
<1>1. device[h].log \in Seq([client : SimClient \cup {Nobody}, tag : Nat]) /\ device[h].closed \in BOOLEAN
  BY DEF SimTypes
<1>2. Len(device[h].log) \in Nat /\ r.tag \in Nat
  BY <1>1 DEF SimRequest
<1> DEFINE n == IF device[h].closed THEN 0 ELSE Len(device[h].log) + (IF Performed(h, r, ok) THEN 1 ELSE 0)
<1>3. n \in Nat
  <2> DEFINE one == IF Performed(h, r, ok) THEN 1 ELSE 0
  <2>1. one \in {0, 1}
    OBVIOUS
  <2>2. n = 0 \/ n = Len(device[h].log) + one
    BY <1>1
  <2> HIDE DEF one, n
  <2> QED
    BY <1>2, <2>1, <2>2
<1>4. Answer(h, r, ok) = [tag |-> r.tag, ok |-> ok, data |-> n]
  BY DEF Answer
<1> HIDE DEF n
<1> QED
  BY <1>2, <1>3, <1>4 DEF SimReply

LEMMA HandlePerforms ==
  ASSUME SimTypes, CallerTypes, NEW s \in DOMAIN session, HandleRequest(s), NEW h \in SimHost, NEW c, NEW r \in SimRequest,
         h = session[s].host, c = session[s].client, r = session[s].req
  PROVE  Performing(s, h, c, r)
<1>0. session[s] \in SimConnection /\ session[s].at = "handling" /\ Len(session) \in Nat /\ DOMAIN session = 1 .. Len(session)
  BY IoTypes DEF HandleRequest
<1>1. client' = client /\ budget' = budget /\ dirs' = dirs
  BY DEF HandleRequest
<1>2. \A g \in SimHost : server'[g].pc = server[g].pc
  BY ServePlaces DEF ServeStep
<1>3. PICK ok \in BOOLEAN :
        /\ session' = Replied(s, Answer(h, r, ok))
        /\ device' = [device EXCEPT ![h].log = IF Performed(h, r, ok) THEN Append(@, [client |-> c, tag |-> r.tag]) ELSE @]
  BY DEF HandleRequest
<1>4. PICK a \in SimReply : a.tag = r.tag /\ session' = Replied(s, a) /\ (a.ok => ok)
  BY <1>3, AnswerType
<1>5. PICK x \in SimConnection : x = session[s]
  BY <1>0
<1>6. PICK q \in SimConnection :
        /\ session' = [session EXCEPT ![s] = q]
        /\ q.client = x.client /\ q.host = x.host /\ q.reqs = x.reqs /\ q.shut = x.shut /\ q.left = x.left /\ q.late = x.late
        /\ \/ (x.left \/ x.shut) /\ q.at = "finished" /\ q.replies = x.replies
           \/ ~x.left /\ ~x.shut /\ q.at = "serving" /\ q.replies = Append(x.replies, a)
  <2>1. CASE x.left \/ x.shut
    <3>1. session' = [session EXCEPT ![s].at = "finished", ![s].req = NoRequest]
      BY <1>4, <1>5, <2>1 DEF Replied
    <3>2. PICK q : q = [x EXCEPT !.at = "finished", !.req = NoRequest]
      OBVIOUS
    <3>3. session' = [session EXCEPT ![s] = q]
      BY <1>5, <3>1, <3>2 DEF SimConnection
    <3>4. q \in SimConnection /\ q.client = x.client /\ q.host = x.host /\ q.reqs = x.reqs /\ q.at = "finished" /\ q.replies = x.replies
      BY <1>5, <3>2, NoClientType DEF SimConnection
    <3>5. q.shut = x.shut /\ q.left = x.left /\ q.late = x.late
      BY <1>5, <3>2 DEF SimConnection
    <3> QED
      BY <2>1, <3>3, <3>4, <3>5
  <2>2. CASE ~(x.left \/ x.shut)
    <3>1. session' = [session EXCEPT ![s].at = "serving", ![s].req = NoRequest, ![s].replies = Append(@, a)]
      BY <1>4, <1>5, <2>2 DEF Replied
    <3>2. PICK q : q = [x EXCEPT !.at = "serving", !.req = NoRequest, !.replies = Append(@, a)]
      OBVIOUS
    <3>3. session' = [session EXCEPT ![s] = q]
      BY <1>5, <3>1, <3>2 DEF SimConnection
    <3>4. Append(x.replies, a) \in Seq(SimReply)
      BY <1>5 DEF SimConnection
    <3>5. q \in SimConnection /\ q.client = x.client /\ q.host = x.host /\ q.reqs = x.reqs /\ q.at = "serving" /\ q.replies = Append(x.replies, a)
      BY <1>5, <3>2, <3>4, NoClientType DEF SimConnection
    <3>6. q.shut = x.shut /\ q.left = x.left /\ q.late = x.late
      BY <1>5, <3>2 DEF SimConnection
    <3> QED
      BY <2>2, <3>3, <3>5, <3>6
  <2> QED
    BY <2>1, <2>2
<1>7. DOMAIN session' = DOMAIN session /\ session'[s] = q /\ \A t \in DOMAIN session : t # s => session'[t] = session[t]
      /\ session' \in Seq(SimConnection)
  BY <1>6, SessionChange
<1>8. Len(session') = Len(session)
  BY <1>0, <1>7
<1>9. PICK v : v = (IF Performed(h, r, ok) THEN Append(device[h].log, [client |-> c, tag |-> r.tag]) ELSE device[h].log)
               /\ device' = [device EXCEPT ![h].log = v]
  BY <1>3
<1>10. device'[h].log = v /\ \A g \in SimHost : (g # h => device'[g].log = device[g].log) /\ device'[g].closed = device[g].closed
  <2>1. device \in [SimHost -> [log : Seq([client : SimClient \cup {Nobody}, tag : Nat]), closed : BOOLEAN]]
    BY DEF SimTypes
  <2>2. device'[h].log = v /\ device'[h].closed = device[h].closed
    BY ONLY <1>9, <2>1, h \in SimHost
  <2>3. \A g \in SimHost : g # h => device'[g] = device[g]
    BY ONLY <1>9, <2>1
  <2> QED
    BY <2>2, <2>3
<1>11. a.ok /\ r.kind = "write" /\ ~device[h].closed => Grown(h, c, r)
  BY <1>4, <1>9, <1>10 DEF Performed, Grown
<1>12. device'[h].log = device[h].log \/ Grown(h, c, r)
  BY <1>9, <1>10 DEF Grown
<1>13. \/ (session[s].left \/ session[s].shut) /\ session'[s].at = "finished" /\ session'[s].replies = session[s].replies
       \/ ~session[s].left /\ ~session[s].shut /\ session'[s].at = "serving" /\
            \E b \in SimReply : /\ b.tag = r.tag /\ session'[s].replies = Append(session[s].replies, b)
                                /\ b.ok /\ r.kind = "write" /\ ~device[h].closed => Grown(h, c, r)
  BY <1>4, <1>5, <1>6, <1>7, <1>11
<1> QED
  BY <1>0, <1>1, <1>2, <1>5, <1>6, <1>7, <1>8, <1>10, <1>11, <1>12, <1>13 DEF Performing

(* What it wrote is the last entry of its host's log.                      *)
LEMMA LogGrows ==
  ASSUME SimTypes, CallerTypes, NEW s \in DOMAIN session, NEW h \in SimHost, NEW c \in SimClient, NEW r \in SimRequest, Performing(s, h, c, r)
  PROVE  /\ \A g \in SimHost : \A i \in DOMAIN device[g].log : i \in DOMAIN device'[g].log /\ device'[g].log[i] = device[g].log[i]
         /\ \A g \in SimHost : \A i \in DOMAIN device'[g].log : i \notin DOMAIN device[g].log =>
              /\ g = h /\ device'[g].log[i].client = c /\ device'[g].log[i].tag = r.tag
              /\ \A j \in DOMAIN device'[g].log : ~(i < j)
         /\ Grown(h, c, r) => InLog(h, c, r.tag)'
<1>1. PICK S : S = [client : SimClient \cup {Nobody}, tag : Nat] /\ \A g \in SimHost : device[g].log \in Seq(S)
  BY IoTypes
<1>2. PICK l \in Seq(S) : l = device[h].log
  BY <1>1
<1>3. PICK e \in S : e = [client |-> c, tag |-> r.tag] /\ e.client = c /\ e.tag = r.tag
  <2>1. r.tag \in Nat
    BY DEF SimRequest
  <2>2. [client |-> c, tag |-> r.tag] \in S
    BY ONLY <1>1, <2>1, c \in SimClient
  <2> QED
    BY <2>2
<1>4. PICK m : m = device'[h].log /\ (m = Append(l, e) \/ m = l)
  BY <1>2, <1>3 DEF Performing, Grown
<1>5. Len(l) \in Nat /\ DOMAIN l = 1 .. Len(l)
  BY <1>2
<1>6. m = Append(l, e) => /\ DOMAIN m = 1 .. (Len(l) + 1) /\ m[Len(l) + 1] = e
                          /\ \A i \in DOMAIN l : m[i] = l[i]
  BY ONLY <1>2, <1>3, <1>5
<1>7. \A i \in DOMAIN l : i \in DOMAIN m /\ m[i] = l[i]
  BY <1>4, <1>5, <1>6
<1>8. \A i \in DOMAIN m : i \notin DOMAIN l => m[i] = e /\ \A j \in DOMAIN m : ~(i < j)
  BY <1>4, <1>5, <1>6
<1>9. \A g \in SimHost : g # h => device'[g].log = device[g].log
  BY DEF Performing
<1>10. Grown(h, c, r) => InLog(h, c, r.tag)'
  <2>1. SUFFICES ASSUME m = Append(l, e) PROVE \E i \in DOMAIN m : m[i] = e
    BY <1>2, <1>3, <1>4 DEF InLog, Grown
  <2> QED
    BY <1>5, <1>6, <2>1
<1> QED
  BY <1>2, <1>3, <1>4, <1>7, <1>8, <1>9, <1>10

LEMMA PerformKeeps ==
  ASSUME SimTypes, CallerTypes, HomeInv, IoRest, NEW s \in DOMAIN session, NEW h \in SimHost, NEW c \in SimClient,
         NEW r \in SimRequest, Performing(s, h, c, r)
  PROVE  CallerTypes' /\ HomeInv' /\ IoRest'
<1>0. /\ session[s].at = "handling" /\ h = session[s].host /\ c = session[s].client /\ r = session[s].req
      /\ Len(session') = Len(session) /\ DOMAIN session' = DOMAIN session
      /\ client' = client /\ budget' = budget /\ dirs' = dirs
  BY DEF Performing
<1>1. \A t \in DOMAIN session : t # s => session'[t] = session[t]
  BY DEF Performing
<1>2. \A t \in DOMAIN session :
        /\ session'[t].client = session[t].client /\ session'[t].host = session[t].host /\ session'[t].reqs = session[t].reqs
        /\ session'[t].shut = session[t].shut /\ session'[t].left = session[t].left /\ session'[t].late = session[t].late
  BY <1>0, <1>1 DEF Performing
<1>3. CallerTypes'
  BY <1>0 DEF CallerTypes
<1>4. Asked(s) /\ Question(s) = r
  BY <1>0 DEF Asked, Question
<1>5. \A t \in DOMAIN session : t # s => (Asked(t)' <=> Asked(t)) /\ Question(t)' = Question(t)
  BY <1>1 DEF Asked, Question
<1>6. session'[s].at \in {"serving", "finished"}
  BY DEF Performing
<1>7. ~session[s].late => ~Asked(s)'
  <2>1. ~session[s].late => session[s].reqs = <<>>
    BY <1>0, <1>4 DEF IoRest, AskInv
  <2> QED
    BY <1>2, <1>6, <2>1 DEF Asked
<1>8. /\ \A g \in SimHost : \A i \in DOMAIN device[g].log : i \in DOMAIN device'[g].log /\ device'[g].log[i] = device[g].log[i]
      /\ \A g \in SimHost : \A i \in DOMAIN device'[g].log : i \notin DOMAIN device[g].log =>
           /\ g = h /\ device'[g].log[i].client = c /\ device'[g].log[i].tag = r.tag
           /\ \A j \in DOMAIN device'[g].log : ~(i < j)
      /\ Grown(h, c, r) => InLog(h, c, r.tag)'
  BY LogGrows
<1>9. \A g \in SimHost : server'[g].pc = server[g].pc /\ device'[g].closed = device[g].closed
  BY DEF Performing
<1>10. ASSUME NEW t \in DOMAIN session, NEW w, NEW a, Written(t, w, a) PROVE Written(t, w, a)'
  <2>1. PICK g \in SimHost : g = session[t].host
    BY IoTypes
  <2>2. Open(t)' => Open(t)
    BY <1>2, <1>9, <2>1, Zenon DEF Open
  <2>3. InLog(g, session[t].client, w.tag) => InLog(session[t].host, session[t].client, w.tag)'
    BY <1>2, <1>8, <2>1 DEF InLog
  <2> QED
    BY <1>10, <2>1, <2>2, <2>3 DEF Written
<1>11. HomeInv'
  <2> SUFFICES ASSUME NEW t \in DOMAIN session PROVE Home(t)'
    BY <1>0 DEF HomeInv
  <2>1. Home(t) /\ session[t].host \in SimHost
    BY IoTypes DEF HomeInv
  <2>2. CASE t # s
    BY <1>1, <1>9, <2>1, <2>2 DEF Home
  <2>3. CASE t = s
    <3>1. server'[h].pc = server[h].pc /\ server[h].pc = IF session[s].shut THEN "joining" ELSE "serving"
      BY <1>0, <1>9, <2>1, <2>3 DEF Home
    <3>2. \/ (session[s].left \/ session[s].shut) /\ session'[s].at = "finished"
          \/ ~session[s].shut /\ session'[s].at = "serving"
      BY DEF Performing
    <3>3. session'[s].client \in SimClient /\ session'[s].host = h
      BY <1>0, <1>2
    <3> QED
      BY <1>2, <2>3, <3>1, <3>2, <3>3 DEF Home
  <2> QED
    BY <2>2, <2>3
<1>12. CurrentInv' /\ OwnInv'
  <2> SUFFICES ASSUME NEW b \in SimClient PROVE Current(b)' /\ Own(b)'
    BY DEF CurrentInv, OwnInv
  <2>1. Current(b) /\ Own(b) /\ client'[b] = client[b] /\ client[b].s \in Nat /\ Len(session) \in Nat /\ DOMAIN session = 1 .. Len(session)
    BY <1>0, IoTypes DEF IoRest, CurrentInv, OwnInv
  <2>2. client[b].s > 0 => client[b].s \in DOMAIN session
    BY <2>1 DEF Current
  <2>3. Current(b)'
    BY <1>0, <1>2, <2>1, <2>2 DEF Current
  <2>4. Own(b)'
    <3>1. SUFFICES ASSUME client[b].got # NoReply, ~session'[client[b].s].late
                   PROVE  client[b].got.tag = client[b].want.tag /\ Written(client[b].s, client[b].want, client[b].got)'
      BY <1>0 DEF Own
    <3>2. PICK t \in DOMAIN session : t = client[b].s
      BY <2>1, <2>2, <3>1 DEF Current
    <3>3. PICK w, a : w = client[b].want /\ a = client[b].got
      OBVIOUS
    <3>4. a.tag = w.tag /\ Written(t, w, a)
      BY <1>2, <2>1, <3>1, <3>2, <3>3 DEF Own
    <3>5. Written(t, w, a)'
      BY <1>10, <3>4
    <3> QED
      BY <1>0, <3>2, <3>3, <3>4, <3>5
  <2> QED
    BY <2>3, <2>4
<1>13. \A t \in DOMAIN session : (Sent(t)' <=> Sent(t)) /\ Want(t)' = Want(t)
  BY <1>0, <1>2 DEF Sent, Want
<1>14. ASSUME NEW t \in DOMAIN session, ~session[t].late, session[t].replies # <<>>, session'[t].replies = session[t].replies
       PROVE  /\ Sent(t)' /\ Len(session'[t].replies) = 1
              /\ session'[t].replies[1].tag = Want(t)'.tag /\ Written(t, Want(t), session[t].replies[1])'
  <2>1. PICK w, a : w = Want(t) /\ a = session[t].replies[1]
    OBVIOUS
  <2>2. Sent(t) /\ Len(session[t].replies) = 1 /\ a.tag = w.tag /\ Written(t, w, a)
    BY <1>14, <2>1 DEF IoRest, AskInv
  <2>3. Written(t, w, a)'
    BY <1>10, <2>2
  <2> QED
    BY <1>13, <1>14, <2>1, <2>2, <2>3
<1>15. AskInv'
  <2> SUFFICES ASSUME NEW t \in DOMAIN session, ~session[t].late
               PROVE  /\ Asked(t)' => Len(session'[t].reqs) <= 1 /\ (session'[t].at = "handling" => session'[t].reqs = <<>>)
                      /\ Asked(t)' /\ ~session'[t].shut => Sent(t)' /\ session'[t].replies = <<>> /\ Question(t)' = Want(t)'
                      /\ session'[t].replies # <<>> =>
                           /\ Sent(t)' /\ Len(session'[t].replies) = 1
                           /\ session'[t].replies[1].tag = Want(t)'.tag /\ Written(t, Want(t), session[t].replies[1])'
    BY <1>0, <1>2 DEF AskInv
  <2>1. CASE t # s
    <3>1. session'[t] = session[t] /\ (Asked(t)' <=> Asked(t)) /\ Question(t)' = Question(t)
      BY <1>1, <1>5, <2>1
    <3>2. Asked(t)' => Len(session'[t].reqs) <= 1 /\ (session'[t].at = "handling" => session'[t].reqs = <<>>)
      BY <3>1 DEF IoRest, AskInv
    <3>3. Asked(t)' /\ ~session'[t].shut => Sent(t)' /\ session'[t].replies = <<>> /\ Question(t)' = Want(t)'
      BY <1>13, <3>1 DEF IoRest, AskInv
    <3> QED
      BY <1>14, <3>1, <3>2, <3>3
  <2>2. CASE t = s
    <3>1. ~Asked(s)'
      BY <1>7, <2>2
    <3>2. CASE session[s].left \/ session[s].shut
      <4>1. session'[s].replies = session[s].replies
        BY <3>2 DEF Performing
      <4> QED
        BY <1>14, <2>2, <3>1, <4>1
    <3>3. CASE ~session[s].left /\ ~session[s].shut
      <4>1. Sent(s) /\ session[s].replies = <<>> /\ r = Want(s)
        BY <1>4, <2>2, <3>3 DEF IoRest, AskInv
      <4>2. PICK a \in SimReply : /\ a.tag = r.tag /\ session'[s].replies = Append(session[s].replies, a)
                                  /\ a.ok /\ r.kind = "write" /\ ~device[h].closed => Grown(h, c, r)
        BY <3>3 DEF Performing
      <4>3. Append(<<>>, a) = <<a>> /\ Len(<<a>>) = 1 /\ <<a>>[1] = a
        OBVIOUS
      <4>4. Len(session'[s].replies) = 1 /\ session'[s].replies[1] = a
        BY <4>1, <4>2, <4>3
      <4>5. Written(s, r, a)'
        <5>1. SUFFICES ASSUME r.kind = "write", a.ok, Open(s)' PROVE InLog(h, c, r.tag)'
          BY <1>0, <1>2 DEF Written
        <5>2. ~device[h].closed
          BY <1>0, <1>2, <1>9, <5>1 DEF Open
        <5> QED
          BY <1>8, <4>2, <5>1, <5>2
      <4>6. Sent(s)' /\ Want(s)' = r
        BY <1>13, <4>1
      <4> QED
        BY <2>2, <3>1, <4>2, <4>4, <4>5, <4>6
    <3> QED
      BY <3>2, <3>3
  <2> QED
    BY <2>1, <2>2
<1>16. OrderInv'
  <2> SUFFICES ASSUME NEW b \in SimClient, ~LateOf(b)'
               PROVE  /\ \A t \in Of(b)' : Asked(t)' =>
                           Question(t)'.tag > budget.calls[b] /\ (client[b].pc = "sent" /\ client[b].s # t => Question(t)'.tag > client[b].want.tag)
                      /\ \A t, p \in Of(b)' : Asked(t)' /\ Asked(p)' /\ session'[t].shut /\ session'[p].shut /\ session'[t].host = session'[p].host => t = p
                      /\ \A g \in SimHost : \A k \in DOMAIN device'[g].log : device'[g].log[k].client = b =>
                           /\ device'[g].log[k].tag > budget.calls[b]
                           /\ \A t \in Of(b)' : Asked(t)' /\ (~session'[t].shut \/ session'[t].host = g) => device'[g].log[k].tag > Question(t)'.tag
                           /\ \A j \in DOMAIN device'[g].log : k < j /\ device'[g].log[j].client = b => device'[g].log[k].tag >= device'[g].log[j].tag
    BY <1>0 DEF OrderInv
  <2>1. ~LateOf(b) /\ Of(b)' = Of(b) /\ Of(b) \subseteq DOMAIN session /\ \A t \in Of(b) : ~session[t].late
    BY <1>0, <1>2 DEF LateOf, Of
  <2>2. /\ \A t \in Of(b) : Asked(t) =>
             Question(t).tag > budget.calls[b] /\ (client[b].pc = "sent" /\ client[b].s # t => Question(t).tag > client[b].want.tag)
        /\ \A t, p \in Of(b) : Asked(t) /\ Asked(p) /\ session[t].shut /\ session[p].shut /\ session[t].host = session[p].host => t = p
    BY <2>1 DEF IoRest, OrderInv
  <2>3. \A g \in SimHost : \A k \in DOMAIN device[g].log : device[g].log[k].client = b =>
          /\ device[g].log[k].tag > budget.calls[b]
          /\ \A t \in Of(b) : Asked(t) /\ (~session[t].shut \/ session[t].host = g) => device[g].log[k].tag > Question(t).tag
          /\ \A j \in DOMAIN device[g].log : k < j /\ device[g].log[j].client = b => device[g].log[k].tag >= device[g].log[j].tag
    BY <2>1 DEF IoRest, OrderInv
  <2>4. \A t \in Of(b) : Asked(t)' => t # s /\ Asked(t) /\ Question(t)' = Question(t) /\ session'[t] = session[t]
    BY <1>1, <1>5, <1>7, <2>1
  <2>5. ASSUME NEW g \in SimHost, NEW k \in DOMAIN device'[g].log, device'[g].log[k].client = b
        PROVE  /\ device'[g].log[k].tag > budget.calls[b]
               /\ \A t \in Of(b) : Asked(t)' /\ (~session'[t].shut \/ session'[t].host = g) => device'[g].log[k].tag > Question(t).tag
               /\ \A j \in DOMAIN device'[g].log : k < j /\ device'[g].log[j].client = b => device'[g].log[k].tag >= device'[g].log[j].tag
    <3>1. CASE k \in DOMAIN device[g].log
      <4>1. device'[g].log[k] = device[g].log[k]
        BY <1>8, <3>1
      <4>2. /\ device[g].log[k].tag > budget.calls[b]
            /\ \A t \in Of(b) : Asked(t) /\ (~session[t].shut \/ session[t].host = g) => device[g].log[k].tag > Question(t).tag
            /\ \A j \in DOMAIN device[g].log : k < j /\ device[g].log[j].client = b => device[g].log[k].tag >= device[g].log[j].tag
        BY <2>3, <2>5, <3>1, <4>1
      <4>3. ASSUME NEW j \in DOMAIN device'[g].log, k < j, device'[g].log[j].client = b
            PROVE  device[g].log[k].tag >= device'[g].log[j].tag
        <5>1. CASE j \in DOMAIN device[g].log
          <6>1. device'[g].log[j] = device[g].log[j]
            BY <1>8, <5>1
          <6> QED
            BY <4>2, <4>3, <5>1, <6>1
        <5>2. CASE j \notin DOMAIN device[g].log
          <6>1. g = h /\ b = c /\ device'[g].log[j].tag = r.tag
            BY <1>8, <4>3, <5>2
          <6>2. s \in Of(b)
            BY <1>0, <6>1 DEF Of
          <6>3. device[g].log[k].tag > r.tag
            BY <1>0, <1>4, <4>2, <6>1, <6>2
          <6>4. device[g].log[k].tag \in Nat /\ r.tag \in Nat
            BY <3>1, LogEntries DEF SimRequest
          <6> QED
            BY <6>1, <6>3, <6>4
        <5> QED
          BY <5>1, <5>2
      <4> QED
        BY <2>4, <4>1, <4>2, <4>3
    <3>2. CASE k \notin DOMAIN device[g].log
      <4>1. g = h /\ b = c /\ device'[g].log[k].tag = r.tag /\ \A j \in DOMAIN device'[g].log : ~(k < j)
        BY <1>8, <2>5, <3>2
      <4>2. s \in Of(b)
        BY <1>0, <4>1 DEF Of
      <4>3. r.tag > budget.calls[b]
        BY <1>4, <2>2, <4>2
      <4>4. ASSUME NEW t \in Of(b), Asked(t)', ~session'[t].shut \/ session'[t].host = g PROVE r.tag > Question(t).tag
        <5>1. t # s /\ Asked(t) /\ session'[t] = session[t] /\ t \in DOMAIN session /\ ~session[t].late
          BY <2>1, <2>4, <4>4
        <5>2. ASSUME session[t].shut PROVE FALSE
          <6>1. session[t].host = session[s].host
            BY <1>0, <4>1, <4>4, <5>1, <5>2
          <6>2. session[t].at \in {"serving", "handling"}
            BY <5>1, <5>2 DEF HomeInv, Home, Asked
          <6>3. t = s
            BY <1>0, <1>4, <2>1, <4>2, <5>1, <6>1, <6>2, OneAsked DEF IoRest
          <6> QED
            BY <5>1, <6>3
        <5>3. ~session[t].shut
          BY <5>2
        <5>4. Sent(t) /\ Question(t) = Want(t)
          BY <5>1, <5>3 DEF IoRest, AskInv
        <5>5. session[t].client = b
          BY <4>4 DEF Of
        <5>6. client[b].pc = "sent" /\ client[b].s = t /\ Question(t) = client[b].want
          BY <5>4, <5>5 DEF Sent, Want
        <5> QED
          BY <1>4, <2>2, <4>2, <5>1, <5>6
      <4>5. ASSUME NEW j \in DOMAIN device'[g].log, k < j PROVE FALSE
        BY <4>1, <4>5
      <4> QED
        BY <4>1, <4>3, <4>4, <4>5
    <3> QED
      BY <3>1, <3>2
  <2> QED
    BY <2>1, <2>2, <2>4, <2>5
<1>17. LogInv'
  <2> SUFFICES ASSUME NEW g \in SimHost, NEW i \in DOMAIN device'[g].log PROVE device'[g].log[i].client \in SimClient
    BY DEF LogInv
  <2>1. CASE i \in DOMAIN device[g].log
    BY <1>8, <2>1 DEF IoRest, LogInv
  <2>2. CASE i \notin DOMAIN device[g].log
    BY <1>8, <2>2
  <2> QED
    BY <2>1, <2>2
<1> QED
  BY <1>3, <1>11, <1>12, <1>15, <1>16, <1>17 DEF IoRest

LEMMA ConnectionType ==
  ASSUME NEW c \in SimClient \cup {Nobody}, NEW g \in SimHost
  PROVE  /\ Connection(c, g, TRUE) \in SimConnection /\ Connection(c, g, FALSE) \in SimConnection
         /\ ~Connection(c, g, FALSE).left
<1>1. NoRequest \in SimRequest /\ <<>> \in Seq(SimRequest) /\ <<>> \in Seq(SimReply)
  BY NoClientType
<1> QED
  BY <1>1 DEF Connection, SimConnection

LEMMA ProbeKeeps ==
  ASSUME SimTypes, CallerTypes, HomeInv, ThreadInv, IoRest, NEW h \in SimHost, IsLive(h), session' # session
  PROVE  HomeInv' /\ IoRest'
<1>1. PICK g \in SimHost : server[g].pc \in Listening /\ session' = Append(session, Connection(Nobody, g, TRUE)) /\ CreateFails(h)
  BY DEF IsLive, Reachable
<1>2. PICK r : r = Connection(Nobody, g, TRUE)
  OBVIOUS
<1>3. /\ r \in SimConnection /\ r.host = g /\ r.at = "backlog" /\ r.reqs = <<>> /\ r.replies = <<>> /\ ~r.shut /\ ~r.late
  <2>1. r \in SimConnection
    BY <1>2, ConnectionType
  <2> QED
    BY <1>2, <2>1 DEF Connection
<1>4. device' = device /\ client' = client /\ budget' = budget /\ server[h].pc = "probe"
  BY DEF IsLive, At
<1>5. Joins(r)
  BY <1>1, <1>2, <1>3, <1>4 DEF Joins
<1>6. \A k \in SimHost : k # h => server'[k].pc = server[k].pc
  BY <1>1 DEF CreateFails, Goto, SimTypes
<1>7. ServedBy(h) = {} /\ server[h].pc \notin Listening
  BY <1>4, NoneServed DEF Listening
<1>8. server'[r.host].pc \in Listening
  BY <1>1, <1>3, <1>6, <1>7
<1> QED
  BY <1>5, <1>6, <1>7, <1>8, ArrivalKeeps

LEMMA AttachKeeps ==
  ASSUME SimTypes, CallerTypes, HomeInv, IoRest, NEW c \in SimClient, Attach(c), session' # session
  PROVE  CallerTypes' /\ HomeInv' /\ IoRest'
<1>1. PICK g \in SimHost : /\ server[g].pc \in Listening /\ session' = Append(session, Connection(c, g, FALSE))
                           /\ client' = [client EXCEPT ![c].pc = "attached", ![c].s = Len(session) + 1]
  BY DEF Attach, Reachable
<1>2. PICK r : r = Connection(c, g, FALSE)
  OBVIOUS
<1>3. /\ r \in SimConnection /\ r.client = c /\ r.host = g /\ r.at = "backlog" /\ r.reqs = <<>> /\ r.replies = <<>>
      /\ ~r.shut /\ ~r.late /\ ~r.left
  <2>1. r \in SimConnection /\ ~r.left
    BY <1>2, ConnectionType
  <2> QED
    BY <1>2, <2>1 DEF Connection
<1>4. device' = device /\ budget' = budget /\ server' = server /\ dirs' = dirs /\ client[c].pc = "connect"
  BY DEF Attach, ClientOnly
<1>5. client[c] \in SimCaller /\ Len(session) \in Nat
  BY IoTypes
<1>6. PICK q : q = [client[c] EXCEPT !.pc = "attached", !.s = Len(session) + 1]
  OBVIOUS
<1>7. client' = [client EXCEPT ![c] = q]
  BY <1>1, <1>5, <1>6 DEF SimCaller
<1>8. q \in SimCaller
  <2>1. PICK n \in Nat : n = Len(session) + 1
    BY <1>5
  <2>2. q = [client[c] EXCEPT !.pc = "attached", !.s = n]
    BY <1>6, <2>1
  <2> QED
    BY <1>5, <2>1, <2>2 DEF SimCaller
<1>9. client' \in [SimClient -> SimCaller] /\ client'[c] = q /\ \A b \in SimClient : b # c => client'[b] = client[b]
  BY <1>7, <1>8, CallerSet
<1>10. CallerTypes'
  BY <1>4, <1>9 DEF CallerTypes
<1>11. Joins(r)
  BY <1>1, <1>2, <1>3, <1>4, <1>6, <1>9 DEF Joins
<1>12. HomeInv' /\ IoRest'
  BY <1>1, <1>3, <1>4, <1>11, ArrivalKeeps
<1> QED
  BY <1>10, <1>12

LEMMA HostCallers ==
  ASSUME SimTypes, CallerTypes, NEW h \in SimHost, HostStep(h)
  PROVE  CallerTypes'
<1>1. server[h].dir \in Dir
  BY SimTypeFacts
<1>2. client' = client
  BY DEF HostStep, StartHost, Claim, DoAccept, CloseHostDevice, Interrupt, Teardown, CrashHost,
         AllocateServerDirectory, CreateDirectories, BindSocket, IsLive, IsSocket, RemoveStale,
         Permissions, Listen, StartBackend, BeginStop, JoinThreads, RemoveSocket, RemoveDirectory, CloseAcceptor, Quiet
<1>3. dirs' \subseteq dirs \cup {server[h].dir}
  BY DEF HostStep, StartHost, Claim, DoAccept, CloseHostDevice, Interrupt, Teardown, CrashHost,
         AllocateServerDirectory, CreateDirectories, BindSocket, IsLive, CreateFails, IsSocket, RemoveStale,
         Permissions, Listen, StartBackend, BeginStop, JoinThreads, RemoveSocket, RemoveDirectory, CloseAcceptor, Path
<1> QED
  BY <1>1, <1>2, <1>3 DEF CallerTypes

LEMMA SpendCall ==
  ASSUME SimTypes, NEW c \in SimClient, budget.calls[c] > 0, budget' = [budget EXCEPT !.calls[c] = @ - 1]
  PROVE  /\ budget'.calls[c] = budget.calls[c] - 1 /\ budget.calls[c] \in Nat /\ SpentBy(c)
<1>1. budget \in SimBudget /\ budget.calls \in [SimClient -> Nat] /\ budget.calls[c] \in Nat
  BY DEF SimTypes, SimBudget
<1>2. budget'.calls = [budget.calls EXCEPT ![c] = @ - 1]
  BY <1>1 DEF SimBudget
<1>3. budget'.calls[c] = budget.calls[c] - 1 /\ \A b \in SimClient : b # c => budget'.calls[b] = budget.calls[b]
  BY <1>1, <1>2
<1> QED
  BY <1>1, <1>3 DEF SpentBy

LEMMA RequestKeeps ==
  ASSUME SimTypes, CallerTypes, HomeInv, IoRest, NEW c \in SimClient, SendRequest(c)
  PROVE  CallerTypes' /\ HomeInv' /\ IoRest'
<1>0. client[c].pc = "attached" /\ budget.calls[c] > 0 /\ budget' = [budget EXCEPT !.calls[c] = @ - 1] /\ SameHosts
  BY DEF SendRequest, ClientOnly, SameHosts
<1>1. budget'.calls[c] = budget.calls[c] - 1 /\ budget.calls[c] \in Nat /\ SpentBy(c)
  BY <1>0, SpendCall
<1>2. CASE Session(c).shut /\ Throw(c)
  BY <1>0, <1>1, <1>2, ThrowLeaves, LeaveKeeps
<1>3. ASSUME NEW kind \in Kinds(c), NEW m, m = [kind |-> kind, tag |-> budget.calls[c]], ~Session(c).shut,
             client' = [client EXCEPT ![c].pc = "sent", ![c].want = m, ![c].got = NoReply],
             session' = [session EXCEPT ![client[c].s].reqs = Append(@, m)]
      PROVE  \E i : Asks(c, i, m)
  <2>1. PICK i \in DOMAIN session : i = client[c].s /\ session[i].client = c /\ ~session[i].left /\ session[i] \in SimConnection
    BY <1>0, Attached
  <2>2. ~session[i].shut
    BY <1>3, <2>1 DEF Session
  <2>3. kind \in {"read", "write", "info", "shutdown"} /\ (client[c].fresh => kind # "write")
    BY DEF Kinds
  <2>4. m \in SimRequest /\ m.tag = budget.calls[c] /\ (client[c].fresh => m.kind # "write")
    BY <1>1, <1>3, <2>3 DEF SimRequest
  <2>5. session' = [session EXCEPT ![i] = [session[i] EXCEPT !.reqs = Append(@, m)]]
    BY <1>3, <2>1 DEF SimConnection
  <2>6. client' = [client EXCEPT ![c] = [client[c] EXCEPT !.pc = "sent", !.want = m, !.got = NoReply]]
    BY <1>3 DEF CallerTypes, SimCaller
  <2>7. Asks(c, i, m)
    BY <1>0, <1>1, <2>1, <2>2, <2>4, <2>5, <2>6 DEF Asks, SpentBy
  <2> QED
    BY <2>7
<1>4. CASE \E kind \in Kinds(c) :
          LET r == [kind |-> kind, tag |-> budget.calls[c]] IN
          /\ ~Session(c).shut
          /\ client' = [client EXCEPT ![c].pc = "sent", ![c].want = r, ![c].got = NoReply]
          /\ session' = [session EXCEPT ![client[c].s].reqs = Append(@, r)]
  <2>1. PICK kind \in Kinds(c) :
          /\ ~Session(c).shut
          /\ client' = [client EXCEPT ![c].pc = "sent", ![c].want = [kind |-> kind, tag |-> budget.calls[c]], ![c].got = NoReply]
          /\ session' = [session EXCEPT ![client[c].s].reqs = Append(@, [kind |-> kind, tag |-> budget.calls[c]])]
    BY <1>4
  <2>2. PICK m, i : Asks(c, i, m)
    BY <1>3, <2>1
  <2> QED
    BY <2>2, SendKeeps
<1> QED
  BY <1>2, <1>4 DEF SendRequest

LEMMA HandleKeeps ==
  ASSUME SimTypes, CallerTypes, HomeInv, IoRest, NEW s \in DOMAIN session, HandleRequest(s)
  PROVE  CallerTypes' /\ HomeInv' /\ IoRest'
<1>1. PICK h, c, r : h \in SimHost /\ r \in SimRequest /\ h = session[s].host /\ c = session[s].client /\ r = session[s].req
  BY IoTypes
<1>2. c \in SimClient
  BY <1>1 DEF HomeInv, Home, HandleRequest
<1>3. Performing(s, h, c, r)
  BY <1>1, HandlePerforms
<1> QED
  BY <1>1, <1>2, <1>3, PerformKeeps

LEMMA IoInitInv == SimInit => IoInv
<1> SUFFICES ASSUME SimInit PROVE IoInv
  OBVIOUS
<1>1. /\ dirs = {} /\ session = <<>> /\ client = [c \in SimClient |-> NoClient]
      /\ device = [h \in SimHost |-> [log |-> <<>>, closed |-> FALSE]]
  BY DEF SimInit
<1>2. DOMAIN session = {} /\ Len(session) = 0
  BY <1>1
<1>3. \A h \in SimHost : DOMAIN device[h].log = {}
  BY <1>1
<1>4. CallerTypes
  BY <1>1, NoClientType DEF CallerTypes
<1>5. CurrentInv /\ OwnInv
  BY <1>1, <1>2, NoClientType DEF CurrentInv, Current, OwnInv, Own, NoClient
<1>6. HomeInv /\ AskInv
  BY <1>2 DEF HomeInv, AskInv
<1>7. OrderInv /\ LogInv
  BY <1>2, <1>3 DEF OrderInv, LogInv, Of
<1> QED
  BY <1>4, <1>5, <1>6, <1>7 DEF IoInv

LEMMA IoNextInv == SimInv /\ IoInv /\ SimNext => IoInv'
<1> SUFFICES ASSUME SimInv, IoInv, SimNext PROVE CallerTypes' /\ HomeInv' /\ IoRest'
  BY DEF IoInv, IoRest
<1>0. SimTypes /\ ThreadInv /\ CallerTypes /\ HomeInv /\ IoRest
  BY DEF SimInv, IoInv, IoRest
<1>1. ASSUME NEW h \in SimHost, HostStep(h) PROVE CallerTypes' /\ HomeInv' /\ IoRest'
  <2>1. CallerTypes'
    BY <1>0, <1>1, HostCallers
  <2>2. CASE StartHost(h)
    BY <1>0, <2>1, <2>2, StartKeeps
  <2>3. CASE Claim(h) /\ session' = session
    BY <1>0, <2>1, <2>3, ClaimMoves, MovingKeeps
  <2>4. CASE Claim(h) /\ session' # session
    <3>1. IsLive(h)
      BY <2>4 DEF Claim, AllocateServerDirectory, CreateDirectories, BindSocket, IsSocket, RemoveStale,
                  Permissions, Listen, StartBackend, Quiet
    <3> QED
      BY <1>0, <2>1, <2>4, <3>1, ProbeKeeps
  <2>5. CASE DoAccept(h)
    BY <1>0, <2>1, <2>5, AcceptMoves, MovingKeeps
  <2>6. CASE CloseHostDevice(h) \/ Interrupt(h)
    BY <1>0, <2>1, <2>6, ServingMoves, MovingKeeps
  <2>7. CASE Teardown(h) \/ CrashHost(h)
    BY <1>0, <2>1, <2>7, TeardownMoves, MovingKeeps
  <2> QED
    BY <1>1, <2>2, <2>3, <2>4, <2>5, <2>6, <2>7 DEF HostStep
<1>2. ASSUME NEW s \in DOMAIN session, ServeStep(s) PROVE CallerTypes' /\ HomeInv' /\ IoRest'
  <2>1. CASE RecvRequest(s)
    <3>1. CallerTypes'
      BY <1>0, <2>1 DEF CallerTypes, RecvRequest
    <3> QED
      BY <1>0, <2>1, <3>1, ReceiveMoves, MovingKeeps
  <2>2. CASE HandleRequest(s)
    BY <1>0, <2>2, HandleKeeps
  <2> QED
    BY <1>2, <2>1, <2>2 DEF ServeStep
<1>3. ASSUME NEW c \in SimClient, ClientStep(c) PROVE CallerTypes' /\ HomeInv' /\ IoRest'
  <2>1. CASE Discover(c) \/ (Attach(c) /\ session' = session)
    BY <1>0, <2>1, DiscoverLeaves, LeaveKeeps
  <2>2. CASE Attach(c) /\ session' # session
    BY <1>0, <2>2, AttachKeeps
  <2>3. CASE SendRequest(c)
    BY <1>0, <2>3, RequestKeeps
  <2>4. CASE ReceiveReply(c)
    BY <1>0, <2>4, ReceiveLeaves, LeaveKeeps
  <2>5. CASE ReplyTimeout(c)
    BY <1>0, <2>5, TimeoutLeaves, LeaveKeeps
  <2>6. CASE PeerClosed(c)
    <3>1. /\ client[c].pc = "sent" /\ Session(c).shut /\ Session(c).replies = <<>> /\ Throw(c) /\ SameHosts /\ budget' = budget
      BY <2>6 DEF PeerClosed, ClientOnly, SameHosts
    <3>2. SpentBy(c)
      BY <1>0, <3>1, IoTypes DEF SpentBy
    <3> QED
      BY <1>0, <3>1, <3>2, ThrowLeaves, LeaveKeeps
  <2>7. CASE Detach(c)
    BY <1>0, <2>7, DetachLeaves, LeaveKeeps
  <2> QED
    BY <1>3, <2>1, <2>2, <2>3, <2>4, <2>5, <2>6, <2>7 DEF ClientStep, AwaitReply
<1> QED
  BY <1>1, <1>2, <1>3 DEF SimNext, HostStep, Serve, ServeStep, ClientStep

LEMMA IoStutter == SimInv /\ IoInv /\ UNCHANGED simVars => IoInv'
<1> SUFFICES ASSUME SimInv, IoInv, UNCHANGED simVars PROVE IoInv'
  OBVIOUS
<1>0. SimTypes /\ CallerTypes /\ HomeInv /\ IoRest /\ UNCHANGED <<dirs, server, device, session, client, budget>>
  BY DEF SimInv, IoInv, IoRest, simVars
<1>1. \A s \in DOMAIN session : Moves(s)
  BY <1>0 DEF Moves, Same, Settled
<1>2. Moving
  BY <1>0, <1>1 DEF Moving, SameCalls
<1>3. HomeInv' /\ IoRest' /\ CallerTypes'
  BY <1>0, <1>2, MovingKeeps DEF CallerTypes
<1> QED
  BY <1>3 DEF IoInv, IoRest

LEMMA IoInvSound == SimInv /\ IoInv => OwnReplyUnlessLate /\ WritesInOrder
<1> SUFFICES ASSUME SimInv, IoInv PROVE OwnReplyUnlessLate /\ WritesInOrder
  OBVIOUS
<1>0. SimTypes /\ CallerTypes
  BY DEF SimInv, IoInv
<1>1. OwnReplyUnlessLate
  <2> SUFFICES ASSUME NEW c \in SimClient, client[c].got # NoReply, ~Session(c).late
               PROVE  /\ client[c].got.tag = client[c].want.tag
                      /\ client[c].want.kind = "write" /\ client[c].got.ok /\ ~device[Session(c).host].closed /\ ~Session(c).shut =>
                           \E i \in DOMAIN device[Session(c).host].log :
                             device[Session(c).host].log[i] = [client |-> c, tag |-> client[c].want.tag]
    BY DEF OwnReplyUnlessLate
  <2>1. PICK s, w, a : s = client[c].s /\ w = client[c].want /\ a = client[c].got
    OBVIOUS
  <2>2. session[s].client = c /\ a.tag = w.tag /\ Written(s, w, a)
    BY <2>1 DEF IoInv, CurrentInv, Current, OwnInv, Own, Session
  <2>3. w.kind = "write" /\ a.ok /\ ~device[session[s].host].closed /\ ~session[s].shut => InLog(session[s].host, c, w.tag)
    BY <2>2 DEF Written, Open
  <2> QED
    BY <2>1, <2>2, <2>3 DEF Session, InLog
<1>2. WritesInOrder
  <2> SUFFICES ASSUME NEW h \in SimHost, NEW i \in DOMAIN device[h].log, NEW j \in DOMAIN device[h].log,
                      i < j, device[h].log[i].client = device[h].log[j].client, device[h].log[i].tag < device[h].log[j].tag
               PROVE  LateOf(device[h].log[i].client)
    BY DEF WritesInOrder, LateOf
  <2>1. PICK c \in SimClient : c = device[h].log[i].client
    BY DEF IoInv, LogInv
  <2>2. device[h].log[i].tag \in Nat /\ device[h].log[j].tag \in Nat
    BY <1>0, LogEntries
  <2>3. ~LateOf(c) => device[h].log[i].tag >= device[h].log[j].tag
    BY <2>1 DEF IoInv, OrderInv
  <2> QED
    BY <2>1, <2>2, <2>3
<1> QED
  BY <1>1, <1>2

(* The servers' part of SimulationIoSound: replies and writes.             *)
LEMMA ServersSound == SimulationSpec => [](OwnReplyUnlessLate /\ WritesInOrder)
<1>1. SimulationInit => SimInv /\ IoInv
  BY SimInitInv, IoInitInv DEF SimulationInit
<1>2. SimInv /\ IoInv /\ [SimulationNext]_vars => SimInv' /\ IoInv'
  BY SimNextInv, SimStutter, IoNextInv, IoStutter DEF SimulationNext, Servers, Rtls, Backends, vars, simVars
<1> QED
  BY <1>1, <1>2, IoInvSound, PTL DEF SimulationSpec
=============================================================================
