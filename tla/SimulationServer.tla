-------------------------- MODULE SimulationServer --------------------------
(***************************************************************************)
(* Simulated devices shared between processes.  A host process claims a    *)
(* server directory, binds a UNIX socket in it (SimulationServerSocket),   *)
(* brings its simulator up and serves requests, a thread per connection.   *)
(* Client processes find the socket in the directory, attach to it and     *)
(* exchange framed requests and replies (SimulationClient), with a         *)
(* timeout.  sim_server stops a host with a SHUTDOWN request.              *)
(*                                                                         *)
(* One chip per host, so a directory holds one socket: sock[d] says who    *)
(* bound it.  A request is its kind and a number, its reply carries the    *)
(* number of the request it answers: the wire formats are left out.        *)
(***************************************************************************)
EXTENDS Integers, Sequences, FiniteSets, FiniteSetsExt

CONSTANTS
  SimHost,      \* host processes
  SimClient,    \* client processes: a UMD client device, or sim_server kill
  MaxServerIndex, \* allocate_server_directory tries 0 .. MaxServerIndex - 1
  SimBacklog,   \* acceptor.listen(backlog)
  MaxSessions,  \* connections ever made
  SimBudgets,   \* how hosts are started, starts of each, crashes, requests of each client, closes
  Nobody, Stale \* no socket file; one whose owner has crashed

ASSUME SimBounds ==
  /\ MaxServerIndex \in Nat \ {0} /\ SimBacklog \in Nat \ {0} /\ MaxSessions \in Nat
  /\ SimHost \cap {Nobody, Stale} = {} /\ Nobody # Stale
  /\ SimBudgets \subseteq
       [plans : SUBSET [pc : {"allocate", "mkdirs"}, dir : 0 .. MaxServerIndex - 1, dedicated : BOOLEAN, stop : {FALSE}],
        starts : [SimHost -> Nat], crashes : Nat, calls : [SimClient -> Nat], closes : Nat]

VARIABLES
  dirs,      \* the server directories that exist
  sock,      \* the socket file of each directory: who bound it
  server,    \* of each host: pc, dir, is a shutdown handler set, stop_requested
  device,    \* of each host: the requests applied to the device, is it closed
  session,   \* the connections, in the order they were made
  client,    \* of each client: pc, connection, last request and reply
  budget,
  contended  \* two hosts have been claiming one socket path at the same time

simVars == <<dirs, sock, server, device, session, client, budget, contended>>

Dir == 0 .. MaxServerIndex - 1
NoRequest == [kind |-> "none", tag |-> 0]
NoReply == [tag |-> 0, ok |-> FALSE, data |-> 0]
NoClient == [pc |-> "off", why |-> "device", dir |-> 0, s |-> 0, fresh |-> TRUE, want |-> NoRequest, got |-> NoReply]

SimInit ==
  /\ dirs = {} /\ sock = [d \in Dir |-> Nobody]
  /\ server = [h \in SimHost |-> [pc |-> "off", dir |-> 0, dedicated |-> FALSE, stop |-> FALSE]]
  /\ device = [h \in SimHost |-> [log |-> <<>>, closed |-> FALSE]]
  /\ session = <<>>
  /\ client = [c \in SimClient |-> NoClient]
  /\ budget \in SimBudgets
  /\ contended = FALSE

(* The steps of bind_and_listen(), from bind() to listen().                *)
Claiming == {"bind", "probe", "stat", "remove", "rebind", "permissions", "listen"}
(* bind_and_listen() is done and the acceptor is not yet closed.           *)
Listening == {"present", "serving", "joining", "unlink", "rmdir", "close"}

Watch ==
  contended' = (contended \/ \E h, g \in SimHost :
    h # g /\ server'[h].pc \in Claiming /\ server'[g].pc \in Claiming /\ server'[h].dir = server'[g].dir)

At(h, pc) == server[h].pc = pc
Goto(h, pc) == server' = [server EXCEPT ![h].pc = pc] /\ Watch
Path(h) == server[h].dir
Quiet(h) == UNCHANGED <<device, session, client, budget>>

-----------------------------------------------------------------------------
(* Claiming a directory and a socket.                                      *)

(* A host is started in a directory of its own (sim_server start, or no    *)
(* server_directory given) or in a given one, with a shutdown handler or   *)
(* without.                                                                *)
InOwnDirectory(handler) == [pc |-> "allocate", dir |-> 0, dedicated |-> handler, stop |-> FALSE]
InDirectory(d, handler) == [pc |-> "mkdirs", dir |-> d, dedicated |-> handler, stop |-> FALSE]

StartHost(h) ==
  /\ At(h, "off") /\ budget.starts[h] > 0
  /\ budget' = [budget EXCEPT !.starts[h] = @ - 1]
  /\ \E plan \in budget.plans : server' = [server EXCEPT ![h] = plan]
  /\ Watch
  /\ device' = [device EXCEPT ![h] = [log |-> <<>>, closed |-> FALSE]]
  /\ UNCHANGED <<dirs, sock, session, client>>

(* allocate_server_directory(): one create_directory, which is atomic, for *)
(* each index until one succeeds; it throws after the last.                *)
AllocateServerDirectory(h) ==
  /\ At(h, "allocate")
  /\ dirs' = dirs \cup {Path(h)}
  /\ \/ Path(h) \notin dirs /\ Goto(h, "mkdirs")
     \/ Path(h) \in dirs /\ Path(h) + 1 \in Dir /\ server' = [server EXCEPT ![h].dir = @ + 1] /\ Watch
     \/ Path(h) \in dirs /\ Path(h) + 1 \notin Dir /\ Goto(h, "off")
  /\ Quiet(h) /\ UNCHANGED sock

(* bind_and_listen(): create_directories(parent).                          *)
CreateDirectories(h) ==
  /\ At(h, "mkdirs") /\ Goto(h, "bind")
  /\ dirs' = dirs \cup {Path(h)}
  /\ Quiet(h) /\ UNCHANGED sock

(* acceptor.bind(): address_in_use leads to the reclaim, any other failure *)
(* (the directory is gone) throws; after the reclaim every failure throws. *)
BindSocket(h) ==
  /\ server[h].pc \in {"bind", "rebind"}
  /\ \/ Path(h) \in dirs /\ sock[Path(h)] = Nobody
          /\ sock' = [sock EXCEPT ![Path(h)] = h] /\ Goto(h, "permissions")
     \/ Path(h) \in dirs /\ sock[Path(h)] # Nobody
          /\ Goto(h, IF At(h, "bind") THEN "probe" ELSE "off") /\ UNCHANGED sock
     \/ Path(h) \notin dirs /\ Goto(h, "off") /\ UNCHANGED sock
  /\ Quiet(h) /\ UNCHANGED dirs

BacklogOf(g) == {s \in DOMAIN session : session[s].host = g /\ session[s].at = "backlog"}
Reachable(d) == {g \in SimHost : sock[d] = g /\ server[g].pc \in Listening /\ Cardinality(BacklogOf(g)) < SimBacklog}
Refused(d) == \A g \in SimHost : sock[d] = g => server[g].pc \notin Listening

Connection(c, g, gone) ==
  [client |-> c, host |-> g, at |-> "backlog", reqs |-> <<>>, replies |-> <<>>, req |-> NoRequest,
   shut |-> FALSE, left |-> gone, late |-> FALSE]

\* Mutant: the destructor of an object that never bound removes the file.
CreateFailsUnbound(h) == Goto(h, "off") /\ sock' = [sock EXCEPT ![Path(h)] = Nobody] /\ UNCHANGED dirs

(* is_live(): a connection that is closed at once.  A full backlog blocks  *)
(* the connect.  A live owner makes try_create() return null and create()  *)
(* throw; the object was never bound and leaves the file alone.            *)
CreateFails(h) == Goto(h, "off") /\ UNCHANGED <<dirs, sock>>

IsLive(h) ==
  /\ At(h, "probe")
  /\ \/ \E g \in Reachable(Path(h)) :
          /\ Len(session) < MaxSessions
          /\ session' = Append(session, Connection(Nobody, g, TRUE))
          /\ CreateFails(h)
     \/ Refused(Path(h)) /\ Goto(h, "stat") /\ UNCHANGED <<dirs, sock, session>>
  /\ UNCHANGED <<device, client, budget>>

(* Only a socket is reclaimed: is_socket(), then remove().                 *)
IsSocket(h) ==
  /\ At(h, "stat") /\ Goto(h, IF sock[Path(h)] # Nobody THEN "remove" ELSE "off")
  /\ Quiet(h) /\ UNCHANGED <<dirs, sock>>

RemoveStale(h) ==
  /\ At(h, "remove") /\ Goto(h, "rebind")
  /\ sock' = [sock EXCEPT ![Path(h)] = Nobody]
  /\ Quiet(h) /\ UNCHANGED dirs

(* permissions() fails when the file is gone; any failure removes the file *)
(* and throws, as does a failing listen().                                 *)
Permissions(h) ==
  /\ At(h, "permissions")
  /\ Goto(h, IF sock[Path(h)] # Nobody THEN "listen" ELSE "off")
  /\ Quiet(h) /\ UNCHANGED <<dirs, sock>>

Listen(h) ==
  /\ At(h, "listen")
  /\ \/ Goto(h, "present") /\ UNCHANGED sock
     \/ Goto(h, "off") /\ sock' = [sock EXCEPT ![Path(h)] = Nobody]
  /\ Quiet(h) /\ UNCHANGED dirs

(* The backend comes up and adopt_socket() serves, or its constructor      *)
(* throws and the socket is destroyed with nothing to join.                *)
StartBackend(h) ==
  /\ At(h, "present")
  /\ Goto(h, "serving") \/ Goto(h, "unlink")
  /\ Quiet(h) /\ UNCHANGED <<dirs, sock>>

-----------------------------------------------------------------------------
(* Serving.                                                                *)

ServedBy(h) == {s \in DOMAIN session : session[s].host = h /\ session[s].at \in {"serving", "handling"}}
FinishedOf(h) == {s \in DOMAIN session : session[s].host = h /\ session[s].at = "finished"}

(* do_accept(): the finished connections are reaped and the new one gets a *)
(* thread; during the teardown it is dropped.                              *)
DoAccept(h) ==
  /\ server[h].pc \in {"serving", "joining"} /\ BacklogOf(h) # {}
  /\ LET s == Min(BacklogOf(h)) IN
       \/ /\ At(h, "serving")
          /\ session' = [r \in DOMAIN session |->
               IF r = s THEN [session[r] EXCEPT !.at = "serving"]
               ELSE IF r \in FinishedOf(h) THEN [session[r] EXCEPT !.at = "reaped"] ELSE session[r]]
       \/ /\ At(h, "joining")
          /\ session' = [session EXCEPT ![s].at = "reaped", ![s].shut = TRUE]
  /\ UNCHANGED <<dirs, sock, server, device, client, budget, contended>>

(* The serving thread: recv_framed(), which ends the session at EOF.       *)
RecvRequest(s) ==
  /\ session[s].at = "serving"
  /\ \/ /\ session[s].reqs # <<>>
        /\ session' = [session EXCEPT ![s].at = "handling", ![s].req = Head(session[s].reqs), ![s].reqs = Tail(@)]
     \/ /\ session[s].reqs = <<>> /\ (session[s].left \/ session[s].shut)
        /\ session' = [session EXCEPT ![s].at = "finished"]
  /\ UNCHANGED <<dirs, sock, server, device, client, budget, contended>>

(* handle_request(): host_read() and host_write() return at once when the  *)
(* device is closed, and the reply says success; an access that throws and *)
(* a description that cannot be read are answered with a status other than *)
(* zero; SHUTDOWN only sets the flag of a host with a handler.  data is    *)
(* the number of writes seen.                                              *)
MayFail(h, r) == r.kind = "info" \/ (r.kind # "shutdown" /\ ~device[h].closed)
Performed(h, r, ok) == r.kind = "write" /\ ok /\ ~device[h].closed
Answer(h, r, ok) ==
  [tag |-> r.tag, ok |-> ok, data |-> IF device[h].closed THEN 0 ELSE Len(device[h].log) + (IF Performed(h, r, ok) THEN 1 ELSE 0)]

\* Mutant: the request is acknowledged on receipt and answered when done.
RepliedTwice(s, reply) ==
  [session EXCEPT ![s].at = "serving", ![s].req = NoRequest, ![s].replies = Append(Append(@, reply), reply)]

Replied(s, reply) ==
  IF session[s].left \/ session[s].shut
    THEN [session EXCEPT ![s].at = "finished", ![s].req = NoRequest]
    ELSE [session EXCEPT ![s].at = "serving", ![s].req = NoRequest, ![s].replies = Append(@, reply)]

HandleRequest(s) ==
  LET h == session[s].host
      r == session[s].req
  IN /\ session[s].at = "handling"
     /\ \E ok \in BOOLEAN :
          /\ ~ok => MayFail(h, r)
          /\ session' = Replied(s, Answer(h, r, ok))
          /\ device' = [device EXCEPT ![h].log = IF Performed(h, r, ok) THEN Append(@, [client |-> session[s].client, tag |-> r.tag]) ELSE @]
     /\ server' = [server EXCEPT ![h].stop = @ \/ (r.kind = "shutdown" /\ server[h].dedicated)]
     /\ UNCHANGED <<dirs, sock, client, budget, contended>>

(* TTSimTTDevice::close_device() on a host that keeps serving.             *)
CloseHostDevice(h) ==
  /\ At(h, "serving") /\ ~device[h].closed /\ budget.closes > 0
  /\ device' = [device EXCEPT ![h].closed = TRUE]
  /\ budget' = [budget EXCEPT !.closes = @ - 1]
  /\ UNCHANGED <<dirs, sock, server, session, client, contended>>

(* SIGINT or SIGTERM at sim_server start; an embedded host is destroyed.   *)
Interrupt(h) ==
  /\ At(h, "serving") /\ ~server[h].stop
  /\ server' = [server EXCEPT ![h].stop = TRUE]
  /\ UNCHANGED <<dirs, sock, device, session, client, budget, contended>>

-----------------------------------------------------------------------------
(* ~SimulationServerSocket.                                                *)

\* Mutant: the teardown joins without shutting the connections down.
ShutNothing(h) == session

(* Under the mutex: stopping, and a shutdown of every served connection.   *)
ShutConnections(h) ==
  [s \in DOMAIN session |-> IF s \in ServedBy(h) THEN [session[s] EXCEPT !.shut = TRUE] ELSE session[s]]

BeginStop(h) ==
  /\ At(h, "serving") /\ server[h].stop
  /\ Goto(h, "joining")
  /\ session' = ShutConnections(h)
  /\ UNCHANGED <<dirs, sock, device, client, budget>>

(* The serving threads are joined, io.stop() ends the accept loop.         *)
JoinThreads(h) ==
  /\ At(h, "joining") /\ ServedBy(h) = {}
  /\ Goto(h, "unlink")
  /\ Quiet(h) /\ UNCHANGED <<dirs, sock>>

RemoveSocket(h) ==
  /\ At(h, "unlink") /\ Goto(h, "rmdir")
  /\ sock' = [sock EXCEPT ![Path(h)] = Nobody]
  /\ Quiet(h) /\ UNCHANGED dirs

(* remove() of the directory succeeds only when it is empty.               *)
RemoveDirectory(h) ==
  /\ At(h, "rmdir") /\ Goto(h, "close")
  /\ dirs' = IF sock[Path(h)] = Nobody THEN dirs \ {Path(h)} ELSE dirs
  /\ Quiet(h) /\ UNCHANGED sock

(* The acceptor is closed with impl_, and what waits in its backlog.       *)
Cut(h, gone) ==
  [s \in DOMAIN session |->
     IF session[s].host = h /\ session[s].at \in gone THEN [session[s] EXCEPT !.at = "reaped", !.shut = TRUE] ELSE session[s]]

CloseAcceptor(h) ==
  /\ At(h, "close") /\ Goto(h, "off")
  /\ session' = Cut(h, {"backlog"})
  /\ UNCHANGED <<dirs, sock, device, client, budget>>

(* The host process dies: its files stay.                                  *)
CrashHost(h) ==
  /\ ~At(h, "off") /\ budget.crashes > 0
  /\ budget' = [budget EXCEPT !.crashes = @ - 1]
  /\ Goto(h, "off")
  /\ sock' = [d \in Dir |-> IF sock[d] = h THEN Stale ELSE sock[d]]
  /\ session' = Cut(h, {"backlog", "serving", "handling", "finished"})
  /\ UNCHANGED <<dirs, device, client>>

-----------------------------------------------------------------------------
(* Clients.                                                                *)

Session(c) == session[client[c].s]
ClientOnly == UNCHANGED <<dirs, sock, server, device, contended>>

(* discover() of a directory with a socket, or sim_server kill: a          *)
(* directory without one is classified as a build to host.                 *)
Discover(c) ==
  /\ client[c].pc = "off" /\ budget.calls[c] > 0
  /\ \E d \in dirs, why \in {"device", "kill"} :
       /\ sock[d] # Nobody
       /\ client' = [client EXCEPT ![c] = [NoClient EXCEPT !.pc = "connect", !.why = why, !.dir = d]]
  /\ ClientOnly /\ UNCHANGED <<session, budget>>

(* attach(): a dead socket is skipped, and no other is left to try.        *)
Attach(c) ==
  /\ client[c].pc = "connect"
  /\ \/ \E g \in Reachable(client[c].dir) :
          /\ Len(session) < MaxSessions
          /\ session' = Append(session, Connection(c, g, FALSE))
          /\ client' = [client EXCEPT ![c].pc = "attached", ![c].s = Len(session) + 1]
     \/ Refused(client[c].dir) /\ client' = [client EXCEPT ![c] = NoClient] /\ UNCHANGED session
  /\ ClientOnly /\ UNCHANGED budget

Kinds(c) == IF ~client[c].fresh THEN {"read", "write"} ELSE IF client[c].why = "kill" THEN {"shutdown"} ELSE {"info"}

(* The client object goes away with its connection.                        *)
Dropped(c) == [session EXCEPT ![client[c].s].left = TRUE, ![client[c].s].replies = <<>>]

(* transact() throws: out of discover() or kill the client is destroyed,   *)
(* later the exception goes to the caller and the socket stays open.       *)
Throw(c) ==
  /\ client' = [client EXCEPT ![c] = IF @.fresh THEN NoClient ELSE [@ EXCEPT !.pc = "attached", !.got = NoReply, !.want = NoRequest]]
  /\ session' = IF client[c].fresh THEN Dropped(c) ELSE session

\* Mutant: a write is posted, its reply is not awaited.
SendPosted(c) ==
  /\ client[c].pc = "attached" /\ budget.calls[c] > 0 /\ ~Session(c).shut
  /\ \E kind \in Kinds(c) :
       LET r == [kind |-> kind, tag |-> budget.calls[c]] IN
       /\ client' = [client EXCEPT ![c].pc = IF kind = "write" THEN "attached" ELSE "sent", ![c].want = r, ![c].got = NoReply]
       /\ session' = [session EXCEPT ![client[c].s].reqs = Append(@, r)]
  /\ budget' = [budget EXCEPT !.calls[c] = @ - 1]
  /\ ClientOnly

(* transact(): send_framed(), which fails when the peer has closed.        *)
SendRequest(c) ==
  /\ client[c].pc = "attached" /\ budget.calls[c] > 0
  /\ \/ \E kind \in Kinds(c) :
          LET r == [kind |-> kind, tag |-> budget.calls[c]] IN
          /\ ~Session(c).shut
          /\ client' = [client EXCEPT ![c].pc = "sent", ![c].want = r, ![c].got = NoReply]
          /\ session' = [session EXCEPT ![client[c].s].reqs = Append(@, r)]
     \/ Session(c).shut /\ Throw(c)
  /\ budget' = [budget EXCEPT !.calls[c] = @ - 1]
  /\ ClientOnly

(* recv_framed(): the oldest reply on the connection.  discover() drops a  *)
(* host whose identity failed, and kill is done with its answer;           *)
(* client_read() and client_write() throw on a reply that is not ok, and   *)
(* stay attached.                                                          *)
ReceiveReply(c) ==
  /\ client[c].pc = "sent" /\ Session(c).replies # <<>>
  /\ LET reply == Head(Session(c).replies)
         done == client[c].fresh /\ (client[c].why = "kill" \/ ~reply.ok)
     IN /\ client' = [client EXCEPT ![c].pc = IF done THEN "off" ELSE "attached", ![c].fresh = FALSE, ![c].got = reply]
        /\ session' = [session EXCEPT ![client[c].s].replies = Tail(@), ![client[c].s].left = @ \/ done]
  /\ ClientOnly /\ UNCHANGED budget

(* wait_for_socket(POLLIN): no reply in time, or the peer has closed.      *)
ReplyTimeout(c) ==
  /\ client[c].pc = "sent" /\ Session(c).replies = <<>> /\ ~Session(c).shut
  /\ client' = [client EXCEPT ![c] = IF @.fresh THEN NoClient ELSE [@ EXCEPT !.pc = "attached", !.got = NoReply, !.want = NoRequest]]
  /\ session' = [session EXCEPT ![client[c].s].late = TRUE, ![client[c].s].left = @ \/ client[c].fresh]
  /\ ClientOnly /\ UNCHANGED budget

PeerClosed(c) ==
  /\ client[c].pc = "sent" /\ Session(c).replies = <<>> /\ Session(c).shut
  /\ Throw(c)
  /\ ClientOnly /\ UNCHANGED budget

(* detach(), from the client device's destructor.                          *)
Detach(c) ==
  /\ client[c].pc = "attached" /\ ~client[c].fresh
  /\ client' = [client EXCEPT ![c] = NoClient]
  /\ session' = Dropped(c)
  /\ ClientOnly /\ UNCHANGED budget

-----------------------------------------------------------------------------
Claim(h) ==
  \/ AllocateServerDirectory(h) \/ CreateDirectories(h) \/ BindSocket(h) \/ IsLive(h)
  \/ IsSocket(h) \/ RemoveStale(h) \/ Permissions(h) \/ Listen(h) \/ StartBackend(h)
Teardown(h) == BeginStop(h) \/ JoinThreads(h) \/ RemoveSocket(h) \/ RemoveDirectory(h) \/ CloseAcceptor(h)
Serve(s) == RecvRequest(s) \/ HandleRequest(s)
HostThread(h) == Claim(h) \/ Teardown(h)
AwaitReply(c) == ReceiveReply(c) \/ ReplyTimeout(c) \/ PeerClosed(c)
ClientThread(c) == AwaitReply(c) \/ Attach(c)

SimNext ==
  \/ \E h \in SimHost :
       StartHost(h) \/ Claim(h) \/ DoAccept(h) \/ CloseHostDevice(h) \/ Interrupt(h) \/ Teardown(h) \/ CrashHost(h)
  \/ \E s \in DOMAIN session : Serve(s)
  \/ \E c \in SimClient : Discover(c) \/ Attach(c) \/ SendRequest(c) \/ AwaitReply(c) \/ Detach(c)

SimSpec ==
  /\ SimInit /\ [][SimNext]_simVars
  /\ \A h \in SimHost : WF_simVars(HostThread(h)) /\ WF_simVars(DoAccept(h))
  /\ \A s \in 1 .. MaxSessions : WF_simVars(s \in DOMAIN session /\ Serve(s))
  /\ \A c \in SimClient : WF_simVars(ClientThread(c))

-----------------------------------------------------------------------------
(* A reply read by transact() answers the request just sent, unless an     *)
(* earlier request on the same connection timed out, and a request that    *)
(* was reported as done was: a write of an open device is in it.           *)
OwnReplyUnlessLate ==
  \A c \in SimClient : LET r == client[c].want IN
    client[c].got # NoReply /\ ~Session(c).late =>
      /\ client[c].got.tag = r.tag
      /\ LET d == device[Session(c).host] IN
           r.kind = "write" /\ client[c].got.ok /\ ~d.closed /\ ~Session(c).shut =>
             \E i \in DOMAIN d.log : d.log[i] = [client |-> c, tag |-> r.tag]

(* What simulation_client.hpp says of transact(): it sends one request and *)
(* returns the reply, also on a connection where it has thrown before.     *)
OwnReply == \A c \in SimClient : client[c].got # NoReply => client[c].got.tag = client[c].want.tag

(* The writes of a client reach the device in the order it made them,      *)
(* over reconnections too, unless one of them timed out.                   *)
WritesInOrder ==
  \A h \in SimHost : \A i, j \in DOMAIN device[h].log :
    LET a == device[h].log[i]
        b == device[h].log[j]
    IN i < j /\ a.client = b.client /\ a.tag < b.tag => \E s \in DOMAIN session : session[s].client = a.client /\ session[s].late

(* A host that listens keeps its socket file and its directory, through    *)
(* crashes and reclaims of others, failed claims and teardowns, unless two *)
(* hosts have been claiming the same path at once; a stopped host leaves   *)
(* no serving thread behind.                                               *)
LiveHostReachable ==
  /\ ~contended => \A h \in SimHost :
       server[h].pc \in {"present", "serving", "joining", "unlink"} => sock[Path(h)] = h /\ Path(h) \in dirs
  /\ \A h \in SimHost : server[h].pc \in {"unlink", "rmdir", "close", "off"} => ServedBy(h) = {}

(* A host told to stop does, also with clients that stay attached, and a   *)
(* request sent to any host ends.                                          *)
HostStops == \A h \in SimHost : server[h].stop ~> (~server[h].stop \/ server[h].pc = "off")
RequestsEnd == \A c \in SimClient : client[c].pc = "sent" ~> client[c].pc # "sent"

=============================================================================
