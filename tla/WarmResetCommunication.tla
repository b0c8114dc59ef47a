----------------------- MODULE WarmResetCommunication -----------------------
(***************************************************************************)
(* How a process that resets devices tells the others: every process with  *)
(* a Monitor listens on the Unix socket client_<PID>.sock, and the         *)
(* Notifier connects to the sockets it finds and writes one message to     *)
(* each, before the reset and after it.  start_monitoring spawns a         *)
(* detached thread; the n-th thread of a client is its generation n.       *)
(***************************************************************************)
EXTENDS Integers, Sequences, SequencesExt

CONSTANTS
  Client,      \* processes with a Monitor
  MaxStarts,   \* bound on the monitor threads a client spawns
  MaxResets,   \* bound on the resets announced
  Patient      \* TRUE: a client that stopped its monitor restarts it only
               \* after the old thread has ended
ASSUME CommunicationAssumption ==
  MaxStarts \in Nat \ {0} /\ MaxResets \in Nat /\ Patient \in BOOLEAN

Gen == 1 .. MaxStarts
Message == {"pre", "post"} \X (1 .. MaxResets)
NoMessage == <<"none", 0>>
Connection == [accepted : BOOLEAN, msg : Message \cup {NoMessage}]

VARIABLES
  keep,      \* keep_monitoring of each client
  io,        \* generation weak_io leads to, 0 for none
  stopped,   \* generations whose io_context was told to stop
  starts,    \* monitor threads spawned so far
  main,      \* where the thread that calls stop_monitoring is
  monitor,   \* where each monitor thread is
  accepting, \* generations with an accept under way
  path,      \* generation the socket file leads to, 0 for no file
  conns,     \* connections to each generation, oldest first
  heard,     \* messages the callbacks of each client's last monitor got
  resets,    \* number of the reset under way
  toVisit,   \* clients the notifier has yet to look at
  note       \* what the notifier does: "none", "pre" or "post"

monitorVars == <<keep, io, stopped, starts, main, monitor, accepting>>
noteVars == <<resets, toVisit, note>>
commVars == <<monitorVars, path, conns, heard, noteVars>>

Alive == {"spawned", "created", "unlinked", "bound", "listening", "running", "leaving"}
Listening == {"listening", "running", "leaving"}

CommTypeOK ==
  /\ keep \in [Client -> BOOLEAN] /\ io \in [Client -> 0 .. MaxStarts]
  /\ stopped \in [Client -> SUBSET Gen] /\ starts \in [Client -> 0 .. MaxStarts]
  /\ main \in [Client -> {"ready", "stopping"}]
  /\ monitor \in [Client -> [Gen -> Alive \cup {"none", "done"}]]
  /\ accepting \in [Client -> SUBSET Gen] /\ path \in [Client -> 0 .. MaxStarts]
  /\ conns \in [Client -> [Gen -> Seq(Connection)]] /\ heard \in [Client -> Seq(Message)]
  /\ resets \in 0 .. MaxResets /\ toVisit \in SUBSET Client
  /\ note \in {"none", "pre", "post"}

CommInit ==
  /\ keep = [c \in Client |-> FALSE] /\ io = [c \in Client |-> 0]
  /\ stopped = [c \in Client |-> {}] /\ starts = [c \in Client |-> 0]
  /\ main = [c \in Client |-> "ready"]
  /\ monitor = [c \in Client |-> [g \in Gen |-> "none"]]
  /\ accepting = [c \in Client |-> {}] /\ path = [c \in Client |-> 0]
  /\ conns = [c \in Client |-> [g \in Gen |-> <<>>]] /\ heard = [c \in Client |-> <<>>]
  /\ resets = 0 /\ toVisit = {} /\ note = "none"

Living(c) == {g \in Gen : monitor[c][g] \in Alive}
At(c, g, label) == monitor[c][g] = label
Goto(c, g, label) == monitor' = [monitor EXCEPT ![c][g] = label]

-----------------------------------------------------------------------------
(* start_monitoring and stop_monitoring, called by one thread of a client. *)

(* Mutant: a start while the monitor is running is not refused.            *)
StartMonitoringTwice(c) ==
  /\ main[c] = "ready" /\ starts[c] < MaxStarts
  /\ Patient => keep[c] \/ Living(c) = {}
  /\ keep' = [keep EXCEPT ![c] = TRUE]
  /\ starts' = [starts EXCEPT ![c] = @ + 1]
  /\ Goto(c, starts[c] + 1, "spawned")
  /\ heard' = [heard EXCEPT ![c] = <<>>]
  /\ UNCHANGED <<io, stopped, main, accepting, path, conns, noteVars>>

(* A start while the monitor is running returns FALSE and changes nothing. *)
StartMonitoring(c) ==
  /\ main[c] = "ready" /\ starts[c] < MaxStarts
  /\ ~keep[c]
  /\ Patient => Living(c) = {}
  /\ keep' = [keep EXCEPT ![c] = TRUE]
  /\ starts' = [starts EXCEPT ![c] = @ + 1]
  /\ Goto(c, starts[c] + 1, "spawned")
  /\ heard' = [heard EXCEPT ![c] = <<>>]
  /\ UNCHANGED <<io, stopped, main, accepting, path, conns, noteVars>>

StopMonitoring(c) ==
  /\ main[c] = "ready"
  /\ keep' = [keep EXCEPT ![c] = FALSE]
  /\ main' = [main EXCEPT ![c] = "stopping"]
  /\ UNCHANGED <<io, stopped, starts, monitor, accepting, path, conns, heard, noteVars>>

(* Mutant: the io_context is not told to stop.                             *)
StopIoNot(c) ==
  /\ main[c] = "stopping"
  /\ main' = [main EXCEPT ![c] = "ready"]
  /\ UNCHANGED <<keep, io, stopped, starts, monitor, accepting, path, conns, heard, noteVars>>

(* weak_io leads to an io_context only while its thread lives.             *)
StopIo(c) ==
  /\ main[c] = "stopping"
  /\ stopped' = [stopped EXCEPT ![c] = @ \cup ({io[c]} \cap Living(c))]
  /\ main' = [main EXCEPT ![c] = "ready"]
  /\ UNCHANGED <<keep, io, starts, monitor, accepting, path, conns, heard, noteVars>>

-----------------------------------------------------------------------------
(* The monitor thread.                                                     *)

PublishIo(c, g) ==
  /\ At(c, g, "spawned")
  /\ io' = [io EXCEPT ![c] = g]
  /\ Goto(c, g, "created")
  /\ UNCHANGED <<keep, stopped, starts, main, accepting, path, conns, heard, noteVars>>

UnlinkStale(c, g) ==
  /\ At(c, g, "created")
  /\ path' = [path EXCEPT ![c] = 0]
  /\ Goto(c, g, "unlinked")
  /\ UNCHANGED <<keep, io, stopped, starts, main, accepting, conns, heard, noteVars>>

Bind(c, g) ==
  /\ At(c, g, "unlinked")
  /\ path[c] = 0
  /\ path' = [path EXCEPT ![c] = g]
  /\ Goto(c, g, "bound")
  /\ UNCHANGED <<keep, io, stopped, starts, main, accepting, conns, heard, noteVars>>

(* open, bind (also when the name is taken) or listen fails: the thread    *)
(* ends, and leaves the socket file if it has one.                         *)
MonitorFails(c, g) ==
  /\ monitor[c][g] \in {"unlinked", "bound"}
  /\ keep' = [keep EXCEPT ![c] = FALSE]
  /\ Goto(c, g, "done")
  /\ UNCHANGED <<io, stopped, starts, main, accepting, path, conns, heard, noteVars>>

(* listen, and the first async_accept.                                     *)
Listen(c, g) ==
  /\ At(c, g, "bound")
  /\ accepting' = [accepting EXCEPT ![c] = @ \cup {g}]
  /\ Goto(c, g, "listening")
  /\ UNCHANGED <<keep, io, stopped, starts, main, path, conns, heard, noteVars>>

Run(c, g) ==
  /\ At(c, g, "listening")
  /\ Goto(c, g, IF keep[c] THEN "running" ELSE "leaving")
  /\ UNCHANGED <<keep, io, stopped, starts, main, accepting, path, conns, heard, noteVars>>

Working(c, g) == At(c, g, "running") /\ g \notin stopped[c]

(* The accept handler: start to read and accept again, or, once monitoring *)
(* has ended, drop the connection and accept no more.                      *)
Accept(c, g) ==
  LET i == SelectInSeq(conns[c][g], LAMBDA k : ~k.accepted)
  IN /\ Working(c, g) /\ g \in accepting[c]
     /\ i > 0
     /\ IF keep[c]
          THEN /\ conns' = [conns EXCEPT ![c][g][i].accepted = TRUE]
               /\ UNCHANGED accepting
          ELSE /\ conns' = [conns EXCEPT ![c][g] = RemoveAt(@, i)]
               /\ accepting' = [accepting EXCEPT ![c] = @ \ {g}]
     /\ UNCHANGED <<keep, io, stopped, starts, main, monitor, path, heard, noteVars>>

Readable(k) == k.accepted /\ k.msg # NoMessage

(* Mutant: the newest message is delivered first.                          *)
DeliverNewest(c, g) ==
  LET i == SelectLastInSeq(conns[c][g], Readable)
  IN /\ Working(c, g)
     /\ i > 0
     /\ heard' = [heard EXCEPT ![c] = Append(@, conns[c][g][i].msg)]
     /\ conns' = [conns EXCEPT ![c][g] = RemoveAt(@, i)]
     /\ UNCHANGED <<monitorVars, path, noteVars>>

(* The read handler and the callback it calls.  Handlers run on this one   *)
(* thread in the order in which their connections became readable.         *)
Deliver(c, g) ==
  LET i == SelectInSeq(conns[c][g], Readable)
  IN /\ Working(c, g)
     /\ i > 0
     /\ heard' = [heard EXCEPT ![c] = Append(@, conns[c][g][i].msg)]
     /\ conns' = [conns EXCEPT ![c][g] = RemoveAt(@, i)]
     /\ UNCHANGED <<monitorVars, path, noteVars>>

(* io.run returns when it was stopped or has nothing left to wait for.     *)
RunReturns(c, g) ==
  /\ At(c, g, "running")
  /\ \/ g \in stopped[c]
     \/ g \notin accepting[c] /\ \A i \in DOMAIN conns[c][g] : ~conns[c][g][i].accepted
  /\ Goto(c, g, "leaving")
  /\ UNCHANGED <<keep, io, stopped, starts, main, accepting, path, conns, heard, noteVars>>

(* The thread unlinks the name, whoever's socket it now is.                *)
Leave(c, g) ==
  /\ At(c, g, "leaving")
  /\ path' = [path EXCEPT ![c] = 0]
  /\ conns' = [conns EXCEPT ![c][g] = <<>>]
  /\ accepting' = [accepting EXCEPT ![c] = @ \ {g}]
  /\ Goto(c, g, "done")
  /\ UNCHANGED <<keep, io, stopped, starts, main, heard, noteVars>>

(* The client dies; a later process may have its PID and its socket name.  *)
ClientDies(c) ==
  /\ Living(c) # {}
  /\ keep' = [keep EXCEPT ![c] = FALSE]
  /\ io' = [io EXCEPT ![c] = 0]
  /\ main' = [main EXCEPT ![c] = "ready"]
  /\ monitor' = [monitor EXCEPT ![c] = [g \in Gen |-> IF g \in Living(c) THEN "done" ELSE @[g]]]
  /\ accepting' = [accepting EXCEPT ![c] = {}]
  /\ conns' = [conns EXCEPT ![c] = [g \in Gen |-> <<>>]]
  /\ heard' = [heard EXCEPT ![c] = <<>>]
  /\ UNCHANGED <<stopped, starts, path, noteVars>>

-----------------------------------------------------------------------------
(* Notifier::notify_all_listeners, called with "pre" and with "post".      *)

BeginNote(kind) ==
  /\ note = "none"
  /\ note' = kind
  /\ toVisit' = Client

(* get_connected_listeners: one entry of the listener directory.  A socket *)
(* nobody listens on refuses the connection.                               *)
Visit(c) ==
  LET g == path[c]
  IN /\ note # "none" /\ c \in toVisit
     /\ toVisit' = toVisit \ {c}
     /\ conns' = IF g # 0 /\ monitor[c][g] \in Listening
                   THEN [conns EXCEPT ![c][g] =
                           Append(@, [accepted |-> FALSE, msg |-> NoMessage])]
                   ELSE conns
     /\ UNCHANGED <<monitorVars, path, heard, resets, note>>

(* async_write on every connection made, and io.run.                       *)
SendAll ==
  LET Written(k) == IF k.msg = NoMessage THEN [k EXCEPT !.msg = <<note, resets>>] ELSE k
  IN /\ note # "none" /\ toVisit = {}
     /\ conns' = [c \in Client |-> [g \in Gen |->
                    [i \in DOMAIN conns[c][g] |-> Written(conns[c][g][i])]]]
     /\ note' = "none"
     /\ UNCHANGED <<monitorVars, path, heard, resets, toVisit>>

-----------------------------------------------------------------------------
MonitorThread(c, g) ==
  \/ PublishIo(c, g) \/ UnlinkStale(c, g) \/ Bind(c, g) \/ MonitorFails(c, g)
  \/ Listen(c, g) \/ Run(c, g) \/ Accept(c, g) \/ Deliver(c, g) \/ RunReturns(c, g)
  \/ Leave(c, g)

ClientNext(c) ==
  \/ StartMonitoring(c) \/ StopMonitoring(c) \/ StopIo(c) \/ ClientDies(c)
  \/ \E g \in Gen : MonitorThread(c, g)

NotifierNext == SendAll \/ \E c \in Client : Visit(c)

-----------------------------------------------------------------------------
(* start_monitoring: while the monitor a client has last started runs and  *)
(* was not told to stop, the client's socket file leads to it, so that a   *)
(* notifier finds it, whatever became of earlier monitor threads.          *)
Reachable ==
  \A c \in Client : keep[c] /\ starts[c] > 0 /\ Working(c, starts[c]) => path[c] = starts[c]

(* A monitor's callbacks get the notifications in the order of the resets, *)
(* pre-reset before post-reset, and none twice, although each comes over a *)
(* connection of its own.                                                  *)
NotificationOrder ==
  \A c \in Client : \A j \in DOMAIN heard[c] : \A i \in 1 .. j - 1 :
    \/ heard[c][i][2] < heard[c][j][2]
    \/ heard[c][i][2] = heard[c][j][2] /\ heard[c][i][1] = "pre" /\ heard[c][j][1] = "post"

(* stop_monitoring: whenever it is called, also before the thread has made *)
(* its io_context known, the monitor threads of the client end.            *)
StopsEventually ==
  \A c \in Client : main[c] = "ready" /\ ~keep[c] ~> keep[c] \/ Living(c) = {}

-----------------------------------------------------------------------------
(* Monitor and Notifier: a monitor that runs can be found by every         *)
(* notifier, and its callbacks get the notifications in the order of the   *)
(* resets, pre-reset first and none twice, although each comes over a      *)
(* connection of its own.                                                  *)
MonitorHearsInOrder ==
  /\ Reachable
  /\ NotificationOrder
=============================================================================
