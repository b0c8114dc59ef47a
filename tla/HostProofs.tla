------------------------------ MODULE HostProofs -----------------------------
(***************************************************************************)
(* Three results about any number of processes that use the chips of one   *)
(* machine: they never wait for each other's locks in a circle, a memory   *)
(* barrier returns only when the writes before it have landed, and the     *)
(* host memory, the windows and the lock a process took are all given back *)
(* when its objects are gone.                                              *)
(***************************************************************************)
EXTENDS MCHost, FiniteSetTheorems, WellFoundedInduction, TLAPS

(* The words a process posts, and the points of its calls.                   *)
Words == {"data", "SET", "RESET"}
Labels == {"none", "idle", "starting", "initialize", "flush", "clocks", "started", "faulted", "closing", "closed",
           "barrier", "poll", "flushed", "timeout"}

(* The Cluster of a process has the fields it is made with.                  *)
IsCluster(r) ==
  r = [pc |-> r.pc, todo |-> r.todo, then |-> r.then, desc |-> r.desc, via |-> r.via, eth |-> r.eth, cache |-> r.cache,
       ops |-> r.ops, skipped |-> r.skipped, groups |-> r.groups, value |-> r.value, synced |-> r.synced, asked |-> r.asked,
       hits |-> r.hits, out |-> r.out, fenced |-> r.fenced]

(* The fields the locks and the barriers are about.                          *)
ClusterFields(r) ==
  /\ r.pc \in Labels /\ r.todo \subseteq DOMAIN env.loc /\ r.ops \in 0 .. env.maxOps
  /\ r.groups \in Seq(SUBSET env.cores) /\ r.value \in {"SET", "RESET"}
  /\ r.synced \subseteq env.cores /\ r.fenced \subseteq env.cores

DevTypes ==
  /\ env \in Env
  /\ dev \in [DOMAIN env.loc -> [clock : {"min", "max"}, held : BOOLEAN]]
  /\ lock \in [env.local -> Procs \cup {None}]
  /\ barrier \in Procs \cup {None}
  /\ flag \in [env.cores -> {"SET", "RESET"}]
  /\ posted \in [Procs -> [env.cores -> Seq(Words)]]

ProcTypes ==
  /\ proc = [p \in Procs |-> proc[p]]
  /\ \A p \in Procs : IsCluster(proc[p]) /\ ClusterFields(proc[p])

(* Where a call of a process goes on, and the holder of MEM_BARRIER.         *)
ControlInv == \A p \in Procs :
  /\ proc[p].pc \in {"starting", "initialize"} => proc[p].todo \subseteq Chips(p)
  /\ proc[p].pc = "initialize" => proc[p].then = "starting"
  /\ proc[p].pc = "flush" => proc[p].then \in {"clocks", "started"}
  /\ proc[p].pc \in {"barrier", "poll", "flushed"} => proc[p].then \in {"idle", "started"}
  /\ proc[p].pc \in {"poll", "initialize"} => proc[p].groups # <<>>
  /\ proc[p].pc = "flushed" => proc[p].groups = <<>>
  /\ proc[p].pc = "poll" <=> barrier = p

(* A process with no chip started.                                           *)
Lockless(p) ==
  \/ proc[p].pc \in {"none", "idle", "closed"}
  \/ proc[p].pc \in {"barrier", "poll", "flushed"} /\ proc[p].then = "idle"

(* A process that starts its chips once more has all their locks already.    *)
Again(p) == proc[p].pc = "starting" /\ \A c \in Local(p) : lock[c] = p

(* A process holds CHIP_IN_USE of chips of its own, while it starts them of  *)
(* chips before the ones that are left, unless it has them all, while it     *)
(* closes them of ones that are left.                                        *)
LockInv == \A p \in Procs : \A c \in env.local : lock[c] = p =>
  /\ c \in Chips(p) /\ ~Lockless(p)
  /\ proc[p].pc \in {"starting", "initialize"} => Again(p) \/ \A d \in proc[p].todo : c < d
  /\ proc[p].pc = "closing" => c \in proc[p].todo

(* A started process holds the lock of each of its local chips.              *)
Has(p, S) == \A c \in Local(p) \ S : lock[c] = p
Holding(p) ==
  \/ proc[p].pc \in {"flush", "clocks", "started", "faulted"}
  \/ proc[p].pc \in {"barrier", "poll", "flushed"} /\ proc[p].then = "started"
HoldsInv == \A p \in Procs :
  /\ Holding(p) => Has(p, {})
  /\ proc[p].pc \in {"starting", "initialize"} => Has(p, proc[p].todo)

(* The words of a barrier: SET comes last in a queue, and only from the      *)
(* process that has MEM_BARRIER and waits for it; a word that is SET is one  *)
(* of the group the holder is at, and the holder's queue to it is empty.     *)
Posted(p, x, v) == \E i \in DOMAIN posted[p][x] : posted[p][x][i] = v
InGroup(p, x) == proc[p].pc = "poll" /\ x \in Head(proc[p].groups)
SetInv == \A p \in Procs : \A x \in env.cores :
  /\ Posted(p, x, "SET") => InGroup(p, x) /\ proc[p].value = "SET" /\ x \notin proc[p].synced
  /\ \A i \in DOMAIN posted[p][x] : posted[p][x][i] = "SET" => i = Len(posted[p][x])
WordInv == \A x \in env.cores : flag[x] = "SET" =>
  \E p \in Procs : InGroup(p, x) /\ (proc[p].value = "RESET" => x \notin proc[p].synced)
GroupInv == \A p \in Procs : \A x \in env.cores : InGroup(p, x) =>
  /\ proc[p].value = "SET" /\ (flag[x] = "SET" \/ x \in proc[p].synced) => posted[p][x] = <<>>
  /\ proc[p].value = "RESET" => posted[p][x] \in {<<>>, <<"RESET">>}
FencedInv == \A p \in Procs : proc[p].pc \in {"barrier", "poll", "flushed"} =>
  \A x \in proc[p].fenced : (\A i \in DOMAIN proc[p].groups : x \notin proc[p].groups[i]) => ~Posted(p, x, "data")
BarrierInv == SetInv /\ WordInv /\ GroupInv /\ FencedInv
FlushInv == ~env.exits /\ NoneTimedOut => BarrierInv

(* Nobody starts a chip or is killed, and no write is slow: then RESET comes from the holder only, *)
(* and a word it waits for is there or on the way.                           *)
Quiet == "start" \notin env.ops /\ ~env.exits /\ ~env.slowWrites
Settled == \A p \in Procs :
  /\ proc[p].pc \in {"none", "idle", "barrier", "poll", "flushed"}
  /\ proc[p].pc \in {"barrier", "poll", "flushed"} => proc[p].then = "idle"
  /\ \A x \in env.cores :
       /\ Posted(p, x, "RESET") => InGroup(p, x) /\ proc[p].value = "RESET" /\ x \notin proc[p].synced
       /\ InGroup(p, x) =>
            /\ x \in proc[p].synced => flag[x] = proc[p].value
            /\ x \notin proc[p].synced => flag[x] = proc[p].value \/ Posted(p, x, proc[p].value)
            /\ flag[x] = proc[p].value => posted[p][x] = <<>>
ConvergeInv == Quiet => Settled

LocksInv == DevTypes /\ ProcTypes /\ ControlInv /\ LockInv /\ HoldsInv
ClusterInv == LocksInv /\ FlushInv /\ ConvergeInv

------------------------------------------------------------------------------
(* What the machine guarantees.                                              *)
LEMMA EnvFacts ==
  ASSUME env \in Env
  PROVE  /\ DOMAIN env.loc \subseteq Nat /\ IsFiniteSet(DOMAIN env.loc) /\ env.local \subseteq DOMAIN env.loc
         /\ \A p \in Procs : Chips(p) \subseteq DOMAIN env.loc
         /\ env.maxOps \in Nat
         /\ None \notin Procs
  BY ClusterAssumption DEF Chips

(* A process moves on: its Cluster changes, the others do not.               *)
LEMMA SetEffect ==
  ASSUME ProcTypes, NEW p \in Procs, NEW s, IsCluster(s), ClusterFields(s), proc' = [proc EXCEPT ![p] = s], env' = env
  PROVE  ProcTypes' /\ proc'[p] = s /\ \A q \in Procs : q # p => proc'[q] = proc[q]
<1>1. proc' = [q \in Procs |-> proc'[q]] /\ proc'[p] = s /\ \A q \in Procs : q # p => proc'[q] = proc[q]
  BY DEF ProcTypes
<1>2. \A q \in Procs : IsCluster(proc[q]) /\ ClusterFields(proc[q])
  BY DEF ProcTypes
<1>3. \A q \in Procs : IsCluster(proc'[q]) /\ ClusterFields(proc'[q])
  BY <1>1, <1>2
<1>4. \A q \in Procs : (IsCluster(proc[q]) /\ ClusterFields(proc[q]))'
  BY <1>3 DEF IsCluster, ClusterFields
<1> QED
  BY <1>1, <1>4 DEF ProcTypes

(* A step that leaves the barriers alone, or goes on where none is.          *)
InBarrier == {"barrier", "poll", "flushed", "timeout"}
Aside(p) ==
  /\ env' = env /\ barrier' = barrier /\ flag' = flag /\ posted' = posted
  /\ \A q \in Procs : q # p => proc'[q] = proc[q]
  /\ proc[p].pc \notin InBarrier /\ proc'[p].pc \notin InBarrier
  /\ Quiet /\ proc[p].pc \in {"none", "idle"} => proc'[p].pc \in {"none", "idle"}

(* A process that has started nothing holds no lock.                         *)
LEMMA NoLock ==
  ASSUME LocksInv, NEW p \in Procs, Lockless(p)
  PROVE  \A c \in env.local : lock[c] # p
  BY DEF LocksInv, LockInv

(* Locks after a step of p: the others keep theirs.                          *)
LEMMA LocksKept ==
  ASSUME LocksInv, NEW p \in Procs, env' = env,
         \A q \in Procs : q # p => proc'[q] = proc[q],
         \A c \in env.local : lock'[c] = lock[c] \/ (lock[c] \in {p, None} /\ lock'[c] \in {p, None}),
         \A c \in env.local : lock'[c] = p =>
           /\ c \in Chips(p) /\ ~Lockless(p)'
           /\ proc'[p].pc \in {"starting", "initialize"} => Again(p)' \/ \A d \in proc'[p].todo : c < d
           /\ proc'[p].pc = "closing" => c \in proc'[p].todo,
         Holding(p)' => Has(p, {})',
         proc'[p].pc \in {"starting", "initialize"} => Has(p, proc[p].todo)'
  PROVE  LockInv' /\ HoldsInv'
<1>1. \A q \in Procs : Chips(q)' = Chips(q) /\ Local(q)' = Local(q) /\ Local(q) \subseteq env.local
  BY DEF Chips, Local
<1>2. \A q \in Procs : q # p => \A c \in env.local : lock'[c] = q <=> lock[c] = q
  BY EnvFacts DEF LocksInv, DevTypes
<1>3. \A q \in Procs : q # p =>
        (Lockless(q)' <=> Lockless(q)) /\ (Holding(q)' <=> Holding(q)) /\ (Again(q)' <=> Again(q))
  <2> SUFFICES ASSUME NEW q \in Procs, q # p
               PROVE  (Lockless(q)' <=> Lockless(q)) /\ (Holding(q)' <=> Holding(q)) /\ (Again(q)' <=> Again(q))
    OBVIOUS
  <2>1. proc'[q] = proc[q]
    OBVIOUS
  <2>2. (Lockless(q)' <=> Lockless(q)) /\ (Holding(q)' <=> Holding(q))
    BY <2>1 DEF Lockless, Holding
  <2>3. Again(q)' <=> Again(q)
    BY <1>1, <1>2, <2>1 DEF Again
  <2> QED
    BY <2>2, <2>3
<1>4. LockInv'
  <2> SUFFICES ASSUME NEW q \in Procs, NEW c \in env.local, lock'[c] = q
               PROVE  /\ c \in Chips(q)' /\ ~Lockless(q)'
                      /\ proc'[q].pc \in {"starting", "initialize"} => Again(q)' \/ \A d \in proc'[q].todo : c < d
                      /\ proc'[q].pc = "closing" => c \in proc'[q].todo
    BY DEF LockInv
  <2>1. CASE q = p
    BY <1>1, <2>1
  <2>2. CASE q # p
    <3>1. proc'[q] = proc[q] /\ lock[c] = q
      BY <1>2, <2>2
    <3> QED
      BY <1>1, <1>3, <2>2, <3>1 DEF LocksInv, LockInv
  <2> QED
    BY <2>1, <2>2
<1>5. HoldsInv'
  <2> SUFFICES ASSUME NEW q \in Procs
               PROVE  /\ Holding(q)' => Has(q, {})'
                      /\ proc'[q].pc \in {"starting", "initialize"} => Has(q, proc[q].todo)'
    BY DEF HoldsInv
  <2>1. CASE q = p
    BY <2>1
  <2>2. CASE q # p
    <3>1. proc'[q] = proc[q]
      BY <2>2
    <3>2. /\ Holding(q) => Has(q, {})
          /\ proc[q].pc \in {"starting", "initialize"} => Has(q, proc[q].todo)
      BY DEF LocksInv, HoldsInv
    <3>3. /\ Has(q, {}) => Has(q, {})'
          /\ Has(q, proc[q].todo) => Has(q, proc[q].todo)'
      BY <1>1, <1>2, <2>2, <3>1 DEF Has
    <3> QED
      BY <1>3, <2>2, <3>1, <3>2, <3>3
  <2> QED
    BY <2>1, <2>2
<1> QED
  BY <1>4, <1>5

(* Control after a step that leaves MEM_BARRIER alone.                       *)
LEMMA ControlKept ==
  ASSUME LocksInv, NEW p \in Procs, barrier' = barrier, env' = env,
         \A q \in Procs : q # p => proc'[q] = proc[q],
         proc'[p].pc = "poll" <=> proc[p].pc = "poll",
         proc'[p].pc \in {"starting", "initialize"} => proc'[p].todo \subseteq Chips(p),
         proc'[p].pc = "initialize" => proc'[p].then = "starting",
         proc'[p].pc = "flush" => proc'[p].then \in {"clocks", "started"},
         proc'[p].pc \in {"barrier", "poll", "flushed"} => proc'[p].then \in {"idle", "started"},
         proc'[p].pc \in {"poll", "initialize"} => proc'[p].groups # <<>>,
         proc'[p].pc = "flushed" => proc'[p].groups = <<>>
  PROVE  ControlInv'
<1> SUFFICES ASSUME NEW q \in Procs
             PROVE  /\ proc'[q].pc \in {"starting", "initialize"} => proc'[q].todo \subseteq Chips(q)
                    /\ proc'[q].pc = "initialize" => proc'[q].then = "starting"
                    /\ proc'[q].pc = "flush" => proc'[q].then \in {"clocks", "started"}
                    /\ proc'[q].pc \in {"barrier", "poll", "flushed"} => proc'[q].then \in {"idle", "started"}
                    /\ proc'[q].pc \in {"poll", "initialize"} => proc'[q].groups # <<>>
                    /\ proc'[q].pc = "flushed" => proc'[q].groups = <<>>
                    /\ proc'[q].pc = "poll" <=> barrier' = q
  BY DEF ControlInv, Chips
<1>1. CASE q = p
  BY <1>1 DEF LocksInv, ControlInv
<1>2. CASE q # p
  BY <1>2 DEF LocksInv, ControlInv
<1> QED
  BY <1>1, <1>2

------------------------------------------------------------------------------
(* The calls that leave the barriers alone. *)

(* A step of p that takes no lock.                                           *)
LEMMA ProcMove ==
  ASSUME LocksInv, NEW p \in Procs, NEW s, IsCluster(s), ClusterFields(s), proc' = [proc EXCEPT ![p] = s],
         env' = env, UNCHANGED cores, dev' \in [DOMAIN env.loc -> [clock : {"min", "max"}, held : BOOLEAN]],
         lock' \in [env.local -> Procs \cup {None}],
         \A c \in env.local : lock'[c] = lock[c] \/ (lock[c] = p /\ lock'[c] = None),
         proc[p].pc \notin InBarrier, s.pc \notin InBarrier,
         Quiet /\ proc[p].pc \in {"none", "idle"} => s.pc \in {"none", "idle"},
         s.pc \notin {"closing", "closed"} => lock' = lock,
         s.pc \in {"starting", "initialize"} =>
           \/ proc[p].pc \in {"none", "idle", "closed", "started", "faulted"} /\ s.pc = "starting" /\ s.todo = Chips(p)
           \/ /\ proc[p].pc \in {"starting", "initialize"} /\ s.todo \subseteq proc[p].todo
              /\ proc[p].todo \cap env.local \subseteq s.todo /\ (proc[p].pc = "starting" => s.pc = "starting"),
         s.pc \in {"flush", "clocks", "started", "faulted"} =>
           \/ proc[p].pc \in {"flush", "clocks", "started", "faulted"}
           \/ proc[p].pc = "starting" /\ proc[p].todo = {},
         \A c \in env.local : lock'[c] = p =>
           s.pc \notin {"none", "idle", "closed"} /\ (s.pc = "closing" => c \in s.todo),
         s.pc = "initialize" => s.then = "starting" /\ s.groups # <<>>,
         s.pc = "flush" => s.then \in {"clocks", "started"}
  PROVE  LocksInv' /\ Aside(p)
<1>1. ProcTypes' /\ proc'[p] = s /\ \A q \in Procs : q # p => proc'[q] = proc[q]
  BY SetEffect DEF LocksInv
<1>2. DevTypes'
  BY DEF DevTypes, LocksInv, cores
<1>3. ControlInv'
  <2>1. s.pc \in {"starting", "initialize"} => s.todo \subseteq Chips(p)
    BY DEF LocksInv, ControlInv
  <2> QED
    BY <1>1, <2>1, ControlKept DEF cores, InBarrier
<1>4. LockInv' /\ HoldsInv'
  <2>1. Chips(p)' = Chips(p) /\ Local(p)' = Local(p) /\ Local(p) \subseteq env.local /\ Local(p) \subseteq Chips(p)
    BY DEF Chips, Local
  <2>2. proc[p].pc \in {"flush", "clocks", "started", "faulted"} => \A c \in Local(p) : lock[c] = p
    BY DEF LocksInv, HoldsInv, Holding, Has
  <2>3. proc[p].pc \in {"starting", "initialize"} => \A c \in Local(p) \ proc[p].todo : lock[c] = p
    BY DEF LocksInv, HoldsInv, Has
  <2>4. ASSUME NEW c \in env.local, lock'[c] = p
        PROVE  /\ c \in Chips(p) /\ ~Lockless(p)'
               /\ proc'[p].pc \in {"starting", "initialize"} => Again(p)' \/ \A d \in proc'[p].todo : c < d
               /\ proc'[p].pc = "closing" => c \in proc'[p].todo
    <3>1. lock[c] = p
      BY <2>4, EnvFacts DEF LocksInv, DevTypes
    <3>2. /\ c \in Chips(p) /\ ~Lockless(p)
          /\ proc[p].pc \in {"starting", "initialize"} => Again(p) \/ \A d \in proc[p].todo : c < d
      BY <3>1 DEF LocksInv, LockInv
    <3>3. ~Lockless(p)'
      BY <1>1, <2>4 DEF Lockless, InBarrier
    <3>4. ASSUME s.pc \in {"starting", "initialize"}
          PROVE  Again(p)' \/ \A d \in s.todo : c < d
      <4>1. lock' = lock
        BY <3>4
      <4>2. CASE proc[p].pc \in {"starting", "initialize"}
        <5>1. s.todo \subseteq proc[p].todo /\ (proc[p].pc = "starting" => s.pc = "starting")
          BY <3>4, <4>2
        <5>2. CASE Again(p)
          BY <1>1, <2>1, <4>1, <5>1, <5>2 DEF Again
        <5>3. CASE \A d \in proc[p].todo : c < d
          BY <5>1, <5>3
        <5> QED
          BY <3>2, <4>2, <5>2, <5>3
      <4>3. CASE proc[p].pc \notin {"starting", "initialize"}
        <5>1. proc[p].pc \in {"started", "faulted"} /\ s.pc = "starting"
          BY <3>2, <3>4, <4>3 DEF Lockless
        <5> QED
          BY <1>1, <2>1, <2>2, <4>1, <5>1 DEF Again
      <4> QED
        BY <4>2, <4>3
    <3> QED
      BY <1>1, <2>4, <3>2, <3>3, <3>4
  <2>5. Holding(p)' => Has(p, {})'
    <3> SUFFICES ASSUME Holding(p)'
                 PROVE  Has(p, {})'
      OBVIOUS
    <3>1. s.pc \in {"flush", "clocks", "started", "faulted"}
      BY <1>1 DEF Holding, InBarrier
    <3>2. lock' = lock
      BY <3>1
    <3>3. \A c \in Local(p) : lock[c] = p
      BY <2>2, <2>3, <3>1
    <3> QED
      BY <2>1, <3>2, <3>3 DEF Has
  <2>6. proc'[p].pc \in {"starting", "initialize"} => Has(p, proc[p].todo)'
    <3> SUFFICES ASSUME s.pc \in {"starting", "initialize"}
                 PROVE  \A c \in Local(p) \ s.todo : lock'[c] = p
      BY <1>1, <2>1 DEF Has
    <3>1. lock' = lock
      OBVIOUS
    <3>2. \/ s.todo = Chips(p)
          \/ proc[p].pc \in {"starting", "initialize"} /\ proc[p].todo \cap env.local \subseteq s.todo
      OBVIOUS
    <3> QED
      BY <2>1, <2>3, <3>1, <3>2
  <2>7. \A c \in env.local : lock'[c] = lock[c] \/ (lock[c] \in {p, None} /\ lock'[c] \in {p, None})
    OBVIOUS
  <2> QED
    BY <1>1, <2>4, <2>5, <2>6, <2>7, LocksKept
<1>5. Aside(p)
  BY <1>1 DEF Aside, cores
<1> QED
  BY <1>1, <1>2, <1>3, <1>4, <1>5 DEF LocksInv

(* A step of p that leaves the locks alone.                                  *)
LEMMA ProcStep ==
  ASSUME LocksInv, NEW p \in Procs, NEW s, IsCluster(s), ClusterFields(s), proc' = [proc EXCEPT ![p] = s],
         env' = env, lock' = lock, UNCHANGED cores, dev' \in [DOMAIN env.loc -> [clock : {"min", "max"}, held : BOOLEAN]],
         proc[p].pc \notin InBarrier, s.pc \notin InBarrier,
         Quiet /\ proc[p].pc \in {"none", "idle"} => s.pc \in {"none", "idle"},
         s.pc \in {"none", "idle", "closed"} => proc[p].pc \in {"none", "idle", "closed"},
         s.pc \in {"starting", "initialize"} =>
           \/ proc[p].pc \in {"none", "idle", "closed", "started", "faulted"} /\ s.pc = "starting" /\ s.todo = Chips(p)
           \/ /\ proc[p].pc \in {"starting", "initialize"} /\ s.todo \subseteq proc[p].todo
              /\ proc[p].todo \cap env.local \subseteq s.todo /\ (proc[p].pc = "starting" => s.pc = "starting"),
         s.pc \in {"flush", "clocks", "started", "faulted"} =>
           \/ proc[p].pc \in {"flush", "clocks", "started", "faulted"}
           \/ proc[p].pc = "starting" /\ proc[p].todo = {},
         s.pc = "closing" => s.todo = Chips(p),
         s.pc = "initialize" => s.then = "starting" /\ s.groups # <<>>,
         s.pc = "flush" => s.then \in {"clocks", "started"}
  PROVE  LocksInv' /\ Aside(p)
<1>1. \A c \in env.local : lock'[c] = p => ~Lockless(p) /\ c \in Chips(p)
  BY DEF LocksInv, LockInv
<1>2. \A c \in env.local : lock'[c] = p =>
        s.pc \notin {"none", "idle", "closed"} /\ (s.pc = "closing" => c \in s.todo)
  BY <1>1 DEF Lockless
<1>3. lock' \in [env.local -> Procs \cup {None}] /\ \A c \in env.local : lock'[c] = lock[c]
  BY DEF LocksInv, DevTypes
<1> QED
  BY <1>2, <1>3, ProcMove

(* A call is counted.                                                        *)
LEMMA OpsFields ==
  ASSUME LocksInv, NEW p \in Procs, proc[p].ops < env.maxOps
  PROVE  /\ IsCluster(Ops(p)) /\ ClusterFields(Ops(p))
         /\ Ops(p).pc = proc[p].pc /\ Ops(p).todo = proc[p].todo /\ Ops(p).then = proc[p].then
         /\ Ops(p).groups = proc[p].groups /\ Ops(p).value = proc[p].value /\ Ops(p).synced = proc[p].synced
         /\ Ops(p).fenced = proc[p].fenced
<1>1. PICK n : n = proc[p].ops + 1
  OBVIOUS
<1>2. n \in 0 .. env.maxOps
  BY <1>1, EnvFacts DEF LocksInv, DevTypes, ProcTypes, ClusterFields
<1>3. Ops(p) = [proc[p] EXCEPT !.ops = n]
  BY <1>1, Zenon DEF Ops
<1>4. PICK r : r = proc[p]
  OBVIOUS
<1>5. IsCluster(r) /\ ClusterFields(r)
  BY <1>4 DEF LocksInv, ProcTypes
<1>6. PICK s : s = [r EXCEPT !.ops = n]
  OBVIOUS
<1>7. IsCluster(s) /\ s.pc = r.pc /\ s.todo = r.todo /\ s.then = r.then /\ s.groups = r.groups
      /\ s.value = r.value /\ s.synced = r.synced /\ s.fenced = r.fenced /\ s.ops = n
  BY <1>5, <1>6 DEF IsCluster
<1>8. ClusterFields(s)
  BY <1>2, <1>5, <1>7 DEF ClusterFields
<1>9. Ops(p) = s
  BY <1>3, <1>4, <1>6
<1> QED
  BY <1>4, <1>7, <1>8, <1>9

LEMMA ConstructStep ==
  ASSUME LocksInv, NEW p \in Procs, Construct(p)
  PROVE  LocksInv' /\ Aside(p)
<1>1. PICK b : b = Ops(p)
  OBVIOUS
<1>2. IsCluster(b) /\ ClusterFields(b)
  BY <1>1, OpsFields DEF Construct
<1>3. PICK s : /\ proc' = [proc EXCEPT ![p] = s]
               /\ \/ \E D, V, E : s = [b EXCEPT !.pc = "idle", !.desc = D, !.via = V, !.eth = E]
                  \/ s = [b EXCEPT !.pc = "none"]
  BY <1>1, ZenonT(60) DEF Construct, Set
<1>4. IsCluster(s) /\ s.pc \in {"none", "idle"} /\ s.ops = b.ops /\ s.todo = b.todo /\ s.groups = b.groups
      /\ s.value = b.value /\ s.synced = b.synced /\ s.fenced = b.fenced
  <2>1. CASE s = [b EXCEPT !.pc = "none"]
    BY <1>2, <2>1 DEF IsCluster
  <2>2. CASE \E D, V, E : s = [b EXCEPT !.pc = "idle", !.desc = D, !.via = V, !.eth = E]
    <3>1. PICK D, V, E : s = [b EXCEPT !.pc = "idle", !.desc = D, !.via = V, !.eth = E]
      BY <2>2
    <3> QED
      BY <1>2, <3>1 DEF IsCluster
  <2> QED
    BY <1>3, <2>1, <2>2
<1>5. ClusterFields(s)
  BY <1>2, <1>4 DEF ClusterFields, Labels
<1>6. proc[p].pc = "none" /\ UNCHANGED <<env, dev, lock, cores>>
  BY DEF Construct, device
<1>7. dev' \in [DOMAIN env.loc -> [clock : {"min", "max"}, held : BOOLEAN]]
  BY <1>6 DEF LocksInv, DevTypes
<1> QED
  BY <1>3, <1>4, <1>5, <1>6, <1>7, ProcStep DEF InBarrier

LEMMA RefreshStep ==
  ASSUME LocksInv, NEW p \in Procs, RefreshClusterDescription(p)
  PROVE  LocksInv' /\ Aside(p)
<1>1. PICK b : b = Ops(p)
  OBVIOUS
<1>2. IsCluster(b) /\ ClusterFields(b) /\ b.pc = proc[p].pc
  BY <1>1, OpsFields DEF RefreshClusterDescription, MayCall
<1>3. PICK s : /\ proc' = [proc EXCEPT ![p] = s]
               /\ \/ \E D, E : s = [b EXCEPT !.desc = D, !.cache = {}, !.out = {}, !.eth = E]
                  \/ s = b
  <2>1. CASE SameChips(p)
    <3>1. PICK r : r = proc[p]
      OBVIOUS
    <3>2. IsCluster(r)
      BY <3>1 DEF LocksInv, ProcTypes
    <3>3. PICK n : n = r.ops + 1
      OBVIOUS
    <3>4. PICK D, E : Refreshed(p) = [r EXCEPT !.desc = D, !.cache = {}, !.out = {}, !.eth = E]
      BY <3>1 DEF Refreshed
    <3>5. PICK t : t = [r EXCEPT !.desc = D, !.cache = {}, !.out = {}, !.eth = E]
      OBVIOUS
    <3>6. t.ops = r.ops
      BY <3>2, <3>5 DEF IsCluster
    <3>7. PICK s : s = [t EXCEPT !.ops = n]
      OBVIOUS
    <3>8. proc' = [proc EXCEPT ![p] = [Refreshed(p) EXCEPT !.ops = @ + 1]]
      BY <2>1 DEF RefreshClusterDescription, Set
    <3>9. Refreshed(p) = t
      BY <3>4, <3>5
    <3>10. [t EXCEPT !.ops = @ + 1] = s
      BY <3>3, <3>6, <3>7, Zenon
    <3>11. proc' = [proc EXCEPT ![p] = s]
      BY <3>8, <3>9, <3>10, Zenon
    <3>12. b = [r EXCEPT !.ops = n]
      BY <1>1, <3>1, <3>3, Zenon DEF Ops
    <3>13. s = [b EXCEPT !.desc = D, !.cache = {}, !.out = {}, !.eth = E]
      BY <3>2, <3>5, <3>7, <3>12 DEF IsCluster
    <3> QED
      BY <3>11, <3>13
  <2>2. CASE ~SameChips(p)
    BY <1>1, <2>2 DEF RefreshClusterDescription, Set
  <2> QED
    BY <2>1, <2>2
<1>4. IsCluster(s) /\ s.pc = b.pc /\ s.ops = b.ops /\ s.todo = b.todo /\ s.groups = b.groups
      /\ s.value = b.value /\ s.synced = b.synced /\ s.fenced = b.fenced
  <2>1. CASE s = b
    BY <1>2, <2>1
  <2>2. CASE \E D, E : s = [b EXCEPT !.desc = D, !.cache = {}, !.out = {}, !.eth = E]
    <3>1. PICK D, E : s = [b EXCEPT !.desc = D, !.cache = {}, !.out = {}, !.eth = E]
      BY <2>2
    <3> QED
      BY <1>2, <3>1 DEF IsCluster
  <2> QED
    BY <1>3, <2>1, <2>2
<1>5. ClusterFields(s)
  BY <1>2, <1>4 DEF ClusterFields
<1>6. proc[p].pc \in {"idle", "started", "closed"} /\ UNCHANGED <<env, dev, lock, cores>>
  BY DEF RefreshClusterDescription, MayCall, device
<1>7. dev' \in [DOMAIN env.loc -> [clock : {"min", "max"}, held : BOOLEAN]]
  BY <1>6 DEF LocksInv, DevTypes
<1> QED
  BY <1>2, <1>3, <1>4, <1>5, <1>6, <1>7, ProcStep DEF InBarrier

LEMMA StartDeviceStep ==
  ASSUME LocksInv, NEW p \in Procs, StartDevice(p)
  PROVE  LocksInv' /\ Aside(p)
<1>1. PICK b, C : b = Ops(p) /\ C = Chips(p)
  OBVIOUS
<1>2. IsCluster(b) /\ ClusterFields(b) /\ C \subseteq DOMAIN env.loc
  BY <1>1, OpsFields, EnvFacts DEF StartDevice, MayCall, LocksInv, DevTypes
<1>3. PICK s : /\ proc' = [proc EXCEPT ![p] = s]
               /\ s = [b EXCEPT !.pc = "starting", !.todo = C, !.skipped = {}, !.out = {}]
  BY <1>1 DEF StartDevice, Set
<1>4. IsCluster(s) /\ s.pc = "starting" /\ s.ops = b.ops /\ s.todo = C /\ s.groups = b.groups
      /\ s.value = b.value /\ s.synced = b.synced /\ s.fenced = b.fenced
  BY <1>2, <1>3 DEF IsCluster
<1>5. ClusterFields(s)
  BY <1>2, <1>4 DEF ClusterFields, Labels
<1>6. proc[p].pc \in {"idle", "started", "faulted", "closed"} /\ ~Quiet /\ UNCHANGED <<env, dev, lock, cores>>
  BY DEF StartDevice, MayCall, device, Quiet
<1>7. dev' \in [DOMAIN env.loc -> [clock : {"min", "max"}, held : BOOLEAN]]
  BY <1>6 DEF LocksInv, DevTypes
<1> QED
  BY <1>1, <1>2, <1>3, <1>4, <1>5, <1>6, <1>7, ProcStep DEF InBarrier

(* What a write does to the devices it reaches.                              *)
LEMMA HeldType ==
  ASSUME NEW d \in [clock : {"min", "max"}, held : BOOLEAN], NEW value
  PROVE  Held(value, d) \in [clock : {"min", "max"}, held : BOOLEAN]
<1>1. PICK h \in BOOLEAN : Held(value, d) = [d EXCEPT !.held = h]
  <2>1. CASE value = "data"
    BY <2>1 DEF Held
  <2>2. CASE value # "data"
    BY <2>2 DEF Held
  <2> QED
    BY <2>1, <2>2
<1> QED
  BY <1>1

LEMMA BroadcastStep ==
  ASSUME LocksInv, NEW p \in Procs, NEW value, NEW excluded, NEW next, IsCluster(next), ClusterFields(next),
         next.pc = "flush", next.then \in {"clocks", "started"},
         proc[p].pc = "started" \/ (proc[p].pc = "starting" /\ proc[p].todo = {}),
         BroadcastWriteToCluster(p, value, excluded, next)
  PROVE  LocksInv' /\ Aside(p)
<1>1. PICK H, K, A, s :
        /\ H = [c \in Chips(p) |-> IF ~UsesEthernetBroadcast(p) /\ c \in Local(p) \ excluded THEN 1 ELSE 0]
        /\ K = IF UsesEthernetBroadcast(p)
               THEN next.cache \cup {[excluded |-> excluded, headers |-> Headers(p, excluded)]} ELSE next.cache
        /\ A = Chips(p) \ excluded
        /\ s = [next EXCEPT !.hits = H, !.asked = A, !.cache = K]
  OBVIOUS
<1>2. proc' = [proc EXCEPT ![p] = s]
  BY <1>1, Zenon DEF BroadcastWriteToCluster, Set
<1>3. IsCluster(s) /\ s.pc = "flush" /\ s.then = next.then /\ s.ops = next.ops /\ s.todo = next.todo /\ s.groups = next.groups
      /\ s.value = next.value /\ s.synced = next.synced /\ s.fenced = next.fenced
  <2>1. s = [next EXCEPT !.hits = H, !.asked = A, !.cache = K]
    BY <1>1
  <2> QED
    BY ONLY <2>1, IsCluster(next), next.pc = "flush" DEF IsCluster
<1>4. ClusterFields(s)
  BY <1>3 DEF ClusterFields
<1>5. UNCHANGED <<env, lock, cores>>
  BY DEF BroadcastWriteToCluster
<1>6. dev' \in [DOMAIN env.loc -> [clock : {"min", "max"}, held : BOOLEAN]]
  <2>1. dev \in [DOMAIN env.loc -> [clock : {"min", "max"}, held : BOOLEAN]]
    BY DEF LocksInv, DevTypes
  <2>2. \A c \in DOMAIN env.loc : Held(value, dev[c]) \in [clock : {"min", "max"}, held : BOOLEAN]
    BY <2>1, HeldType
  <2> QED
    BY <2>1, <2>2 DEF BroadcastWriteToCluster, WriteLocals
<1> QED
  BY <1>2, <1>3, <1>4, <1>5, <1>6, ProcStep DEF InBarrier

LEMMA DeassertStep ==
  ASSUME LocksInv, NEW p \in Procs, DeassertResets(p)
  PROVE  LocksInv' /\ Aside(p)
<1>1. PICK r, next : r = proc[p] /\ next = [r EXCEPT !.pc = "flush", !.then = "clocks", !.out = {"hold"}]
  OBVIOUS
<1>2. IsCluster(r) /\ ClusterFields(r)
  BY <1>1 DEF LocksInv, ProcTypes
<1>3. IsCluster(next) /\ next.pc = "flush" /\ next.then = "clocks" /\ next.ops = r.ops /\ next.todo = r.todo
      /\ next.groups = r.groups /\ next.value = r.value /\ next.synced = r.synced /\ next.fenced = r.fenced
  BY <1>1, <1>2 DEF IsCluster
<1>4. ClusterFields(next)
  BY <1>2, <1>3 DEF ClusterFields, Labels
<1>5. BroadcastWriteToCluster(p, "hold", {}, next) /\ proc[p].pc = "starting" /\ proc[p].todo = {}
  BY <1>1, Zenon DEF DeassertResets, BroadcastReset
<1> QED
  BY <1>3, <1>4, <1>5, BroadcastStep

LEMMA BroadcastCallStep ==
  ASSUME LocksInv, NEW p \in Procs, AssertRiscReset(p) \/ UserBroadcast(p)
  PROVE  LocksInv' /\ Aside(p)
<1>1. PICK b : b = Ops(p)
  OBVIOUS
<1>2. IsCluster(b) /\ ClusterFields(b) /\ proc[p].pc = "started"
  BY <1>1, OpsFields DEF AssertRiscReset, UserBroadcast, MayCall
<1>3. PICK value, excluded, out :
        BroadcastWriteToCluster(p, value, excluded, [b EXCEPT !.pc = "flush", !.then = "started", !.out = out])
  BY <1>1, Zenon DEF AssertRiscReset, UserBroadcast
<1>4. PICK next : next = [b EXCEPT !.pc = "flush", !.then = "started", !.out = out]
  OBVIOUS
<1>5. IsCluster(next) /\ next.pc = "flush" /\ next.then = "started" /\ next.ops = b.ops /\ next.todo = b.todo
      /\ next.groups = b.groups /\ next.value = b.value /\ next.synced = b.synced /\ next.fenced = b.fenced
  BY <1>2, <1>4 DEF IsCluster
<1>6. ClusterFields(next)
  BY <1>2, <1>5 DEF ClusterFields, Labels
<1>7. BroadcastWriteToCluster(p, value, excluded, next)
  BY <1>3, <1>4, Zenon
<1> QED
  BY <1>2, <1>5, <1>6, <1>7, BroadcastStep

LEMMA FlushStep ==
  ASSUME LocksInv, NEW p \in Procs, Flush(p)
  PROVE  LocksInv' /\ Aside(p)
<1>1. PICK r, C, l : r = proc[p] /\ C = Chips(p) /\ l = r.then
  OBVIOUS
<1>2. IsCluster(r) /\ ClusterFields(r) /\ C \subseteq DOMAIN env.loc /\ l \in {"clocks", "started"} /\ r.pc = "flush"
  BY <1>1, EnvFacts DEF Flush, LocksInv, DevTypes, ProcTypes, ControlInv
<1>3. PICK s, O : /\ proc' = [proc EXCEPT ![p] = s]
                  /\ s = [r EXCEPT !.pc = l, !.todo = C, !.out = O]
  BY <1>1 DEF Flush, Set
<1>4. IsCluster(s) /\ s.pc = l /\ s.ops = r.ops /\ s.todo = C /\ s.groups = r.groups
      /\ s.value = r.value /\ s.synced = r.synced /\ s.fenced = r.fenced
  BY <1>2, <1>3 DEF IsCluster
<1>5. ClusterFields(s)
  BY <1>2, <1>4 DEF ClusterFields, Labels
<1>6. UNCHANGED <<env, dev, lock, cores>>
  BY DEF Flush, device
<1>7. dev' \in [DOMAIN env.loc -> [clock : {"min", "max"}, held : BOOLEAN]]
  BY <1>6 DEF LocksInv, DevTypes
<1> QED
  BY <1>1, <1>2, <1>3, <1>4, <1>5, <1>6, <1>7, ProcStep DEF InBarrier

LEMMA ClockStep ==
  ASSUME LocksInv, NEW p \in Procs, SetClockBusy(p)
  PROVE  LocksInv' /\ Aside(p)
<1>1. PICK r : r = proc[p]
  OBVIOUS
<1>2. IsCluster(r) /\ ClusterFields(r) /\ r.pc = "clocks" /\ UNCHANGED <<env, lock, cores>>
  BY <1>1 DEF SetClockBusy, LocksInv, ProcTypes
<1>3. dev \in [DOMAIN env.loc -> [clock : {"min", "max"}, held : BOOLEAN]]
  BY DEF LocksInv, DevTypes
<1>4. PICK s : /\ proc' = [proc EXCEPT ![p] = s]
               /\ \/ s = [r EXCEPT !.pc = "started"] /\ dev' = dev
                  \/ \E c \in r.todo : /\ s = [r EXCEPT !.todo = r.todo \ {c}]
                                       /\ dev' = [dev EXCEPT ![c].clock = IF env.slowClock THEN @ ELSE "max"]
                  \/ s = [r EXCEPT !.pc = "faulted"] /\ dev' = dev
  BY <1>1 DEF SetClockBusy, Set
<1>5. /\ IsCluster(s) /\ s.pc \in {"started", "clocks", "faulted"} /\ s.ops = r.ops /\ s.todo \subseteq r.todo
      /\ s.groups = r.groups /\ s.value = r.value /\ s.synced = r.synced /\ s.fenced = r.fenced
      /\ dev' \in [DOMAIN env.loc -> [clock : {"min", "max"}, held : BOOLEAN]]
  <2>1. CASE (s = [r EXCEPT !.pc = "started"] \/ s = [r EXCEPT !.pc = "faulted"]) /\ dev' = dev
    BY <1>2, <1>3, <2>1 DEF IsCluster
  <2>2. CASE \E c \in r.todo : /\ s = [r EXCEPT !.todo = r.todo \ {c}]
                               /\ dev' = [dev EXCEPT ![c].clock = IF env.slowClock THEN @ ELSE "max"]
    <3>1. PICK c \in r.todo : /\ s = [r EXCEPT !.todo = r.todo \ {c}]
                              /\ dev' = [dev EXCEPT ![c].clock = IF env.slowClock THEN @ ELSE "max"]
      BY <2>2
    <3>2. PICK T : T = r.todo \ {c}
      OBVIOUS
    <3>3. s = [r EXCEPT !.todo = T] /\ T \subseteq r.todo
      BY <3>1, <3>2
    <3>4. /\ IsCluster(s) /\ s.pc = r.pc /\ s.ops = r.ops /\ s.todo = T
          /\ s.groups = r.groups /\ s.value = r.value /\ s.synced = r.synced /\ s.fenced = r.fenced
      BY <1>2, <3>3 DEF IsCluster
    <3>5. c \in DOMAIN env.loc
      BY <1>2 DEF ClusterFields
    <3>6. dev' \in [DOMAIN env.loc -> [clock : {"min", "max"}, held : BOOLEAN]]
      BY <1>3, <3>1, <3>5
    <3> QED
      BY <1>2, <3>3, <3>4, <3>6
  <2> QED
    BY <1>4, <2>1, <2>2
<1>6. ClusterFields(s)
  BY <1>2, <1>5 DEF ClusterFields, Labels
<1> QED
  BY <1>1, <1>2, <1>4, <1>5, <1>6, ProcStep DEF InBarrier

LEMMA CloseDeviceStep ==
  ASSUME LocksInv, NEW p \in Procs, CloseDevice(p)
  PROVE  LocksInv' /\ Aside(p)
<1>1. PICK r, C : r = proc[p] /\ C = Chips(p)
  OBVIOUS
<1>2. IsCluster(r) /\ ClusterFields(r) /\ C \subseteq DOMAIN env.loc
  BY <1>1, EnvFacts DEF LocksInv, DevTypes, ProcTypes
<1>3. PICK s : proc' = [proc EXCEPT ![p] = s] /\ s = [r EXCEPT !.pc = "closing", !.todo = C, !.skipped = {}]
  BY <1>1 DEF CloseDevice, Set
<1>4. IsCluster(s) /\ s.pc = "closing" /\ s.ops = r.ops /\ s.todo = C /\ s.groups = r.groups
      /\ s.value = r.value /\ s.synced = r.synced /\ s.fenced = r.fenced
  BY <1>2, <1>3 DEF IsCluster
<1>5. ClusterFields(s)
  BY <1>2, <1>4 DEF ClusterFields, Labels
<1>6. proc[p].pc \in {"idle", "started", "faulted"} /\ ~Quiet /\ UNCHANGED <<env, dev, lock, cores>>
  BY DEF CloseDevice, device, Quiet
<1>7. dev' \in [DOMAIN env.loc -> [clock : {"min", "max"}, held : BOOLEAN]]
  BY <1>6 DEF LocksInv, DevTypes
<1> QED
  BY <1>1, <1>2, <1>3, <1>4, <1>5, <1>6, <1>7, ProcStep DEF InBarrier

(* A chip is closed: its clock falls, a local chip's lock is released.       *)
LEMMA CloseChipStep ==
  ASSUME LocksInv, NEW p \in Procs, CloseChip(p)
  PROVE  LocksInv' /\ Aside(p)
<1>1. PICK r : r = proc[p]
  OBVIOUS
<1>2. IsCluster(r) /\ ClusterFields(r) /\ r.pc = "closing" /\ UNCHANGED <<env, cores>>
  BY <1>1 DEF CloseChip, LocksInv, ProcTypes
<1>3. /\ dev \in [DOMAIN env.loc -> [clock : {"min", "max"}, held : BOOLEAN]]
      /\ lock \in [env.local -> Procs \cup {None}] /\ None \notin Procs
      /\ \A c \in env.local : lock[c] = p => c \in r.todo
  BY <1>1, <1>2, EnvFacts DEF LocksInv, DevTypes, LockInv
<1>4. CASE r.todo = {} /\ Set(p, [r EXCEPT !.pc = "closed"]) /\ UNCHANGED <<dev, lock, flight>>
  <2>1. PICK s : proc' = [proc EXCEPT ![p] = s] /\ s = [r EXCEPT !.pc = "closed"]
    BY <1>4 DEF Set
  <2>2. IsCluster(s) /\ s.pc = "closed" /\ s.ops = r.ops /\ s.todo = r.todo /\ s.groups = r.groups
        /\ s.value = r.value /\ s.synced = r.synced /\ s.fenced = r.fenced
    BY <1>2, <2>1 DEF IsCluster
  <2>3. ClusterFields(s)
    BY <1>2, <2>2 DEF ClusterFields, Labels
  <2> QED
    BY <1>1, <1>2, <1>3, <1>4, <2>1, <2>2, <2>3, ProcMove DEF InBarrier
<1>5. CASE \E c \in CloseOrder(p) : IF c \in env.local THEN CloseLocal(p, c) ELSE CloseRemote(p, c)
  <2>1. PICK c \in CloseOrder(p) : IF c \in env.local THEN CloseLocal(p, c) ELSE CloseRemote(p, c)
    BY <1>5
  <2>2. c \in r.todo /\ c \in DOMAIN env.loc
    BY <1>1, <1>2 DEF CloseOrder, First, ClusterFields
  <2>3. PICK T, K, s : T = r.todo \ {c} /\ proc' = [proc EXCEPT ![p] = s] /\ s = [r EXCEPT !.todo = T, !.skipped = K]
    <3>1. PICK T : T = r.todo \ {c}
      OBVIOUS
    <3>2. CASE CloseLocal(p, c)
      <4>1. PICK K : K = IF dev[c].clock = "min" THEN r.skipped \cup {c} ELSE r.skipped
        OBVIOUS
      <4>2. PICK s : s = [r EXCEPT !.todo = T, !.skipped = K]
        OBVIOUS
      <4>3. proc' = [proc EXCEPT ![p] = s]
        BY <1>1, <3>1, <3>2, <4>1, <4>2, Zenon DEF CloseLocal, Set
      <4> QED
        BY <3>1, <4>2, <4>3, Zenon
    <3>3. CASE CloseRemote(p, c)
      <4>1. PICK K : K = IF dev[proc[p].via[c]].clock = "min" \/ dev[c].clock = "min" THEN r.skipped \cup {c} ELSE r.skipped
        OBVIOUS
      <4>2. PICK s : s = [r EXCEPT !.todo = T, !.skipped = K]
        OBVIOUS
      <4>3. proc' = [proc EXCEPT ![p] = s]
        BY <1>1, <3>1, <3>3, <4>1, <4>2, Zenon DEF CloseRemote, Set
      <4> QED
        BY <3>1, <4>2, <4>3, Zenon
    <3> QED
      BY <2>1, <3>2, <3>3
  <2>4. IsCluster(s) /\ s.pc = r.pc /\ s.ops = r.ops /\ s.todo = T /\ s.groups = r.groups
        /\ s.value = r.value /\ s.synced = r.synced /\ s.fenced = r.fenced
    <3>1. s = [r EXCEPT !.todo = T, !.skipped = K]
      BY <2>3
    <3> QED
      BY ONLY <1>2, <3>1 DEF IsCluster
  <2>5. ClusterFields(s)
    BY <1>2, <2>3, <2>4 DEF ClusterFields, Labels
  <2>6. dev' \in [DOMAIN env.loc -> [clock : {"min", "max"}, held : BOOLEAN]]
    <3>1. CASE CloseLocal(p, c)
      <4>1. [clock |-> "min", held |-> TRUE] \in [clock : {"min", "max"}, held : BOOLEAN]
        OBVIOUS
      <4> QED
        BY <1>3, <2>2, <3>1, <4>1 DEF CloseLocal
    <3>2. CASE CloseRemote(p, c)
      BY <1>3, <2>2, <3>2 DEF CloseRemote, LongIdle
    <3> QED
      BY <2>1, <3>1, <3>2
  <2>7. /\ lock' \in [env.local -> Procs \cup {None}]
        /\ \A d \in env.local : lock'[d] = lock[d] \/ (lock[d] = p /\ lock'[d] = None)
        /\ \A d \in env.local : lock'[d] = p => d \in s.todo
    <3>1. CASE c \in env.local
      <4>1. lock' = [lock EXCEPT ![c] = IF lock[c] = p THEN None ELSE lock[c]]
        BY <2>1, <3>1 DEF CloseLocal
      <4> QED
        BY <1>3, <2>3, <2>4, <3>1, <4>1
    <3>2. CASE c \notin env.local
      <4>1. lock' = lock
        BY <2>1, <3>2 DEF CloseRemote
      <4> QED
        BY <1>3, <2>3, <2>4, <3>2, <4>1
    <3> QED
      BY <3>1, <3>2
  <2>8. /\ proc[p].pc \notin InBarrier /\ s.pc \notin InBarrier /\ proc[p].pc \notin {"none", "idle"} /\ s.pc = "closing"
        /\ env' = env /\ UNCHANGED cores /\ proc' = [proc EXCEPT ![p] = s]
    BY <1>1, <1>2, <2>3, <2>4 DEF InBarrier
  <2> QED
    BY ONLY LocksInv, p \in Procs, <2>4, <2>5, <2>6, <2>7, <2>8, ProcMove
<1> QED
  BY <1>1, <1>4, <1>5 DEF CloseChip

------------------------------------------------------------------------------
(* Writes to the cores, and the barriers.                                    *)

(* The groups of a start are sets of cores.                                  *)
LEMMA InitialFacts ==
  ASSUME NEW c
  PROVE  InitialGroups(c) \in Seq(SUBSET env.cores) /\ InitialGroups(c) # <<>>
<1>1. PICK D : D = SUBSET env.cores
  OBVIOUS
<1>2. PICK X, Y, Z \in D : /\ X = GroupCores("tensix", CoresOf(c)) /\ Y = GroupCores("eth", CoresOf(c))
                           /\ Z = GroupCores("dram", CoresOf(c))
  BY <1>1 DEF GroupCores, CoresOf
<1>3. InitialGroups(c) = <<X, Y, Z>>
  BY <1>2 DEF InitialGroups
<1>4. <<X, Y, Z>> \in Seq(D) /\ Len(<<X, Y, Z>>) = 3 /\ Len(<<>>) = 0
  OBVIOUS
<1> QED
  BY <1>1, <1>3, <1>4

(* A word more in the queues of p to the cores of S.                         *)
LEMMA PostEffect ==
  ASSUME DevTypes, NEW p \in Procs, NEW S, NEW w \in Words
  PROVE  /\ Post(p, S, w) \in [Procs -> [env.cores -> Seq(Words)]]
         /\ \A q \in Procs : \A x \in env.cores :
              Post(p, S, w)[q][x] = IF q = p /\ x \in S THEN Append(posted[q][x], w) ELSE posted[q][x]
<1>1. posted \in [Procs -> [env.cores -> Seq(Words)]]
  BY DEF DevTypes
<1>2. PICK f : f = [x \in env.cores |-> IF x \in S THEN Append(posted[p][x], w) ELSE posted[p][x]]
  OBVIOUS
<1>3. Post(p, S, w) = [posted EXCEPT ![p] = f]
  BY <1>1, <1>2 DEF Post
<1>4. f \in [env.cores -> Seq(Words)]
  <2>1. \A x \in env.cores : posted[p][x] \in Seq(Words)
    BY <1>1
  <2>2. \A x \in env.cores : Append(posted[p][x], w) \in Seq(Words)
    BY <2>1
  <2> QED
    BY <1>2, <2>1, <2>2
<1> QED
  BY <1>1, <1>2, <1>3, <1>4

(* A write is posted where the process is in no barrier.                     *)
Posts(p, S, w) ==
  /\ env' = env /\ barrier' = barrier /\ flag' = flag /\ posted' = Post(p, S, w)
  /\ \A q \in Procs : q # p => proc'[q] = proc[q]
  /\ proc[p].pc \notin InBarrier /\ proc'[p].pc \notin InBarrier
  /\ Quiet => proc[p].pc \in {"starting", "initialize"} \/ (w = "data" /\ proc'[p].pc = proc[p].pc)

LEMMA StartChipStep ==
  ASSUME LocksInv, NEW p \in Procs, StartChip(p)
  PROVE  LocksInv' /\ (Aside(p) \/ \E S : Posts(p, S, "RESET"))
<1>1. PICK r : r = proc[p]
  OBVIOUS
<1>2. IsCluster(r) /\ ClusterFields(r) /\ r.pc = "starting" /\ r.todo \subseteq Chips(p)
  BY <1>1 DEF StartChip, LocksInv, ProcTypes, ControlInv
<1>3. PICK c \in StartOrder(p) :
        IF c \in env.local
        THEN /\ lock[c] = None
             /\ lock' = [lock EXCEPT ![c] = p]
             /\ posted' = Post(p, Head(InitialGroups(c)), "RESET")
             /\ Set(p, [r EXCEPT !.pc = "initialize", !.todo = @ \ {c}, !.groups = InitialGroups(c),
                                 !.value = "RESET", !.synced = {}, !.then = "starting"])
        ELSE Set(p, [r EXCEPT !.todo = @ \ {c}]) /\ UNCHANGED <<lock, posted>>
  BY <1>1 DEF StartChip
<1>4. c \in r.todo /\ c \in Chips(p) /\ (\A d \in r.todo \ {c} : c < d)
  <2>1. c \in r.todo /\ \A d \in r.todo : c <= d
    BY <1>1 DEF StartOrder, First
  <2>2. r.todo \subseteq Nat
    BY <1>2, EnvFacts DEF ClusterFields, LocksInv, DevTypes
  <2>3. \A d \in r.todo \ {c} : c \in Nat /\ d \in Nat /\ c <= d /\ c # d
    BY <2>1, <2>2
  <2>4. \A d \in r.todo \ {c} : c < d
    BY ONLY <2>3
  <2> QED
    BY <1>2, <2>1, <2>4
<1>5. PICK T : T = r.todo \ {c}
  OBVIOUS
<1>6. UNCHANGED <<env, dev, barrier, flag>>
  BY DEF StartChip
<1>7. dev' \in [DOMAIN env.loc -> [clock : {"min", "max"}, held : BOOLEAN]]
  BY <1>6 DEF LocksInv, DevTypes
<1>8. CASE c \notin env.local
  <2>1. PICK s : s = [r EXCEPT !.todo = T]
    OBVIOUS
  <2>2. proc' = [proc EXCEPT ![p] = s]
    BY <1>3, <1>5, <1>8, <2>1, Zenon DEF Set
  <2>3. IsCluster(s) /\ s.pc = "starting" /\ s.ops = r.ops /\ s.todo = T /\ s.groups = r.groups
        /\ s.value = r.value /\ s.synced = r.synced /\ s.fenced = r.fenced
    BY <1>2, <2>1 DEF IsCluster
  <2>4. ClusterFields(s)
    BY <1>2, <1>5, <2>3 DEF ClusterFields
  <2>5. lock' = lock /\ UNCHANGED cores
    BY <1>3, <1>6, <1>8 DEF cores
  <2>6. /\ proc[p].pc \notin InBarrier /\ s.pc \notin InBarrier /\ proc[p].pc = "starting" /\ env' = env
        /\ s.todo \subseteq proc[p].todo /\ proc[p].todo \cap env.local \subseteq s.todo
    BY <1>1, <1>2, <1>5, <1>6, <1>8, <2>3 DEF InBarrier
  <2> QED
    BY ONLY LocksInv, p \in Procs, <1>7, <2>2, <2>3, <2>4, <2>5, <2>6, ProcStep
<1>9. CASE c \in env.local
  <2>1. PICK G, s : G = InitialGroups(c) /\ s = [r EXCEPT !.pc = "initialize", !.todo = T, !.groups = G,
                                                        !.value = "RESET", !.synced = {}, !.then = "starting"]
    OBVIOUS
  <2>2. proc' = [proc EXCEPT ![p] = s]
    BY <1>3, <1>5, <1>9, <2>1, Zenon DEF Set
  <2>3. IsCluster(s) /\ s.pc = "initialize" /\ s.then = "starting" /\ s.ops = r.ops /\ s.todo = T /\ s.groups = G
        /\ s.value = "RESET" /\ s.synced = {} /\ s.fenced = r.fenced
    <3>1. s = [r EXCEPT !.pc = "initialize", !.todo = T, !.groups = G,
                        !.value = "RESET", !.synced = {}, !.then = "starting"]
      BY <2>1
    <3> QED
      BY ONLY <1>2, <3>1 DEF IsCluster
  <2>4. G \in Seq(SUBSET env.cores) /\ G # <<>>
    BY <2>1, InitialFacts
  <2>5. ClusterFields(s)
    BY <1>2, <1>5, <2>3, <2>4 DEF ClusterFields, Labels
  <2>6. ProcTypes' /\ proc'[p] = s /\ \A q \in Procs : q # p => proc'[q] = proc[q]
    BY <1>6, <2>2, <2>3, <2>5, SetEffect DEF LocksInv
  <2>7. lock' = [lock EXCEPT ![c] = p] /\ posted' = Post(p, Head(G), "RESET") /\ lock[c] = None
    BY <1>3, <1>9, <2>1
  <2>8. DevTypes'
    <3>1. lock' \in [env.local -> Procs \cup {None}]
      BY <2>7 DEF LocksInv, DevTypes
    <3>2. posted' \in [Procs -> [env.cores -> Seq(Words)]]
      BY <2>7, PostEffect DEF LocksInv, Words
    <3> QED
      BY <1>6, <1>7, <3>1, <3>2 DEF LocksInv, DevTypes
  <2>9. ControlInv'
    BY <1>1, <1>2, <1>5, <1>6, <2>3, <2>4, <2>6, ControlKept
  <2>10. LockInv' /\ HoldsInv'
    <3>1. c \in Local(p) /\ Local(p)' = Local(p) /\ Local(p) \subseteq env.local
      BY <1>4, <1>6, <1>9 DEF Local, Chips
    <3>2. ~Again(p)
      BY <2>7, <3>1, EnvFacts DEF Again, LocksInv, DevTypes
    <3>3. \A d \in env.local : lock'[d] = p =>
            /\ d \in Chips(p) /\ ~Lockless(p)'
            /\ proc'[p].pc \in {"starting", "initialize"} => Again(p)' \/ \A e \in proc'[p].todo : d < e
            /\ proc'[p].pc = "closing" => d \in proc'[p].todo
      <4> TAKE d \in env.local
      <4> HAVE lock'[d] = p
      <4>1. ~Lockless(p)'
        BY <2>3, <2>6 DEF Lockless
      <4>2. CASE d = c
        BY <1>4, <1>5, <2>3, <2>6, <4>1, <4>2
      <4>3. CASE d # c
        <5>1. lock[d] = p
          BY <2>7, <4>3 DEF LocksInv, DevTypes
        <5>2. d \in Chips(p) /\ \A e \in r.todo : d < e
          BY <1>1, <1>2, <3>2, <5>1 DEF LocksInv, LockInv
        <5> QED
          BY <1>5, <2>3, <2>6, <4>1, <5>2
      <4> QED
        BY <4>2, <4>3
    <3>4. \A d \in env.local : lock'[d] = lock[d] \/ (lock[d] \in {p, None} /\ lock'[d] \in {p, None})
      BY <2>7 DEF LocksInv, DevTypes
    <3>5. ~Holding(p)'
      BY <2>3, <2>6 DEF Holding
    <3>6. Has(p, proc[p].todo)'
      <4>1. \A d \in Local(p) \ r.todo : lock[d] = p
        BY <1>1, <1>2 DEF LocksInv, HoldsInv, Has
      <4>2. \A d \in Local(p) \ T : lock'[d] = p
        BY <1>5, <2>7, <3>1, <4>1 DEF LocksInv, DevTypes
      <4> QED
        BY <2>3, <2>6, <3>1, <4>2 DEF Has
    <3> QED
      BY <1>6, <2>6, <3>3, <3>4, <3>5, <3>6, LocksKept
  <2>11. Posts(p, Head(G), "RESET")
    BY <1>1, <1>2, <1>6, <2>3, <2>6, <2>7 DEF Posts, InBarrier
  <2> QED
    BY <2>6, <2>8, <2>9, <2>10, <2>11 DEF LocksInv
<1> QED
  BY <1>8, <1>9

LEMMA WriteStep ==
  ASSUME LocksInv, NEW p \in Procs, WriteToDevice(p)
  PROVE  LocksInv' /\ \E S : Posts(p, S, "data")
<1>1. PICK b : b = Ops(p)
  OBVIOUS
<1>2. IsCluster(b) /\ ClusterFields(b) /\ b.pc = proc[p].pc /\ b.todo = proc[p].todo /\ b.then = proc[p].then
      /\ proc[p].pc \in {"idle", "started"}
  BY <1>1, OpsFields DEF WriteToDevice, MayCall
<1>3. PICK x \in env.cores : posted' = Post(p, {x}, "data")
  BY DEF WriteToDevice
<1>4. proc' = [proc EXCEPT ![p] = b] /\ UNCHANGED <<env, dev, lock, barrier, flag>>
  BY <1>1 DEF WriteToDevice, Set, device
<1>5. ProcTypes' /\ proc'[p] = b /\ \A q \in Procs : q # p => proc'[q] = proc[q]
  BY <1>2, <1>4, SetEffect DEF LocksInv
<1>6. DevTypes'
  <2>1. posted' \in [Procs -> [env.cores -> Seq(Words)]]
    BY <1>3, PostEffect DEF LocksInv, Words
  <2> QED
    BY <1>4, <2>1 DEF LocksInv, DevTypes
<1>7. ControlInv'
  BY <1>2, <1>4, <1>5, ControlKept
<1>8. LockInv' /\ HoldsInv'
  <2>1. (Lockless(p)' <=> Lockless(p)) /\ (Holding(p)' <=> Holding(p)) /\ (Has(p, {})' <=> Has(p, {}))
    BY <1>2, <1>4, <1>5 DEF Lockless, Holding, Has, Local, Chips
  <2>2. (\A c \in env.local : lock[c] = p => c \in Chips(p) /\ ~Lockless(p)) /\ (Holding(p) => Has(p, {}))
    BY DEF LocksInv, LockInv, HoldsInv
  <2> QED
    BY <1>2, <1>4, <1>5, <2>1, <2>2, LocksKept
<1>9. Posts(p, {x}, "data")
  BY <1>2, <1>3, <1>4, <1>5 DEF Posts, InBarrier
<1> QED
  BY <1>5, <1>6, <1>7, <1>8, <1>9 DEF LocksInv

LEMMA ExitStep ==
  ASSUME LocksInv, NEW p \in Procs, Exit(p)
  PROVE  LocksInv' /\ env' = env /\ env.exits
<1>1. PICK m, s : m = env.maxOps /\ s = [Fresh EXCEPT !.ops = m]
  OBVIOUS
<1>2. proc' = [proc EXCEPT ![p] = s] /\ UNCHANGED <<env, dev, flag, posted>> /\ env.exits
  BY <1>1 DEF Exit, Set
<1>3. IsCluster(s) /\ s.pc = "none" /\ s.todo = {} /\ s.ops = m /\ s.groups = <<>> /\ s.value = "RESET" /\ s.synced = {}
      /\ s.fenced = {}
  BY <1>1 DEF IsCluster, Fresh
<1>4. s.groups \in Seq(SUBSET env.cores)
  BY <1>3
<1>5. ClusterFields(s)
  BY <1>1, <1>3, <1>4, EnvFacts DEF ClusterFields, Labels, LocksInv, DevTypes
<1>6. ProcTypes' /\ proc'[p] = s /\ \A q \in Procs : q # p => proc'[q] = proc[q]
  BY <1>2, <1>3, <1>5, SetEffect DEF LocksInv
<1>7. /\ lock' \in [env.local -> Procs \cup {None}]
      /\ \A c \in env.local : lock'[c] \in {lock[c], None} /\ lock'[c] # p
  BY EnvFacts DEF Exit, LocksInv, DevTypes
<1>8. /\ barrier' \in Procs \cup {None} /\ barrier' # p
      /\ \A q \in Procs : q # p => (barrier' = q <=> barrier = q)
  BY EnvFacts DEF Exit, LocksInv, DevTypes
<1>9. DevTypes'
  BY <1>2, <1>7, <1>8 DEF LocksInv, DevTypes
<1>10. ControlInv'
  <2> SUFFICES ASSUME NEW q \in Procs
               PROVE  /\ proc'[q].pc \in {"starting", "initialize"} => proc'[q].todo \subseteq Chips(q)
                      /\ proc'[q].pc = "initialize" => proc'[q].then = "starting"
                      /\ proc'[q].pc = "flush" => proc'[q].then \in {"clocks", "started"}
                      /\ proc'[q].pc \in {"barrier", "poll", "flushed"} => proc'[q].then \in {"idle", "started"}
                      /\ proc'[q].pc \in {"poll", "initialize"} => proc'[q].groups # <<>>
                      /\ proc'[q].pc = "flushed" => proc'[q].groups = <<>>
                      /\ proc'[q].pc = "poll" <=> barrier' = q
    BY <1>2 DEF ControlInv, Chips
  <2>1. CASE q = p
    BY <1>3, <1>6, <1>8, <2>1
  <2>2. CASE q # p
    BY <1>6, <1>8, <2>2 DEF LocksInv, ControlInv
  <2> QED
    BY <2>1, <2>2
<1>11. LockInv' /\ HoldsInv'
  <2>1. ~Holding(p)'
    BY <1>3, <1>6 DEF Holding
  <2>2. \A c \in env.local : lock'[c] = lock[c] \/ (lock[c] \in {p, None} /\ lock'[c] \in {p, None})
    BY DEF Exit, LocksInv, DevTypes
  <2> QED
    BY <1>2, <1>3, <1>6, <1>7, <2>1, <2>2, LocksKept
<1> QED
  BY <1>2, <1>6, <1>9, <1>10, <1>11 DEF LocksInv

(* A step in which no process goes on.                                       *)
Aloof ==
  /\ env' = env /\ barrier' = barrier /\ flag' = flag /\ posted' = posted
  /\ \A q \in Procs : /\ proc'[q].pc = proc[q].pc /\ proc'[q].then = proc[q].then /\ proc'[q].todo = proc[q].todo
                      /\ proc'[q].groups = proc[q].groups /\ proc'[q].value = proc[q].value
                      /\ proc'[q].synced = proc[q].synced /\ proc'[q].fenced = proc[q].fenced

LEMMA AloofLocks ==
  ASSUME LocksInv, Aloof, lock' = lock, ProcTypes', dev' \in [DOMAIN env.loc -> [clock : {"min", "max"}, held : BOOLEAN]]
  PROVE  LocksInv'
<1>1. DevTypes'
  BY DEF LocksInv, DevTypes, Aloof
<1>2. ControlInv'
  BY DEF LocksInv, ControlInv, Aloof, Chips
<1>3. LockInv' /\ HoldsInv'
  <2>1. \A q \in Procs : (Lockless(q)' <=> Lockless(q)) /\ (Holding(q)' <=> Holding(q)) /\ (Again(q)' <=> Again(q))
    BY DEF Aloof, Lockless, Holding, Again, Local, Chips
  <2>2. \A q \in Procs : (Has(q, {})' <=> Has(q, {})) /\ (Has(q, proc[q].todo)' <=> Has(q, proc[q].todo))
    BY DEF Aloof, Has, Local, Chips
  <2>3. LockInv'
    BY <2>1 DEF LocksInv, LockInv, Aloof, Chips
  <2>4. HoldsInv'
    BY <2>1, <2>2 DEF LocksInv, HoldsInv, Aloof
  <2> QED
    BY <2>3, <2>4
<1> QED
  BY <1>1, <1>2, <1>3 DEF LocksInv

LEMMA DeliverStep ==
  ASSUME LocksInv, NEW w, Deliver(w)
  PROVE  LocksInv' /\ Aloof
<1>1. UNCHANGED <<env, lock, cores>>
  BY DEF Deliver
<1>2. dev' \in [DOMAIN env.loc -> [clock : {"min", "max"}, held : BOOLEAN]]
  <2>1. dev \in [DOMAIN env.loc -> [clock : {"min", "max"}, held : BOOLEAN]]
    BY DEF LocksInv, DevTypes
  <2>2. \A c \in DOMAIN env.loc : Held(w.value, dev[c]) \in [clock : {"min", "max"}, held : BOOLEAN]
    BY <2>1, HeldType
  <2> QED
    BY <2>1, <2>2 DEF Deliver
<1>3. CASE w.p \notin Procs
  <2>1. proc' = proc
    BY <1>3 DEF Deliver, LocksInv, ProcTypes
  <2>2. Aloof
    BY <1>1, <2>1 DEF Aloof, cores
  <2>3. ProcTypes'
    BY <1>1, <2>1 DEF LocksInv, ProcTypes, IsCluster, ClusterFields
  <2> QED
    BY <1>1, <1>2, <2>2, <2>3, AloofLocks
<1>4. CASE w.p \in Procs
  <2>1. PICK p \in Procs : p = w.p
    BY <1>4
  <2>2. PICK r, h : r = proc[p] /\ h = proc[p].hits
    OBVIOUS
  <2>3. PICK H : H = IF h = None \/ w.value # "data" THEN h
                     ELSE [c \in DOMAIN h |-> IF c \in Targets(w) THEN h[c] + 1 ELSE h[c]]
    OBVIOUS
  <2>4. PICK s : s = [r EXCEPT !.hits = H]
    OBVIOUS
  <2>5. proc' = [proc EXCEPT ![p].hits = H]
    BY <2>1, <2>2, <2>3, Zenon DEF Deliver
  <2>6. proc' = [proc EXCEPT ![p] = s]
    BY <2>2, <2>4, <2>5, Zenon
  <2>7. IsCluster(r) /\ ClusterFields(r)
    BY <2>2 DEF LocksInv, ProcTypes
  <2>8. IsCluster(s) /\ s.pc = r.pc /\ s.then = r.then /\ s.ops = r.ops /\ s.todo = r.todo /\ s.groups = r.groups
        /\ s.value = r.value /\ s.synced = r.synced /\ s.fenced = r.fenced
    BY ONLY <2>4, <2>7 DEF IsCluster
  <2>9. ClusterFields(s)
    BY <2>7, <2>8 DEF ClusterFields
  <2>10. ProcTypes' /\ proc'[p] = s /\ \A q \in Procs : q # p => proc'[q] = proc[q]
    BY <1>1, <2>6, <2>8, <2>9, SetEffect DEF LocksInv
  <2>11. Aloof
    BY <1>1, <2>2, <2>8, <2>10 DEF Aloof, cores
  <2> QED
    BY <1>1, <1>2, <2>10, <2>11, AloofLocks
<1> QED
  BY <1>3, <1>4

LEMMA WorldStep ==
  ASSUME LocksInv, ToolReset \/ Relocate
  PROVE  LocksInv' /\ Aloof
<1>1. UNCHANGED <<env, lock, cores, proc>>
  BY DEF ToolReset, Relocate
<1>2. dev' \in [DOMAIN env.loc -> [clock : {"min", "max"}, held : BOOLEAN]]
  <2>1. dev \in [DOMAIN env.loc -> [clock : {"min", "max"}, held : BOOLEAN]]
    BY DEF LocksInv, DevTypes
  <2>2. [clock |-> "min", held |-> TRUE] \in [clock : {"min", "max"}, held : BOOLEAN]
    OBVIOUS
  <2> QED
    BY <2>1, <2>2 DEF ToolReset, Relocate
<1>3. Aloof
  BY <1>1 DEF Aloof, cores
<1>4. ProcTypes'
  BY <1>1 DEF LocksInv, ProcTypes, IsCluster, ClusterFields
<1> QED
  BY <1>1, <1>2, <1>3, <1>4, AloofLocks

(* A step of p in a barrier.                                                 *)
LEMMA BarrierMove ==
  ASSUME LocksInv, NEW p \in Procs, NEW s, IsCluster(s), ClusterFields(s), proc' = [proc EXCEPT ![p] = s],
         UNCHANGED device, flag' = flag, posted' \in [Procs -> [env.cores -> Seq(Words)]],
         s.pc \in InBarrier \cup {"idle", "started"},
         s.pc = "idle" \/ (s.pc \in {"barrier", "poll", "flushed"} /\ s.then = "idle") => Lockless(p),
         s.pc \in {"barrier", "poll", "flushed"} => s.then \in {"idle", "started"},
         s.pc = "poll" => s.groups # <<>>,
         s.pc = "flushed" => s.groups = <<>>,
         s.pc = "started" \/ (s.pc \in {"barrier", "poll", "flushed"} /\ s.then = "started") => Holding(p),
         barrier' \in {barrier, p, None}, barrier' = p <=> s.pc = "poll",
         barrier' # barrier => barrier \in {p, None}
  PROVE  LocksInv' /\ proc'[p] = s /\ env' = env /\ \A q \in Procs : q # p => proc'[q] = proc[q]
<1> USE DEF InBarrier
<1>1. env' = env /\ dev' = dev /\ lock' = lock
  BY DEF device
<1>2. ProcTypes' /\ proc'[p] = s /\ \A q \in Procs : q # p => proc'[q] = proc[q]
  BY <1>1, SetEffect DEF LocksInv
<1>3. DevTypes'
  BY <1>1 DEF LocksInv, DevTypes
<1>4. ControlInv'
  <2> SUFFICES ASSUME NEW q \in Procs
               PROVE  /\ proc'[q].pc \in {"starting", "initialize"} => proc'[q].todo \subseteq Chips(q)
                      /\ proc'[q].pc = "initialize" => proc'[q].then = "starting"
                      /\ proc'[q].pc = "flush" => proc'[q].then \in {"clocks", "started"}
                      /\ proc'[q].pc \in {"barrier", "poll", "flushed"} => proc'[q].then \in {"idle", "started"}
                      /\ proc'[q].pc \in {"poll", "initialize"} => proc'[q].groups # <<>>
                      /\ proc'[q].pc = "flushed" => proc'[q].groups = <<>>
                      /\ proc'[q].pc = "poll" <=> barrier' = q
    BY <1>1 DEF ControlInv, Chips
  <2>1. CASE q = p
    BY <1>2, <2>1
  <2>2. CASE q # p
    <3>1. barrier' = q <=> barrier = q
      BY <2>2, EnvFacts DEF LocksInv, DevTypes
    <3> QED
      BY <1>2, <2>2, <3>1 DEF LocksInv, ControlInv
  <2> QED
    BY <2>1, <2>2
<1>5. LockInv' /\ HoldsInv'
  <2>1. \A c \in env.local : lock[c] = p => c \in Chips(p) /\ ~Lockless(p)
    BY DEF LocksInv, LockInv
  <2>2. (Lockless(p)' => Lockless(p)) /\ (Holding(p)' => Holding(p))
    BY <1>2 DEF Lockless, Holding
  <2>3. (Holding(p) => Has(p, {})) /\ (Has(p, {}) => Has(p, {})')
    BY <1>1 DEF LocksInv, HoldsInv, Has, Local, Chips
  <2> QED
    BY <1>1, <1>2, <2>1, <2>2, <2>3, LocksKept
<1> QED
  BY <1>1, <1>2, <1>3, <1>4, <1>5 DEF LocksInv

(* The groups of a barrier are sets of cores.                                *)
LEMMA MembarFacts ==
  ASSUME NEW S \in SUBSET env.cores
  PROVE  /\ MembarGroups(S) \in Seq(SUBSET env.cores)
         /\ UNION Range(MembarGroups(S)) \subseteq env.cores
         /\ \A x \in UNION Range(MembarGroups(S)) : \E i \in DOMAIN MembarGroups(S) : x \in MembarGroups(S)[i]
<1>1. PICK D : D = SUBSET env.cores
  OBVIOUS
<1>2. PICK asked : asked = IF S = {} THEN env.cores ELSE S
  OBVIOUS
<1>3. PICK A, B, C \in D : A = GroupCores("tensix", asked) /\ B = GroupCores("eth", asked) /\ C = GroupCores("dram", asked)
  BY <1>1, <1>2 DEF GroupCores
<1>4. MembarGroups(S) = <<A, B>> \o (IF env.arch = "BLACKHOLE" THEN <<C>> ELSE <<>>)
  BY <1>2, <1>3, Zenon DEF MembarGroups
<1>5. <<A, B>> \in Seq(D) /\ <<C>> \in Seq(D) /\ <<>> \in Seq(D)
  OBVIOUS
<1>6. MembarGroups(S) \in Seq(D)
  <2>1. CASE env.arch = "BLACKHOLE"
    <3>1. MembarGroups(S) = <<A, B>> \o <<C>>
      BY <1>4, <2>1
    <3>2. <<A, B>> \o <<C>> \in Seq(D)
      BY ONLY <1>5
    <3> QED
      BY <3>1, <3>2
  <2>2. CASE env.arch # "BLACKHOLE"
    <3>1. MembarGroups(S) = <<A, B>> \o <<>>
      BY <1>4, <2>2
    <3>2. <<A, B>> \o <<>> \in Seq(D)
      BY ONLY <1>5
    <3> QED
      BY <3>1, <3>2
  <2> QED
    BY <2>1, <2>2
<1>7. PICK G : G = MembarGroups(S)
  OBVIOUS
<1>8. \A i \in DOMAIN G : G[i] \in D
  BY <1>6, <1>7
<1>9. /\ UNION Range(G) \subseteq env.cores
      /\ \A x \in UNION Range(G) : \E i \in DOMAIN G : x \in G[i]
  BY <1>1, <1>8 DEF Range
<1> QED
  BY <1>1, <1>6, <1>7, <1>9

LEMMA L1MembarStep ==
  ASSUME LocksInv, NEW p \in Procs, L1Membar(p)
  PROVE  /\ LocksInv' /\ env' = env /\ UNCHANGED cores
         /\ \A q \in Procs : q # p => proc'[q] = proc[q]
         /\ proc[p].pc \in {"idle", "started"} /\ proc'[p].pc = "barrier" /\ proc'[p].then = proc[p].pc
         /\ \A x \in proc'[p].fenced : \E i \in DOMAIN proc'[p].groups : x \in proc'[p].groups[i]
<1>1. PICK b, l : b = Ops(p) /\ l = proc[p].pc
  OBVIOUS
<1>2. IsCluster(b) /\ ClusterFields(b) /\ l \in {"idle", "started"}
  BY <1>1, OpsFields DEF L1Membar, MayCall
<1>3. PICK S \in SUBSET env.cores :
        Set(p, [b EXCEPT !.then = l, !.pc = "barrier", !.groups = MembarGroups(S), !.fenced = UNION Range(MembarGroups(S))])
  BY <1>1 DEF L1Membar
<1>4. PICK G, F, s : G = MembarGroups(S) /\ F = UNION Range(G)
                     /\ s = [b EXCEPT !.then = l, !.pc = "barrier", !.groups = G, !.fenced = F]
  OBVIOUS
<1>5. proc' = [proc EXCEPT ![p] = s]
  BY <1>3, <1>4, Zenon DEF Set
<1>6. IsCluster(s) /\ s.pc = "barrier" /\ s.then = l /\ s.ops = b.ops /\ s.todo = b.todo /\ s.groups = G
      /\ s.value = b.value /\ s.synced = b.synced /\ s.fenced = F
  <2>1. s = [b EXCEPT !.then = l, !.pc = "barrier", !.groups = G, !.fenced = F]
    BY <1>4
  <2> QED
    BY ONLY <1>2, <2>1 DEF IsCluster
<1>7. G \in Seq(SUBSET env.cores) /\ F \subseteq env.cores /\ \A x \in F : \E i \in DOMAIN G : x \in G[i]
  BY <1>4, MembarFacts
<1>8. ClusterFields(s)
  BY <1>2, <1>6, <1>7 DEF ClusterFields, Labels
<1>9. UNCHANGED device /\ UNCHANGED cores
  BY DEF L1Membar
<1>10. posted' \in [Procs -> [env.cores -> Seq(Words)]] /\ barrier' = barrier /\ flag' = flag
  BY <1>9 DEF cores, LocksInv, DevTypes
<1>11. barrier # p
  BY <1>1, <1>2 DEF LocksInv, ControlInv
<1>12. (l = "idle" => Lockless(p)) /\ (l = "started" => Holding(p))
  BY <1>1, <1>2 DEF Lockless, Holding
<1>13. LocksInv' /\ proc'[p] = s /\ env' = env /\ \A q \in Procs : q # p => proc'[q] = proc[q]
  BY <1>2, <1>5, <1>6, <1>8, <1>9, <1>10, <1>11, <1>12, BarrierMove DEF InBarrier
<1> QED
  BY <1>1, <1>2, <1>6, <1>7, <1>9, <1>13

(* The group a barrier is at.                                                *)
LEMMA HeadType ==
  ASSUME ProcTypes, NEW p \in Procs, proc[p].groups # <<>>
  PROVE  Head(proc[p].groups) \subseteq env.cores /\ Tail(proc[p].groups) \in Seq(SUBSET env.cores)
<1>1. PICK G : G = proc[p].groups
  OBVIOUS
<1>2. PICK D : D = SUBSET env.cores
  OBVIOUS
<1>3. G \in Seq(D) /\ G # <<>>
  BY <1>1, <1>2 DEF ProcTypes, ClusterFields
<1>4. Head(G) \in D /\ Tail(G) \in Seq(D)
  BY ONLY <1>3
<1> QED
  BY <1>1, <1>2, <1>4

LEMMA BeginStep ==
  ASSUME LocksInv, NEW p \in Procs, BeginBarrier(p)
  PROVE  /\ LocksInv' /\ env' = env /\ flag' = flag /\ barrier = None
         /\ posted' = Post(p, Head(proc[p].groups), "SET")
         /\ \A q \in Procs : q # p => proc'[q] = proc[q]
         /\ proc[p].pc = "barrier" /\ proc'[p].pc = "poll" /\ proc'[p].then = proc[p].then
         /\ proc'[p].value = "SET" /\ proc'[p].synced = {} /\ proc'[p].groups = proc[p].groups /\ proc'[p].fenced = proc[p].fenced
<1>1. PICK r : r = proc[p]
  OBVIOUS
<1>2. IsCluster(r) /\ ClusterFields(r) /\ r.pc = "barrier" /\ r.groups # <<>> /\ r.then \in {"idle", "started"}
  BY <1>1 DEF BeginBarrier, LocksInv, ProcTypes, ControlInv
<1>3. PICK s : proc' = [proc EXCEPT ![p] = s] /\ s = [r EXCEPT !.pc = "poll", !.value = "SET", !.synced = {}]
  BY <1>1 DEF BeginBarrier, FirstValue, Set
<1>4. IsCluster(s) /\ s.pc = "poll" /\ s.then = r.then /\ s.ops = r.ops /\ s.todo = r.todo /\ s.groups = r.groups
      /\ s.value = "SET" /\ s.synced = {} /\ s.fenced = r.fenced
  <2>1. s = [r EXCEPT !.pc = "poll", !.value = "SET", !.synced = {}]
    BY <1>3
  <2> QED
    BY ONLY <1>2, <2>1 DEF IsCluster
<1>5. ClusterFields(s)
  BY <1>2, <1>4 DEF ClusterFields, Labels
<1>6. barrier = None /\ barrier' = p /\ UNCHANGED device /\ flag' = flag /\ posted' = Post(p, Head(r.groups), "SET")
  BY <1>1 DEF BeginBarrier, BarrierFree, FirstValue
<1>7. posted' \in [Procs -> [env.cores -> Seq(Words)]]
  BY <1>6, PostEffect DEF LocksInv, Words
<1>8. (r.then = "idle" => Lockless(p)) /\ (r.then = "started" => Holding(p))
  BY <1>1, <1>2 DEF Lockless, Holding
<1>9. LocksInv' /\ proc'[p] = s /\ env' = env /\ \A q \in Procs : q # p => proc'[q] = proc[q]
  BY <1>2, <1>3, <1>4, <1>5, <1>6, <1>7, <1>8, BarrierMove DEF InBarrier
<1> QED
  BY <1>1, <1>2, <1>4, <1>6, <1>9

LEMMA PollStep ==
  ASSUME LocksInv, NEW p \in Procs, Poll(p)
  PROVE  /\ LocksInv'
         /\ \/ Aside(p)
            \/ /\ env' = env /\ UNCHANGED cores /\ proc[p].pc = "poll"
               /\ \A q \in Procs : q # p => proc'[q] = proc[q]
               /\ proc'[p].pc = "poll" /\ proc'[p].then = proc[p].then /\ proc'[p].value = proc[p].value
               /\ proc'[p].groups = proc[p].groups /\ proc'[p].fenced = proc[p].fenced
               /\ \E x \in Head(proc[p].groups) \ proc[p].synced :
                    flag[x] = proc[p].value /\ proc'[p].synced = proc[p].synced \cup {x}
<1>1. PICK r : r = proc[p]
  OBVIOUS
<1>2. IsCluster(r) /\ ClusterFields(r) /\ r.pc \in {"poll", "initialize"} /\ r.groups # <<>>
  BY <1>1 DEF Poll, LocksInv, ProcTypes, ControlInv
<1>3. Head(r.groups) \subseteq env.cores
  BY <1>1, <1>2, HeadType DEF LocksInv
<1>4. PICK x \in Head(r.groups) \ r.synced : flag[x] = r.value /\ Set(p, [r EXCEPT !.synced = @ \cup {x}])
  BY <1>1 DEF Poll
<1>5. PICK Y, s : Y = r.synced \cup {x} /\ s = [r EXCEPT !.synced = Y]
  OBVIOUS
<1>6. proc' = [proc EXCEPT ![p] = s]
  BY <1>4, <1>5, Zenon DEF Set
<1>7. IsCluster(s) /\ s.pc = r.pc /\ s.then = r.then /\ s.ops = r.ops /\ s.todo = r.todo /\ s.groups = r.groups
      /\ s.value = r.value /\ s.synced = Y /\ s.fenced = r.fenced
  <2>1. s = [r EXCEPT !.synced = Y]
    BY <1>5
  <2> QED
    BY ONLY <1>2, <2>1 DEF IsCluster
<1>8. Y \subseteq env.cores
  BY <1>2, <1>3, <1>5 DEF ClusterFields
<1>9. ClusterFields(s)
  BY <1>2, <1>7, <1>8 DEF ClusterFields
<1>10. UNCHANGED device /\ UNCHANGED cores /\ env' = env /\ lock' = lock /\ dev' = dev
  BY DEF Poll, device
<1>11. /\ posted' \in [Procs -> [env.cores -> Seq(Words)]] /\ barrier' = barrier /\ flag' = flag
       /\ dev' \in [DOMAIN env.loc -> [clock : {"min", "max"}, held : BOOLEAN]]
  BY <1>10 DEF cores, LocksInv, DevTypes
<1>12. CASE r.pc = "initialize"
  <2>1. r.then = "starting"
    BY <1>1, <1>12 DEF LocksInv, ControlInv
  <2> QED
    BY <1>1, <1>2, <1>6, <1>7, <1>9, <1>10, <1>11, <1>12, <2>1, ProcStep DEF InBarrier
<1>13. CASE r.pc = "poll"
  <2>1. r.then \in {"idle", "started"} /\ barrier = p
    BY <1>1, <1>13 DEF LocksInv, ControlInv
  <2>2. (r.then = "idle" => Lockless(p)) /\ (r.then = "started" => Holding(p))
    BY <1>1, <1>13, <2>1 DEF Lockless, Holding
  <2>3. LocksInv' /\ proc'[p] = s /\ \A q \in Procs : q # p => proc'[q] = proc[q]
    BY <1>2, <1>6, <1>7, <1>9, <1>10, <1>11, <1>13, <2>1, <2>2, BarrierMove, ZenonT(60) DEF InBarrier
  <2> QED
    BY <1>1, <1>4, <1>5, <1>7, <1>10, <1>13, <2>3
<1> QED
  BY <1>2, <1>12, <1>13

(* A group of a start is done.                                               *)
LEMMA InitializedStep ==
  ASSUME LocksInv, NEW p \in Procs, Synced(p), proc[p].pc = "initialize"
  PROVE  LocksInv' /\ (Aside(p) \/ \E S : Posts(p, S, "RESET"))
<1>1. PICK r, G, l : r = proc[p] /\ G = Tail(r.groups) /\ l = r.then
  OBVIOUS
<1>2. IsCluster(r) /\ ClusterFields(r) /\ r.pc = "initialize" /\ r.groups # <<>> /\ l = "starting"
      /\ r.todo \subseteq Chips(p)
  BY <1>1 DEF Synced, LocksInv, ProcTypes, ControlInv
<1>3. G \in Seq(SUBSET env.cores)
  BY <1>1, <1>2, HeadType DEF LocksInv
<1>4. UNCHANGED device /\ flag' = flag /\ env' = env /\ lock' = lock /\ dev' = dev
  BY DEF Synced, device
<1>5. /\ posted \in [Procs -> [env.cores -> Seq(Words)]]
      /\ dev' \in [DOMAIN env.loc -> [clock : {"min", "max"}, held : BOOLEAN]]
  BY <1>4 DEF LocksInv, DevTypes
<1>6. CASE G = <<>>
  <2>1. PICK s : proc' = [proc EXCEPT ![p] = s] /\ s = [r EXCEPT !.pc = l, !.groups = <<>>]
    BY <1>1, <1>2, <1>6 DEF Synced, Set
  <2>2. IsCluster(s) /\ s.pc = l /\ s.ops = r.ops /\ s.todo = r.todo /\ s.groups = <<>>
        /\ s.value = r.value /\ s.synced = r.synced /\ s.fenced = r.fenced
    <3>1. s = [r EXCEPT !.pc = l, !.groups = <<>>]
      BY <2>1
    <3> QED
      BY ONLY <1>2, <3>1 DEF IsCluster
  <2>3. s.groups \in Seq(SUBSET env.cores)
    BY <2>2
  <2>4. ClusterFields(s)
    BY <1>2, <2>2, <2>3 DEF ClusterFields, Labels
  <2>5. UNCHANGED cores
    BY <1>1, <1>2, <1>4, <1>6 DEF Synced, cores
  <2> QED
    BY <1>1, <1>2, <1>4, <1>5, <2>1, <2>2, <2>4, <2>5, ProcStep DEF InBarrier
<1>7. CASE G # <<>>
  <2>1. PICK s : s = [r EXCEPT !.groups = G, !.synced = {}]
    OBVIOUS
  <2>2. proc' = [proc EXCEPT ![p] = s] /\ posted' = Post(p, Head(G), "RESET") /\ barrier' = barrier
    BY <1>1, <1>2, <1>7, <2>1, Zenon DEF Synced, Set
  <2>3. IsCluster(s) /\ s.pc = "initialize" /\ s.then = "starting" /\ s.ops = r.ops /\ s.todo = r.todo /\ s.groups = G
        /\ s.value = r.value /\ s.synced = {} /\ s.fenced = r.fenced
    <3>1. r.then = "starting"
      BY <1>1, <1>2
    <3> QED
      BY ONLY <1>2, <2>1, <3>1 DEF IsCluster
  <2>4. ClusterFields(s)
    BY <1>2, <1>3, <2>3 DEF ClusterFields
  <2>5. ProcTypes' /\ proc'[p] = s /\ \A q \in Procs : q # p => proc'[q] = proc[q]
    BY <1>4, <2>2, <2>3, <2>4, SetEffect DEF LocksInv
  <2>6. DevTypes'
    <3>1. posted' \in [Procs -> [env.cores -> Seq(Words)]]
      BY <2>2, PostEffect DEF LocksInv, Words
    <3> QED
      BY <1>4, <2>2, <3>1 DEF LocksInv, DevTypes
  <2>7. ControlInv'
    BY <1>1, <1>2, <1>4, <1>7, <2>2, <2>3, <2>5, ControlKept
  <2>8. LockInv' /\ HoldsInv'
    <3>1. ~Lockless(p)' /\ ~Holding(p)' /\ ~Again(p)
      BY <1>1, <1>2, <2>3, <2>5 DEF Lockless, Holding, Again
    <3>2. \A c \in env.local : lock[c] = p => c \in Chips(p) /\ \A d \in r.todo : c < d
      BY <1>1, <1>2, <3>1 DEF LocksInv, LockInv
    <3>3. Has(p, proc[p].todo)'
      <4>1. \A d \in Local(p) \ r.todo : lock[d] = p
        BY <1>1, <1>2 DEF LocksInv, HoldsInv, Has
      <4> QED
        BY <1>4, <2>3, <2>5, <4>1 DEF Has, Local, Chips
    <3> QED
      BY <1>4, <2>3, <2>5, <3>1, <3>2, <3>3, LocksKept
  <2>9. Posts(p, Head(G), "RESET")
    BY <1>1, <1>2, <1>4, <2>2, <2>3, <2>5 DEF Posts, InBarrier
  <2> QED
    BY <2>5, <2>6, <2>7, <2>8, <2>9 DEF LocksInv
<1> QED
  BY <1>6, <1>7

(* The word goes from SET to RESET, or the group is done.                    *)
LEMMA SyncedStep ==
  ASSUME LocksInv, NEW p \in Procs, Synced(p)
  PROVE  /\ LocksInv'
         /\ \/ Aside(p)
            \/ \E S : Posts(p, S, "RESET")
            \/ /\ env' = env /\ flag' = flag /\ proc[p].pc = "poll" /\ proc[p].synced = Head(proc[p].groups)
               /\ \A q \in Procs : q # p => proc'[q] = proc[q]
               /\ proc'[p].then = proc[p].then /\ proc'[p].fenced = proc[p].fenced
               /\ \/ /\ proc[p].value = "SET" /\ proc'[p].pc = "poll" /\ proc'[p].value = "RESET" /\ proc'[p].synced = {}
                     /\ proc'[p].groups = proc[p].groups /\ posted' = Post(p, Head(proc[p].groups), "RESET")
                  \/ /\ proc[p].value = "RESET" /\ proc'[p].pc = "barrier" /\ proc'[p].groups = Tail(proc[p].groups)
                     /\ posted' = posted
<1>1. PICK r, G, l : r = proc[p] /\ G = Tail(r.groups) /\ l = r.then
  OBVIOUS
<1>2. IsCluster(r) /\ ClusterFields(r) /\ r.pc \in {"poll", "initialize"} /\ r.groups # <<>> /\ r.synced = Head(r.groups)
  BY <1>1 DEF Synced, LocksInv, ProcTypes, ControlInv
<1>3. G \in Seq(SUBSET env.cores)
  BY <1>1, <1>2, HeadType DEF LocksInv
<1>4. UNCHANGED device /\ flag' = flag /\ env' = env /\ lock' = lock /\ dev' = dev
  BY DEF Synced, device
<1>5. /\ posted \in [Procs -> [env.cores -> Seq(Words)]]
      /\ dev' \in [DOMAIN env.loc -> [clock : {"min", "max"}, held : BOOLEAN]]
  BY <1>4 DEF LocksInv, DevTypes
<1>6. CASE r.pc = "initialize"
  BY <1>1, <1>6, InitializedStep
<1>7. CASE r.pc = "poll"
  <2>1. r.then \in {"idle", "started"} /\ barrier = p
    BY <1>1, <1>7 DEF LocksInv, ControlInv
  <2>2. (r.then = "idle" => Lockless(p)) /\ (r.then = "started" => Holding(p))
    BY <1>1, <1>7, <2>1 DEF Lockless, Holding
  <2>3. CASE r.value = "SET"
    <3>1. PICK s : proc' = [proc EXCEPT ![p] = s] /\ s = [r EXCEPT !.value = "RESET", !.synced = {}]
      BY <1>1, <1>7, <2>3 DEF Synced, Set
    <3>2. IsCluster(s) /\ s.pc = r.pc /\ s.then = r.then /\ s.ops = r.ops /\ s.todo = r.todo /\ s.groups = r.groups
          /\ s.value = "RESET" /\ s.synced = {} /\ s.fenced = r.fenced
      <4>1. s = [r EXCEPT !.value = "RESET", !.synced = {}]
        BY <3>1
      <4> QED
        BY ONLY <1>2, <4>1 DEF IsCluster
    <3>3. ClusterFields(s)
      BY <1>2, <3>2 DEF ClusterFields
    <3>4. posted' = Post(p, Head(r.groups), "RESET") /\ barrier' = barrier
      BY <1>1, <1>7, <2>3 DEF Synced
    <3>5. posted' \in [Procs -> [env.cores -> Seq(Words)]]
      BY <3>4, PostEffect DEF LocksInv, Words
    <3>6. LocksInv' /\ proc'[p] = s /\ \A q \in Procs : q # p => proc'[q] = proc[q]
      BY <1>2, <1>4, <1>7, <2>1, <2>2, <3>1, <3>2, <3>3, <3>4, <3>5, BarrierMove DEF InBarrier
    <3> QED
      BY <1>1, <1>2, <1>4, <1>7, <2>3, <3>2, <3>4, <3>6
  <2>4. CASE r.value # "SET"
    <3>1. PICK s : s = [r EXCEPT !.pc = "barrier", !.groups = G]
      OBVIOUS
    <3>2. proc' = [proc EXCEPT ![p] = s]
      BY <1>1, <1>7, <2>4, <3>1, Zenon DEF Synced, Set
    <3>3. IsCluster(s) /\ s.pc = "barrier" /\ s.then = r.then /\ s.ops = r.ops /\ s.todo = r.todo /\ s.groups = G
          /\ s.value = r.value /\ s.synced = r.synced /\ s.fenced = r.fenced
      BY ONLY <1>2, <3>1 DEF IsCluster
    <3>4. ClusterFields(s)
      BY <1>2, <1>3, <3>3 DEF ClusterFields, Labels
    <3>5. posted' = posted /\ barrier' = None
      BY <1>1, <1>7, <2>1, <2>4 DEF Synced
    <3>6. LocksInv' /\ proc'[p] = s /\ \A q \in Procs : q # p => proc'[q] = proc[q]
      <4>1. None # p /\ posted' \in [Procs -> [env.cores -> Seq(Words)]]
        BY <1>5, <3>5, EnvFacts DEF LocksInv, DevTypes
      <4> QED
        BY <1>4, <1>7, <2>1, <2>2, <3>2, <3>3, <3>4, <3>5, <4>1, BarrierMove DEF InBarrier
    <3>7. r.value = "RESET"
      BY <1>2, <2>4 DEF ClusterFields
    <3> QED
      BY <1>1, <1>2, <1>4, <1>7, <3>3, <3>5, <3>6, <3>7
  <2> QED
    BY <2>3, <2>4
<1> QED
  BY <1>2, <1>6, <1>7

LEMMA TimeoutStep ==
  ASSUME LocksInv, NEW p \in Procs, Timeout(p)
  PROVE  /\ LocksInv' /\ env' = env /\ proc'[p].pc = "timeout" /\ proc[p].pc \in {"poll", "initialize"}
         /\ \E x \in Head(proc[p].groups) \ proc[p].synced :
              x \in env.cores /\ flag[x] # proc[p].value /\ (env.slowWrites \/ posted[p][x] = <<>>)
<1>1. PICK r : r = proc[p]
  OBVIOUS
<1>2. IsCluster(r) /\ ClusterFields(r) /\ r.pc \in {"poll", "initialize"} /\ r.groups # <<>>
  BY <1>1 DEF Timeout, LocksInv, ProcTypes, ControlInv
<1>3. Head(r.groups) \subseteq env.cores
  BY <1>1, <1>2, HeadType DEF LocksInv
<1>4. PICK s : proc' = [proc EXCEPT ![p] = s] /\ s = [r EXCEPT !.pc = "timeout", !.groups = <<>>]
  BY <1>1 DEF Timeout, Set
<1>5. IsCluster(s) /\ s.pc = "timeout" /\ s.ops = r.ops /\ s.todo = r.todo /\ s.groups = <<>>
      /\ s.value = r.value /\ s.synced = r.synced /\ s.fenced = r.fenced
  <2>1. s = [r EXCEPT !.pc = "timeout", !.groups = <<>>]
    BY <1>4
  <2> QED
    BY ONLY <1>2, <2>1 DEF IsCluster
<1>6. s.groups \in Seq(SUBSET env.cores)
  BY <1>5
<1>7. ClusterFields(s)
  BY <1>2, <1>5, <1>6 DEF ClusterFields, Labels
<1>8. UNCHANGED device /\ flag' = flag /\ posted' = posted /\ barrier' = IF barrier = p THEN None ELSE barrier
  BY DEF Timeout
<1>9. posted' \in [Procs -> [env.cores -> Seq(Words)]] /\ barrier' # p /\ barrier' \in {barrier, None}
  BY <1>8, EnvFacts DEF LocksInv, DevTypes
<1>10. LocksInv' /\ proc'[p] = s /\ env' = env
  BY <1>4, <1>5, <1>7, <1>8, <1>9, BarrierMove DEF InBarrier
<1> QED
  BY <1>1, <1>2, <1>3, <1>5, <1>10 DEF Timeout

LEMMA ReturnStep ==
  ASSUME LocksInv, NEW p \in Procs, BarrierReturns(p)
  PROVE  /\ LocksInv' /\ env' = env /\ UNCHANGED cores
         /\ \A q \in Procs : q # p => proc'[q] = proc[q]
         /\ proc[p].pc = "barrier" /\ proc'[p].pc = "flushed" /\ proc'[p].then = proc[p].then
         /\ proc'[p].groups = proc[p].groups /\ proc'[p].fenced = proc[p].fenced
<1>1. PICK r : r = proc[p]
  OBVIOUS
<1>2. IsCluster(r) /\ ClusterFields(r) /\ r.pc = "barrier" /\ r.groups = <<>> /\ r.then \in {"idle", "started"} /\ barrier # p
  BY <1>1 DEF BarrierReturns, LocksInv, ProcTypes, ControlInv
<1>3. PICK s : proc' = [proc EXCEPT ![p] = s] /\ s = [r EXCEPT !.pc = "flushed"]
  BY <1>1 DEF BarrierReturns, Set
<1>4. IsCluster(s) /\ s.pc = "flushed" /\ s.then = r.then /\ s.ops = r.ops /\ s.todo = r.todo /\ s.groups = r.groups
      /\ s.value = r.value /\ s.synced = r.synced /\ s.fenced = r.fenced
  BY <1>2, <1>3 DEF IsCluster
<1>5. ClusterFields(s)
  BY <1>2, <1>4 DEF ClusterFields, Labels
<1>6. UNCHANGED device /\ UNCHANGED cores
  BY DEF BarrierReturns
<1>7. posted' \in [Procs -> [env.cores -> Seq(Words)]] /\ barrier' = barrier /\ flag' = flag
  BY <1>6 DEF cores, LocksInv, DevTypes
<1>8. (r.then = "idle" => Lockless(p)) /\ (r.then = "started" => Holding(p))
  BY <1>1, <1>2 DEF Lockless, Holding
<1>9. LocksInv' /\ proc'[p] = s /\ env' = env /\ \A q \in Procs : q # p => proc'[q] = proc[q]
  BY <1>2, <1>3, <1>4, <1>5, <1>6, <1>7, <1>8, BarrierMove DEF InBarrier
<1> QED
  BY <1>1, <1>2, <1>4, <1>6, <1>9

LEMMA AfterStep ==
  ASSUME LocksInv, NEW p \in Procs, AfterBarrier(p)
  PROVE  /\ LocksInv' /\ env' = env /\ UNCHANGED cores
         /\ \A q \in Procs : q # p => proc'[q] = proc[q]
         /\ proc[p].pc = "flushed" /\ proc'[p].pc = proc[p].then /\ proc[p].then \in {"idle", "started"}
<1>1. PICK r, l : r = proc[p] /\ l = r.then
  OBVIOUS
<1>2. IsCluster(r) /\ ClusterFields(r) /\ r.pc = "flushed" /\ l \in {"idle", "started"} /\ barrier # p
  BY <1>1 DEF AfterBarrier, LocksInv, ProcTypes, ControlInv
<1>3. PICK s : proc' = [proc EXCEPT ![p] = s] /\ s = [r EXCEPT !.pc = l, !.fenced = {}]
  BY <1>1 DEF AfterBarrier, Set
<1>4. IsCluster(s) /\ s.pc = l /\ s.ops = r.ops /\ s.todo = r.todo /\ s.groups = r.groups
      /\ s.value = r.value /\ s.synced = r.synced /\ s.fenced = {}
  <2>1. s = [r EXCEPT !.pc = l, !.fenced = {}]
    BY <1>3
  <2> QED
    BY ONLY <1>2, <2>1 DEF IsCluster
<1>5. ClusterFields(s)
  BY <1>2, <1>4 DEF ClusterFields, Labels
<1>6. UNCHANGED device /\ UNCHANGED cores
  BY DEF AfterBarrier
<1>7. posted' \in [Procs -> [env.cores -> Seq(Words)]] /\ barrier' = barrier /\ flag' = flag
  BY <1>6 DEF cores, LocksInv, DevTypes
<1>8. (l = "idle" => Lockless(p)) /\ (l = "started" => Holding(p))
  BY <1>1, <1>2 DEF Lockless, Holding
<1>9. LocksInv' /\ proc'[p] = s /\ env' = env /\ \A q \in Procs : q # p => proc'[q] = proc[q]
  BY <1>2, <1>3, <1>4, <1>5, <1>6, <1>7, <1>8, BarrierMove DEF InBarrier
<1> QED
  BY <1>1, <1>2, <1>4, <1>6, <1>9

(* A step that leaves the processes and their locks alone.                   *)
LEMMA LocksSame ==
  ASSUME ControlInv, LockInv, HoldsInv, UNCHANGED <<env, lock, barrier, proc>>
  PROVE  ControlInv' /\ LockInv' /\ HoldsInv'
<1>1. ControlInv'
  BY DEF ControlInv, Chips
<1>2. LockInv'
  BY DEF LockInv, Lockless, Again, Local, Chips
<1>3. HoldsInv'
  BY DEF HoldsInv, Holding, Has, Local, Chips
<1> QED
  BY <1>1, <1>2, <1>3

LEMMA LandStep ==
  ASSUME LocksInv, NEW p \in Procs, NEW x \in env.cores, Land(p, x)
  PROVE  /\ LocksInv' /\ env' = env /\ barrier' = barrier /\ proc' = proc
         /\ posted[p][x] # <<>> /\ posted[p][x] \in Seq(Words) /\ posted'[p][x] = Tail(posted[p][x])
         /\ \A q \in Procs : \A y \in env.cores : q # p \/ y # x => posted'[q][y] = posted[q][y]
         /\ \A y \in env.cores : y # x => flag'[y] = flag[y]
         /\ flag'[x] = IF Head(posted[p][x]) = "data" THEN flag[x] ELSE Head(posted[p][x])
<1>1. /\ posted \in [Procs -> [env.cores -> Seq(Words)]] /\ flag \in [env.cores -> {"SET", "RESET"}]
  BY DEF LocksInv, DevTypes
<1>2. UNCHANGED <<env, dev, lock, barrier, proc>> /\ posted[p][x] # <<>>
  BY DEF Land, device
<1>3. PICK Q : Q = posted[p][x]
  OBVIOUS
<1>4. Q \in Seq(Words) /\ Q # <<>>
  BY <1>1, <1>2, <1>3
<1>5. Head(Q) \in Words /\ Tail(Q) \in Seq(Words)
  BY ONLY <1>4
<1>6. PICK T \in Seq(Words) : T = Tail(Q)
  BY <1>5
<1>7. posted' = [posted EXCEPT ![p][x] = T]
  BY <1>3, <1>6, Zenon DEF Land
<1>8. /\ posted' \in [Procs -> [env.cores -> Seq(Words)]] /\ posted'[p][x] = T
      /\ \A q \in Procs : \A y \in env.cores : q # p \/ y # x => posted'[q][y] = posted[q][y]
  BY <1>1, <1>7
<1>9. /\ flag' \in [env.cores -> {"SET", "RESET"}] /\ \A y \in env.cores : y # x => flag'[y] = flag[y]
      /\ flag'[x] = IF Head(Q) = "data" THEN flag[x] ELSE Head(Q)
  <2>1. flag' = IF Head(Q) = "data" THEN flag ELSE [flag EXCEPT ![x] = Head(Q)]
    BY <1>3 DEF Land
  <2>2. Head(Q) # "data" => Head(Q) \in {"SET", "RESET"}
    BY <1>5 DEF Words
  <2> QED
    BY <1>1, <2>1, <2>2
<1>10. DevTypes'
  BY <1>2, <1>8, <1>9 DEF LocksInv, DevTypes
<1>11. ProcTypes'
  BY <1>2 DEF LocksInv, ProcTypes, IsCluster, ClusterFields
<1>12. ControlInv' /\ LockInv' /\ HoldsInv'
  BY <1>2, LocksSame DEF LocksInv
<1> QED
  BY <1>2, <1>3, <1>4, <1>6, <1>8, <1>9, <1>10, <1>11, <1>12 DEF LocksInv

------------------------------------------------------------------------------
(* No circle of waiting processes. *)

(* A finite set of numbers has a greatest one.                               *)
LEMMA GreatestIs ==
  ASSUME NEW A, A \subseteq Nat, IsFiniteSet(A), A # {}
  PROVE  \E m \in A : \A c \in A : c <= m
<1> DEFINE Above(c) == {d \in A : c < d}
           K == {Cardinality(Above(c)) : c \in A}
           R == OpToRel(<, Nat)
<1>1. \A c \in A : IsFiniteSet(Above(c)) /\ Cardinality(Above(c)) \in Nat
  <2> TAKE c \in A
  <2>1. Above(c) \in SUBSET A
    OBVIOUS
  <2>2. IsFiniteSet(Above(c))
    BY <2>1, FS_Subset
  <2> QED
    BY <2>2, FS_CardinalityType
<1>2. IsWellFoundedOn(R, Nat)
  BY NatLessThanWellFounded, Zenon
<1>3. \A x, y \in Nat : y < x => <<y, x>> \in R
  BY DEF OpToRel
<1>4. K \subseteq Nat /\ K # {}
  BY <1>1
<1> HIDE DEF R
<1>5. PICK k \in K : \A y \in K : ~(<<y, k>> \in R)
  <2> HIDE DEF K
  <2> QED
    BY <1>2, <1>4, WFMin
<1>6. PICK m \in A : k = Cardinality(Above(m))
  OBVIOUS
<1>7. \A c \in A : ~(m < c)
  <2> SUFFICES ASSUME NEW c \in A, m < c
               PROVE  FALSE
    OBVIOUS
  <2>1. c \in Nat /\ m \in Nat /\ \A d \in A : d \in Nat
    OBVIOUS
  <2>2. Above(c) \in SUBSET Above(m) /\ c \in Above(m) /\ c \notin Above(c)
    <3>1. \A d \in A : c < d => m < d
      BY <2>1
    <3>2. ~(c < c)
      BY <2>1
    <3> QED
      BY <3>1, <3>2
  <2>3. Cardinality(Above(c)) \in Nat /\ Cardinality(Above(m)) \in Nat /\ IsFiniteSet(Above(m))
    BY <1>1
  <2>4. Above(c) # Above(m)
    BY <2>2
  <2> HIDE DEF Above
  <2>5. Cardinality(Above(c)) <= Cardinality(Above(m)) /\ Cardinality(Above(m)) # Cardinality(Above(c))
    BY <2>2, <2>3, <2>4, FS_Subset
  <2>6. Cardinality(Above(c)) < Cardinality(Above(m))
    BY <2>3, <2>5
  <2>7. Cardinality(Above(c)) \in K
    OBVIOUS
  <2> QED
    BY <1>3, <1>5, <1>6, <2>3, <2>6, <2>7
<1>8. \A c \in A : c \in Nat /\ m \in Nat /\ ~(m < c)
  BY <1>7
<1>9. \A c \in A : c <= m
  BY ONLY <1>8
<1> QED
  BY <1>9

(* Who waits for a lock of its own is about to start its chips once more.    *)
LEMMA OwnLock ==
  ASSUME LocksInv, NEW p \in Procs, WaitsFor(p, p)
  PROVE  Again(p)
<1>1. ~(proc[p].pc = "barrier" /\ proc[p].groups # <<>> /\ barrier = p)
  BY DEF LocksInv, ControlInv
<1>2. PICK c \in env.local : proc[p].pc = "starting" /\ c \in First(proc[p].todo) /\ lock[c] = p
  BY <1>1 DEF WaitsFor, StartOrder
<1>3. c \in proc[p].todo /\ c \in Nat
  BY <1>2, EnvFacts DEF First, LocksInv, DevTypes, ProcTypes, ClusterFields
<1>4. ~(c < c)
  BY <1>3
<1> QED
  BY <1>2, <1>3, <1>4 DEF LocksInv, LockInv

(* Whoever waits for a chip of another waits for one greater than all it     *)
(* holds, and the holder of MEM_BARRIER waits for nothing.                   *)
LEMMA NoCircle ==
  ASSUME LocksInv, NEW S \in SUBSET Procs, S # {}
  PROVE  \E p \in S : \A r \in S \ {p} : ~WaitsFor(p, r)
<1> SUFFICES ASSUME \A p \in S : \E r \in S \ {p} : WaitsFor(p, r)
             PROVE  FALSE
  OBVIOUS
<1>1. \A p \in S : /\ proc[p].pc = "starting"
                   /\ \E c \in env.local : c \in First(proc[p].todo) /\ lock[c] \in S \ {p}
  <2> TAKE p \in S
  <2>1. PICK r \in S \ {p} : WaitsFor(p, r)
    OBVIOUS
  <2>2. ~(proc[p].pc = "barrier" /\ proc[p].groups # <<>> /\ barrier = r)
    <3> SUFFICES ASSUME barrier = r
                 PROVE  FALSE
      OBVIOUS
    <3>1. proc[r].pc = "poll"
      BY DEF LocksInv, ControlInv
    <3>2. PICK t \in S : WaitsFor(r, t)
      OBVIOUS
    <3> QED
      BY <3>1, <3>2 DEF WaitsFor
  <2> QED
    BY <2>1, <2>2 DEF WaitsFor, StartOrder
<1> DEFINE A == {c \in env.local : \E p \in S : c \in First(proc[p].todo) /\ lock[c] \in S \ {p}}
<1>2. A \subseteq Nat /\ IsFiniteSet(A) /\ A # {}
  <2>1. A \in SUBSET DOMAIN env.loc /\ DOMAIN env.loc \subseteq Nat /\ IsFiniteSet(DOMAIN env.loc)
    BY EnvFacts DEF LocksInv, DevTypes
  <2>2. A # {}
    BY <1>1
  <2> HIDE DEF A
  <2>3. IsFiniteSet(A)
    BY <2>1, FS_Subset
  <2> QED
    BY <2>1, <2>2, <2>3
<1>3. PICK m \in A : \A c \in A : c <= m
  <2> HIDE DEF A
  <2> QED
    BY <1>2, GreatestIs
<1>4. PICK r \in S : r = lock[m]
  OBVIOUS
<1>5. PICK c \in env.local : c \in First(proc[r].todo) /\ lock[c] \in S \ {r} /\ proc[r].pc = "starting"
  BY <1>1
<1>6. ~Again(r)
  <2>1. c \in Local(r)
    BY <1>5 DEF First, Local, LocksInv, ControlInv
  <2> QED
    BY <1>5, <2>1 DEF Again
<1>7. m < c
  BY <1>4, <1>5, <1>6 DEF LocksInv, LockInv, First
<1>8. c \in A
  BY <1>5
<1>9. c \in Nat /\ m \in Nat /\ c <= m
  BY <1>2, <1>3, <1>8
<1> QED
  BY ONLY <1>7, <1>9

LEMMA NoCycle ==
  ASSUME LocksInv
  PROVE  NoWaitCycle
  BY NoCircle, OwnLock DEF NoWaitCycle, Again

(* Every step keeps what the locks rest on.                                  *)
LEMMA LocksNext ==
  ASSUME LocksInv, Next
  PROVE  LocksInv'
<1>1. ASSUME NEW p \in Procs,
             \/ Construct(p) \/ RefreshClusterDescription(p) \/ StartDevice(p) \/ StartChip(p) \/ DeassertResets(p)
             \/ SetClockBusy(p) \/ CloseDevice(p) \/ CloseChip(p) \/ Exit(p)
             \/ AssertRiscReset(p) \/ UserBroadcast(p) \/ Flush(p)
      PROVE  LocksInv'
  BY <1>1, ConstructStep, RefreshStep, StartDeviceStep, StartChipStep, DeassertStep, ClockStep, CloseDeviceStep,
     CloseChipStep, ExitStep, BroadcastCallStep, FlushStep
<1>2. ASSUME NEW p \in Procs,
             \/ WriteToDevice(p) \/ L1Membar(p) \/ BeginBarrier(p) \/ Poll(p) \/ Synced(p) \/ Timeout(p)
             \/ BarrierReturns(p) \/ AfterBarrier(p)
             \/ \E x \in env.cores : Land(p, x)
      PROVE  LocksInv'
  BY <1>2, WriteStep, L1MembarStep, BeginStep, PollStep, SyncedStep, TimeoutStep, ReturnStep, AfterStep, LandStep
<1>3. ASSUME NEW w \in flight, Deliver(w)
      PROVE  LocksInv'
  BY <1>3, DeliverStep
<1>4. ASSUME ToolReset \/ Relocate
      PROVE  LocksInv'
  BY <1>4, WorldStep
<1> QED
  BY <1>1, <1>2, <1>3, <1>4 DEF Next

LEMMA LocksStutter ==
  ASSUME LocksInv, UNCHANGED vars
  PROVE  LocksInv'
<1>1. DevTypes' /\ ProcTypes'
  BY DEF LocksInv, DevTypes, ProcTypes, IsCluster, ClusterFields, vars
<1>2. ControlInv' /\ LockInv' /\ HoldsInv'
  BY LocksSame DEF LocksInv, vars
<1> QED
  BY <1>1, <1>2 DEF LocksInv

LEMMA LocksInit ==
  ASSUME Init
  PROVE  LocksInv
<1> USE EnvFacts DEF Init
<1>1. IsCluster(Fresh) /\ Fresh.pc = "none" /\ Fresh.todo = {} /\ Fresh.ops = 0 /\ Fresh.groups = <<>> /\ Fresh.value = "RESET"
      /\ Fresh.synced = {} /\ Fresh.fenced = {}
  BY DEF Fresh, IsCluster
<1>2. ClusterFields(Fresh)
  <2>1. Fresh.groups \in Seq(SUBSET env.cores)
    BY <1>1
  <2>2. 0 \in 0 .. env.maxOps
    OBVIOUS
  <2> QED
    BY <1>1, <2>1, <2>2 DEF ClusterFields, Labels
<1>3. proc = [p \in Procs |-> Fresh] /\ proc = [p \in Procs |-> proc[p]] /\ \A p \in Procs : proc[p] = Fresh
  OBVIOUS
<1>4. ProcTypes
  BY <1>1, <1>2, <1>3 DEF ProcTypes
<1>5. DevTypes
  <2>1. [clock |-> "min", held |-> TRUE] \in [clock : {"min", "max"}, held : BOOLEAN]
    OBVIOUS
  <2>2. dev \in [DOMAIN env.loc -> [clock : {"min", "max"}, held : BOOLEAN]]
    BY <2>1
  <2>3. <<>> \in Seq(Words)
    OBVIOUS
  <2>4. posted \in [Procs -> [env.cores -> Seq(Words)]]
    BY <2>3
  <2> QED
    BY <2>2, <2>4 DEF DevTypes
<1>6. ControlInv
  BY <1>1, <1>3 DEF ControlInv
<1>7. LockInv /\ HoldsInv
  <2>1. LockInv
    BY DEF LockInv
  <2>2. HoldsInv
    BY <1>1, <1>3 DEF HoldsInv, Holding
  <2> QED
    BY <2>1, <2>2
<1> QED
  BY <1>4, <1>5, <1>6, <1>7 DEF LocksInv

(* Processes that start clusters on the same chips, and are in barriers on   *)
(* them, never wait for each other in a circle, however many they are and    *)
(* whatever chips each of them sees: start_device takes CHIP_IN_USE of the   *)
(* chips in the order of their ids, and MEM_BARRIER is taken last. A process *)
(* waits for itself only in a start_device of a cluster that is started.     *)
THEOREM StartsDoNotDeadlock == HostsSpec => []NoWaitCycle
<1>1. HostsInit => LocksInv
  BY LocksInit DEF HostsInit
<1>2. LocksInv /\ [MemoryNext \/ ClusterNext]_<<hostVars, vars, part>> => LocksInv'
  BY LocksNext, LocksStutter DEF MemoryNext, ClusterNext
<1>3. LocksInv => NoWaitCycle
  BY NoCycle
<1> QED
  BY <1>1, <1>2, <1>3, PTL DEF HostsSpec

------------------------------------------------------------------------------
(* Barriers flush. *)

(* A process that is at a group has MEM_BARRIER: there is one such.          *)
LEMMA OneHolder ==
  ASSUME LocksInv
  PROVE  \A p, q \in Procs : \A x, y : InGroup(p, x) /\ InGroup(q, y) => p = q
  BY DEF LocksInv, ControlInv, InGroup

LEMMA AsideFlush ==
  ASSUME LocksInv, BarrierInv, NEW p \in Procs, Aside(p)
  PROVE  BarrierInv'
<1>1. \A q \in Procs : \A x : InGroup(q, x)' <=> InGroup(q, x)
  BY DEF Aside, InGroup, InBarrier
<1>2. \A q \in Procs : \A x, v : Posted(q, x, v)' <=> Posted(q, x, v)
  BY DEF Aside, Posted
<1>3. \A q \in Procs : \A x : InGroup(q, x) => proc'[q] = proc[q]
  BY DEF Aside, InGroup, InBarrier
<1>4. env' = env /\ flag' = flag /\ posted' = posted
  BY DEF Aside
<1>5. SetInv'
  BY <1>1, <1>2, <1>3, <1>4 DEF BarrierInv, SetInv
<1>6. WordInv'
  BY <1>1, <1>3, <1>4 DEF BarrierInv, WordInv
<1>7. GroupInv'
  BY <1>1, <1>3, <1>4 DEF BarrierInv, GroupInv
<1>8. FencedInv'
  <2>1. \A q \in Procs : proc'[q].pc \in {"barrier", "poll", "flushed"} => proc'[q] = proc[q]
    BY DEF Aside, InBarrier
  <2> QED
    BY <1>2, <2>1 DEF BarrierInv, FencedInv
<1> QED
  BY <1>5, <1>6, <1>7, <1>8 DEF BarrierInv

LEMMA AloofFlush ==
  ASSUME BarrierInv, Aloof
  PROVE  BarrierInv'
<1>1. \A q \in Procs : \A x : InGroup(q, x)' <=> InGroup(q, x)
  BY DEF Aloof, InGroup
<1>2. \A q \in Procs : \A x, v : Posted(q, x, v)' <=> Posted(q, x, v)
  BY DEF Aloof, Posted
<1>3. SetInv'
  BY <1>1, <1>2 DEF BarrierInv, SetInv, Aloof
<1>4. WordInv'
  BY <1>1 DEF BarrierInv, WordInv, Aloof
<1>5. GroupInv'
  BY <1>1 DEF BarrierInv, GroupInv, Aloof
<1>6. FencedInv'
  BY <1>2 DEF BarrierInv, FencedInv, Aloof
<1> QED
  BY <1>3, <1>4, <1>5, <1>6 DEF BarrierInv

(* What a queue holds after a word more.                                     *)
LEMMA AppendHolds ==
  ASSUME NEW Q \in Seq(Words), NEW w
  PROVE  /\ Len(Append(Q, w)) = Len(Q) + 1 /\ Append(Q, w)[Len(Q) + 1] = w
         /\ DOMAIN Append(Q, w) = 1 .. (Len(Q) + 1) /\ DOMAIN Q = 1 .. Len(Q) /\ Len(Q) \in Nat
         /\ \A i \in DOMAIN Q : i \in DOMAIN Append(Q, w) /\ Append(Q, w)[i] = Q[i]
  OBVIOUS

(* The queues after a post.                                                  *)
LEMMA PostHolds ==
  ASSUME DevTypes, NEW p \in Procs, NEW S, NEW w \in Words, posted' = Post(p, S, w)
  PROVE  /\ \A q \in Procs : \A x \in env.cores :
              ~(q = p /\ x \in S) => posted'[q][x] = posted[q][x] /\ \A v : Posted(q, x, v)' <=> Posted(q, x, v)
         /\ \A x \in env.cores : x \in S =>
              /\ posted'[p][x] = Append(posted[p][x], w)
              /\ \A v : Posted(p, x, v)' <=> (Posted(p, x, v) \/ v = w)
<1>1. \A q \in Procs : \A x \in env.cores : /\ posted[q][x] \in Seq(Words)
        /\ posted'[q][x] = IF q = p /\ x \in S THEN Append(posted[q][x], w) ELSE posted[q][x]
  BY PostEffect DEF DevTypes
<1>2. ASSUME NEW q \in Procs, NEW x \in env.cores, ~(q = p /\ x \in S)
      PROVE  posted'[q][x] = posted[q][x] /\ \A v : Posted(q, x, v)' <=> Posted(q, x, v)
  BY <1>1, <1>2 DEF Posted
<1>3. ASSUME NEW x \in env.cores, x \in S
      PROVE  /\ posted'[p][x] = Append(posted[p][x], w)
             /\ \A v : Posted(p, x, v)' <=> (Posted(p, x, v) \/ v = w)
  <2>1. PICK Q \in Seq(Words) : Q = posted[p][x] /\ posted'[p][x] = Append(Q, w)
    BY <1>1, <1>3
  <2>2. PICK P : P = Append(Q, w)
    OBVIOUS
  <2>3. /\ Len(Q) \in Nat /\ DOMAIN P = 1 .. (Len(Q) + 1) /\ DOMAIN Q = 1 .. Len(Q)
        /\ P[Len(Q) + 1] = w /\ \A i \in DOMAIN Q : i \in DOMAIN P /\ P[i] = Q[i]
    BY <2>2, AppendHolds
  <2>4. \A i \in DOMAIN P : i = Len(Q) + 1 \/ i \in DOMAIN Q
    BY ONLY <2>3
  <2>5. Len(Q) + 1 \in DOMAIN P
    BY ONLY <2>3
  <2>6. \A v : (\E i \in DOMAIN P : P[i] = v) <=> ((\E i \in DOMAIN Q : Q[i] = v) \/ v = w)
    BY ONLY <2>3, <2>4, <2>5
  <2>7. \A v : Posted(p, x, v) <=> \E i \in DOMAIN Q : Q[i] = v
    BY <2>1 DEF Posted
  <2>8. \A v : Posted(p, x, v)' <=> \E i \in DOMAIN P : P[i] = v
    <3>1. P = posted'[p][x]
      BY <2>1, <2>2
    <3> QED
      BY <3>1 DEF Posted
  <2>9. posted'[p][x] = Append(posted[p][x], w)
    BY <2>1
  <2>10. \A v : Posted(p, x, v)' <=> (Posted(p, x, v) \/ v = w)
    BY ONLY <2>6, <2>7, <2>8
  <2> QED
    BY <2>9, <2>10
<1> QED
  BY <1>2, <1>3

LEMMA PostsFlush ==
  ASSUME LocksInv, BarrierInv, NEW p \in Procs, NEW S, NEW w \in {"data", "RESET"}, Posts(p, S, w)
  PROVE  BarrierInv'
<1>1. \A q \in Procs : \A x : InGroup(q, x)' <=> InGroup(q, x)
  BY DEF Posts, InGroup, InBarrier
<1>2. \A q \in Procs : \A x : InGroup(q, x) => q # p /\ proc'[q] = proc[q]
  BY DEF Posts, InGroup, InBarrier
<1>3. env' = env /\ flag' = flag /\ posted' = Post(p, S, w)
  BY DEF Posts
<1>4. /\ \A q \in Procs : \A x \in env.cores :
           ~(q = p /\ x \in S) => posted'[q][x] = posted[q][x] /\ \A v : Posted(q, x, v)' <=> Posted(q, x, v)
      /\ \A x \in env.cores : x \in S =>
           /\ posted'[p][x] = Append(posted[p][x], w)
           /\ \A v : Posted(p, x, v)' <=> (Posted(p, x, v) \/ v = w)
  BY <1>3, PostHolds DEF LocksInv, Words
<1>5. \A q \in Procs : \A x \in env.cores : Posted(q, x, "SET")' <=> Posted(q, x, "SET")
  BY <1>4
<1>6. SetInv'
  <2> SUFFICES ASSUME NEW q \in Procs, NEW x \in env.cores
               PROVE  /\ Posted(q, x, "SET")' => InGroup(q, x)' /\ proc'[q].value = "SET" /\ x \notin proc'[q].synced
                      /\ \A i \in DOMAIN posted'[q][x] : posted'[q][x][i] = "SET" => i = Len(posted'[q][x])
    BY <1>3 DEF SetInv
  <2>1. Posted(q, x, "SET")' => InGroup(q, x)' /\ proc'[q].value = "SET" /\ x \notin proc'[q].synced
    BY <1>1, <1>2, <1>5 DEF BarrierInv, SetInv
  <2>2. CASE Posted(q, x, "SET")
    <3>1. q # p
      BY <1>2, <2>2 DEF BarrierInv, SetInv
    <3> QED
      BY <1>4, <2>1, <3>1 DEF BarrierInv, SetInv
  <2>3. CASE ~Posted(q, x, "SET")
    <3>1. ~Posted(q, x, "SET")'
      BY <1>5, <2>3
    <3> QED
      BY <2>1, <3>1 DEF Posted
  <2> QED
    BY <2>2, <2>3
<1>7. WordInv'
  BY <1>1, <1>2, <1>3 DEF BarrierInv, WordInv
<1>8. GroupInv'
  BY <1>1, <1>2, <1>3, <1>4 DEF BarrierInv, GroupInv
<1>9. FencedInv'
  <2> SUFFICES ASSUME NEW q \in Procs, proc'[q].pc \in {"barrier", "poll", "flushed"}, NEW x \in proc'[q].fenced,
                      \A i \in DOMAIN proc'[q].groups : x \notin proc'[q].groups[i]
               PROVE  ~Posted(q, x, "data")'
    BY DEF FencedInv
  <2>1. q # p /\ proc'[q] = proc[q]
    BY DEF Posts, InBarrier
  <2>2. x \in env.cores
    BY <2>1 DEF LocksInv, ProcTypes, ClusterFields
  <2> QED
    BY <1>4, <2>1, <2>2 DEF BarrierInv, FencedInv
<1> QED
  BY <1>6, <1>7, <1>8, <1>9 DEF BarrierInv

(* A step of p outside the groups that posts nothing.                        *)
LEMMA CalmFlush ==
  ASSUME LocksInv, BarrierInv, NEW p \in Procs, env' = env, UNCHANGED cores,
         \A q \in Procs : q # p => proc'[q] = proc[q],
         proc[p].pc # "poll", proc'[p].pc # "poll",
         proc'[p].pc \in {"barrier", "flushed"} =>
           \A x \in proc'[p].fenced : (\A i \in DOMAIN proc'[p].groups : x \notin proc'[p].groups[i]) => ~Posted(p, x, "data")
  PROVE  BarrierInv'
<1>1. \A q \in Procs : \A x : InGroup(q, x)' <=> InGroup(q, x)
  BY DEF InGroup
<1>2. \A q \in Procs : \A x, v : Posted(q, x, v)' <=> Posted(q, x, v)
  BY DEF Posted, cores
<1>3. \A q \in Procs : \A x : InGroup(q, x) => proc'[q] = proc[q]
  BY DEF InGroup
<1>4. flag' = flag /\ posted' = posted
  BY DEF cores
<1>5. SetInv'
  BY <1>1, <1>2, <1>3, <1>4 DEF BarrierInv, SetInv
<1>6. WordInv'
  BY <1>1, <1>3, <1>4 DEF BarrierInv, WordInv
<1>7. GroupInv'
  BY <1>1, <1>3, <1>4 DEF BarrierInv, GroupInv
<1>8. FencedInv'
  BY <1>2 DEF BarrierInv, FencedInv
<1> QED
  BY <1>5, <1>6, <1>7, <1>8 DEF BarrierInv

LEMMA CallsFlush ==
  ASSUME LocksInv, BarrierInv, NEW p \in Procs, L1Membar(p) \/ BarrierReturns(p) \/ AfterBarrier(p)
  PROVE  BarrierInv'
<1>1. CASE L1Membar(p)
  BY <1>1, L1MembarStep, CalmFlush
<1>2. CASE BarrierReturns(p)
  <2>1. \A x \in proc[p].fenced : (\A i \in DOMAIN proc[p].groups : x \notin proc[p].groups[i]) => ~Posted(p, x, "data")
    BY <1>2, ReturnStep DEF BarrierInv, FencedInv
  <2> QED
    BY <1>2, <2>1, ReturnStep, CalmFlush
<1>3. CASE AfterBarrier(p)
  BY <1>3, AfterStep, CalmFlush
<1> QED
  BY <1>1, <1>2, <1>3

(* The barrier begins: no word of the chip is SET.                           *)
LEMMA BeginFlush ==
  ASSUME LocksInv, BarrierInv, NEW p \in Procs, BeginBarrier(p)
  PROVE  BarrierInv'
<1>1. PICK S : S = Head(proc[p].groups)
  OBVIOUS
<1>2. /\ env' = env /\ flag' = flag /\ barrier = None /\ posted' = Post(p, S, "SET")
      /\ \A q \in Procs : q # p => proc'[q] = proc[q]
      /\ proc[p].pc = "barrier" /\ proc'[p].pc = "poll"
      /\ proc'[p].value = "SET" /\ proc'[p].synced = {} /\ proc'[p].groups = proc[p].groups /\ proc'[p].fenced = proc[p].fenced
  BY <1>1, BeginStep
<1>3. \A q \in Procs : \A x : ~InGroup(q, x)
  BY <1>2, EnvFacts DEF LocksInv, DevTypes, ControlInv, InGroup
<1>4. \A q \in Procs : \A x : InGroup(q, x)' <=> q = p /\ x \in S
  BY <1>1, <1>2, <1>3 DEF InGroup
<1>5. /\ \A q \in Procs : \A x \in env.cores :
           ~(q = p /\ x \in S) => posted'[q][x] = posted[q][x] /\ \A v : Posted(q, x, v)' <=> Posted(q, x, v)
      /\ \A x \in env.cores : x \in S =>
           /\ posted'[p][x] = Append(posted[p][x], "SET")
           /\ \A v : Posted(p, x, v)' <=> (Posted(p, x, v) \/ v = "SET")
  BY <1>2, PostHolds DEF LocksInv, Words
<1>6. \A q \in Procs : \A x \in env.cores : ~Posted(q, x, "SET")
  BY <1>3 DEF BarrierInv, SetInv
<1>7. \A x \in env.cores : flag[x] # "SET"
  BY <1>3 DEF BarrierInv, WordInv
<1>8. SetInv'
  <2> SUFFICES ASSUME NEW q \in Procs, NEW x \in env.cores
               PROVE  /\ Posted(q, x, "SET")' => InGroup(q, x)' /\ proc'[q].value = "SET" /\ x \notin proc'[q].synced
                      /\ \A i \in DOMAIN posted'[q][x] : posted'[q][x][i] = "SET" => i = Len(posted'[q][x])
    BY <1>2 DEF SetInv
  <2>1. CASE q = p /\ x \in S
    <3>1. PICK Q \in Seq(Words) : Q = posted[p][x]
      BY DEF LocksInv, DevTypes
    <3>2. PICK P : P = Append(Q, "SET")
      OBVIOUS
    <3>3. /\ Len(Q) \in Nat /\ DOMAIN P = 1 .. (Len(Q) + 1) /\ DOMAIN Q = 1 .. Len(Q) /\ Len(P) = Len(Q) + 1
          /\ \A i \in DOMAIN Q : P[i] = Q[i]
      BY <3>2, AppendHolds
    <3>4. \A i \in DOMAIN Q : Q[i] # "SET"
      BY <1>6, <3>1 DEF Posted
    <3>5. \A i \in DOMAIN P : i = Len(P) \/ i \in DOMAIN Q
      BY ONLY <3>3
    <3>6. \A i \in DOMAIN P : P[i] = "SET" => i = Len(P)
      BY ONLY <3>3, <3>4, <3>5
    <3>7. posted'[q][x] = P
      BY <1>5, <2>1, <3>1, <3>2
    <3> QED
      BY <1>2, <1>4, <2>1, <3>6, <3>7
  <2>2. CASE ~(q = p /\ x \in S)
    <3>1. ~Posted(q, x, "SET")'
      BY <1>5, <1>6, <2>2
    <3> QED
      BY <3>1 DEF Posted
  <2> QED
    BY <2>1, <2>2
<1>9. WordInv'
  BY <1>2, <1>7 DEF WordInv
<1>10. GroupInv'
  BY <1>2, <1>4, <1>7 DEF GroupInv
<1>11. FencedInv'
  <2> SUFFICES ASSUME NEW q \in Procs, proc'[q].pc \in {"barrier", "poll", "flushed"}, NEW x \in proc'[q].fenced,
                      \A i \in DOMAIN proc'[q].groups : x \notin proc'[q].groups[i]
               PROVE  ~Posted(q, x, "data")'
    BY DEF FencedInv
  <2>1. proc[q].pc \in {"barrier", "poll", "flushed"} /\ proc[q].fenced = proc'[q].fenced /\ proc[q].groups = proc'[q].groups
    BY <1>2
  <2>2. x \in env.cores
    BY <2>1 DEF LocksInv, ProcTypes, ClusterFields
  <2>3. ~Posted(q, x, "data")
    BY <2>1 DEF BarrierInv, FencedInv
  <2> QED
    BY <1>5, <2>2, <2>3
<1> QED
  BY <1>8, <1>9, <1>10, <1>11 DEF BarrierInv

LEMMA PollFlush ==
  ASSUME LocksInv, BarrierInv, NEW p \in Procs, Poll(p)
  PROVE  BarrierInv'
<1>1. CASE Aside(p)
  BY <1>1, AsideFlush
<1>2. CASE ~Aside(p)
  <2>1. /\ env' = env /\ UNCHANGED cores /\ proc[p].pc = "poll"
        /\ \A q \in Procs : q # p => proc'[q] = proc[q]
        /\ proc'[p].pc = "poll" /\ proc'[p].value = proc[p].value
        /\ proc'[p].groups = proc[p].groups /\ proc'[p].fenced = proc[p].fenced
        /\ \E x \in Head(proc[p].groups) \ proc[p].synced :
             flag[x] = proc[p].value /\ proc'[p].synced = proc[p].synced \cup {x}
    BY <1>2, PollStep
  <2>2. PICK y \in Head(proc[p].groups) \ proc[p].synced : flag[y] = proc[p].value /\ proc'[p].synced = proc[p].synced \cup {y}
    BY <2>1
  <2>3. \A q \in Procs : \A x : InGroup(q, x)' <=> InGroup(q, x)
    BY <2>1 DEF InGroup
  <2>4. \A q \in Procs : \A x, v : Posted(q, x, v)' <=> Posted(q, x, v)
    BY <2>1 DEF Posted, cores
  <2>5. flag' = flag /\ posted' = posted
    BY <2>1 DEF cores
  <2>6. InGroup(p, y) /\ y \in env.cores
    <3>1. Head(proc[p].groups) \subseteq env.cores
      BY <2>1, HeadType DEF LocksInv, ControlInv
    <3> QED
      BY <2>1, <2>2, <3>1 DEF InGroup
  <2>7. proc[p].value = "SET" => posted[p][y] = <<>> /\ ~Posted(p, y, "SET")
    <3>1. proc[p].value = "SET" => posted[p][y] = <<>>
      BY <2>2, <2>6 DEF BarrierInv, GroupInv
    <3>2. posted[p][y] = <<>> => ~Posted(p, y, "SET")
      BY DEF Posted
    <3> QED
      BY <3>1, <3>2
  <2>8. SetInv'
    <3> SUFFICES ASSUME NEW q \in Procs, NEW x \in env.cores
                 PROVE  /\ Posted(q, x, "SET")' => InGroup(q, x)' /\ proc'[q].value = "SET" /\ x \notin proc'[q].synced
                        /\ \A i \in DOMAIN posted'[q][x] : posted'[q][x][i] = "SET" => i = Len(posted'[q][x])
      BY <2>1 DEF SetInv
    <3>1. \A i \in DOMAIN posted'[q][x] : posted'[q][x][i] = "SET" => i = Len(posted'[q][x])
      BY <2>5 DEF BarrierInv, SetInv
    <3>2. CASE Posted(q, x, "SET")
      <4>1. InGroup(q, x) /\ proc[q].value = "SET" /\ x \notin proc[q].synced
        BY <3>2 DEF BarrierInv, SetInv
      <4>2. q = p
        BY <2>6, <4>1, OneHolder
      <4>3. x # y
        BY <2>7, <3>2, <4>1, <4>2
      <4> QED
        BY <2>1, <2>2, <2>3, <3>1, <4>1, <4>2, <4>3
    <3> QED
      BY <2>4, <3>1, <3>2
  <2>9. WordInv'
    <3> SUFFICES ASSUME NEW x \in env.cores, flag[x] = "SET"
                 PROVE  InGroup(p, x)' /\ (proc'[p].value = "RESET" => x \notin proc'[p].synced)
      BY <2>1, <2>5 DEF WordInv
    <3>1. PICK q \in Procs : InGroup(q, x) /\ (proc[q].value = "RESET" => x \notin proc[q].synced)
      BY DEF BarrierInv, WordInv
    <3>2. q = p
      BY <2>6, <3>1, OneHolder
    <3> QED
      BY <2>1, <2>2, <2>3, <3>1, <3>2
  <2>10. GroupInv'
    <3> SUFFICES ASSUME NEW q \in Procs, NEW x \in env.cores, InGroup(q, x)'
                 PROVE  /\ proc'[q].value = "SET" /\ (flag[x] = "SET" \/ x \in proc'[q].synced) => posted[q][x] = <<>>
                        /\ proc'[q].value = "RESET" => posted[q][x] \in {<<>>, <<"RESET">>}
      BY <2>1, <2>5 DEF GroupInv
    <3>1. InGroup(q, x) /\ q = p
      BY <2>3, <2>6, OneHolder
    <3> QED
      BY <2>1, <2>2, <2>7, <3>1 DEF BarrierInv, GroupInv
  <2>11. FencedInv'
    BY <2>1, <2>4 DEF BarrierInv, FencedInv
  <2> QED
    BY <2>8, <2>9, <2>10, <2>11 DEF BarrierInv
<1> QED
  BY <1>1, <1>2

(* The queues a word may be in, when it is short.                            *)
LEMMA ShortQueue ==
  /\ \A i \in DOMAIN <<>> : FALSE
  /\ \A i \in DOMAIN <<"RESET">> : <<"RESET">>[i] = "RESET"
  /\ Append(<<>>, "RESET") = <<"RESET">>
  OBVIOUS

LEMMA SyncedFlush ==
  ASSUME LocksInv, BarrierInv, NEW p \in Procs, Synced(p)
  PROVE  BarrierInv'
<1>1. CASE Aside(p) \/ \E S : Posts(p, S, "RESET")
  BY <1>1, AsideFlush, PostsFlush
<1>2. CASE ~(Aside(p) \/ \E S : Posts(p, S, "RESET"))
  <2>1. PICK S : S = Head(proc[p].groups)
    OBVIOUS
  <2>2. /\ env' = env /\ flag' = flag /\ proc[p].pc = "poll" /\ proc[p].synced = S
        /\ \A q \in Procs : q # p => proc'[q] = proc[q]
        /\ proc'[p].fenced = proc[p].fenced
        /\ \/ /\ proc[p].value = "SET" /\ proc'[p].pc = "poll" /\ proc'[p].value = "RESET" /\ proc'[p].synced = {}
              /\ proc'[p].groups = proc[p].groups /\ posted' = Post(p, S, "RESET")
           \/ /\ proc[p].value = "RESET" /\ proc'[p].pc = "barrier" /\ proc'[p].groups = Tail(proc[p].groups)
              /\ posted' = posted
    BY <1>2, <2>1, SyncedStep
  <2>3. \A q \in Procs : \A x : InGroup(q, x) <=> (q = p /\ x \in S)
    BY <2>1, <2>2 DEF LocksInv, ControlInv, InGroup
  <2>4. CASE proc[p].value = "SET"
    <3>1. /\ proc'[p].pc = "poll" /\ proc'[p].value = "RESET" /\ proc'[p].synced = {}
          /\ proc'[p].groups = proc[p].groups /\ posted' = Post(p, S, "RESET")
      BY <2>2, <2>4
    <3>2. \A q \in Procs : \A x : InGroup(q, x)' <=> InGroup(q, x)
      BY <2>2, <3>1 DEF InGroup
    <3>3. /\ \A q \in Procs : \A x \in env.cores :
               ~(q = p /\ x \in S) => posted'[q][x] = posted[q][x] /\ \A v : Posted(q, x, v)' <=> Posted(q, x, v)
          /\ \A x \in env.cores : x \in S =>
               /\ posted'[p][x] = Append(posted[p][x], "RESET")
               /\ \A v : Posted(p, x, v)' <=> (Posted(p, x, v) \/ v = "RESET")
      BY <3>1, PostHolds DEF LocksInv, Words
    <3>4. \A x \in env.cores : x \in S => posted[p][x] = <<>> /\ posted'[p][x] = <<"RESET">>
      <4>1. \A x \in env.cores : x \in S => posted[p][x] = <<>>
        BY <2>2, <2>3, <2>4 DEF BarrierInv, GroupInv
      <4> QED
        BY <3>3, <4>1, ShortQueue
    <3>5. \A x \in env.cores : x \in S => \A v : ~Posted(p, x, v)
      BY <3>4, ShortQueue DEF Posted
    <3>6. \A q \in Procs : \A x \in env.cores : ~Posted(q, x, "SET")'
      <4>1. \A q \in Procs : \A x \in env.cores : ~(q = p /\ x \in S) => ~Posted(q, x, "SET")
        BY <2>3 DEF BarrierInv, SetInv
      <4> QED
        BY <3>3, <3>5, <4>1
    <3>7. SetInv'
      <4>1. \A q \in Procs : \A x \in env.cores : \A i \in DOMAIN posted'[q][x] : posted'[q][x][i] # "SET"
        BY <3>6 DEF Posted
      <4> QED
        BY <2>2, <3>6, <4>1 DEF SetInv
    <3>8. WordInv'
      <4> SUFFICES ASSUME NEW x \in env.cores, flag[x] = "SET"
                   PROVE  InGroup(p, x)' /\ (proc'[p].value = "RESET" => x \notin proc'[p].synced)
        BY <2>2 DEF WordInv
      <4>1. PICK q \in Procs : InGroup(q, x)
        BY DEF BarrierInv, WordInv
      <4> QED
        BY <2>3, <3>1, <3>2, <4>1
    <3>9. GroupInv'
      <4> SUFFICES ASSUME NEW q \in Procs, NEW x \in env.cores, InGroup(q, x)'
                   PROVE  /\ proc'[q].value = "SET" /\ (flag[x] = "SET" \/ x \in proc'[q].synced) => posted'[q][x] = <<>>
                          /\ proc'[q].value = "RESET" => posted'[q][x] \in {<<>>, <<"RESET">>}
        BY <2>2 DEF GroupInv
      <4>1. q = p /\ x \in S
        BY <2>3, <3>2
      <4> QED
        BY <3>1, <3>4, <4>1
    <3>10. FencedInv'
      <4> SUFFICES ASSUME NEW q \in Procs, proc'[q].pc \in {"barrier", "poll", "flushed"}, NEW x \in proc'[q].fenced,
                          \A i \in DOMAIN proc'[q].groups : x \notin proc'[q].groups[i]
                   PROVE  ~Posted(q, x, "data")'
        BY DEF FencedInv
      <4>1. proc[q].pc \in {"barrier", "poll", "flushed"} /\ proc[q].fenced = proc'[q].fenced /\ proc[q].groups = proc'[q].groups
        BY <2>2, <3>1
      <4>2. x \in env.cores
        BY <4>1 DEF LocksInv, ProcTypes, ClusterFields
      <4>3. ~Posted(q, x, "data")
        BY <4>1 DEF BarrierInv, FencedInv
      <4> QED
        BY <3>3, <4>2, <4>3
    <3> QED
      BY <3>7, <3>8, <3>9, <3>10 DEF BarrierInv
  <2>5. CASE proc[p].value = "RESET"
    <3>1. proc'[p].pc = "barrier" /\ proc'[p].groups = Tail(proc[p].groups) /\ posted' = posted
      BY <2>2, <2>5
    <3>2. \A q \in Procs : \A x : ~InGroup(q, x)'
      <4>1. \A q \in Procs : q # p => \A x : InGroup(q, x)' <=> InGroup(q, x)
        BY <2>2 DEF InGroup
      <4>2. \A x : ~InGroup(p, x)'
        BY <3>1 DEF InGroup
      <4> QED
        BY <2>3, <4>1, <4>2
    <3>3. \A q \in Procs : \A x, v : Posted(q, x, v)' <=> Posted(q, x, v)
      BY <3>1 DEF Posted
    <3>4. \A q \in Procs : \A x \in env.cores : ~Posted(q, x, "SET")
      BY <2>3, <2>5 DEF BarrierInv, SetInv
    <3>5. SetInv'
      BY <2>2, <3>1, <3>3, <3>4 DEF BarrierInv, SetInv
    <3>6. WordInv'
      <4>1. \A x \in env.cores : flag[x] # "SET"
        BY <2>2, <2>3, <2>5 DEF BarrierInv, WordInv
      <4> QED
        BY <2>2, <4>1 DEF WordInv
    <3>7. GroupInv'
      BY <3>2 DEF GroupInv
    <3>8. FencedInv'
      <4> SUFFICES ASSUME NEW q \in Procs, proc'[q].pc \in {"barrier", "poll", "flushed"}, NEW x \in proc'[q].fenced,
                          \A i \in DOMAIN proc'[q].groups : x \notin proc'[q].groups[i]
                   PROVE  ~Posted(q, x, "data")
        BY <3>3 DEF FencedInv
      <4>1. CASE q # p
        BY <2>2, <4>1 DEF BarrierInv, FencedInv
      <4>2. CASE q = p /\ x \in S
        <5>1. x \in env.cores
          BY <2>2, <4>2 DEF LocksInv, ProcTypes, ClusterFields
        <5>2. posted[p][x] \in {<<>>, <<"RESET">>}
          BY <2>3, <2>5, <4>2, <5>1 DEF BarrierInv, GroupInv
        <5> QED
          BY <4>2, <5>2, ShortQueue DEF Posted
      <4>3. CASE q = p /\ x \notin S
        <5>1. PICK G : G = proc[p].groups
          OBVIOUS
        <5>2. G \in Seq(SUBSET env.cores) /\ G # <<>>
          BY <2>2, <5>1 DEF LocksInv, ProcTypes, ClusterFields, ControlInv
        <5>3. \A i \in DOMAIN G : i = 1 \/ (i - 1 \in DOMAIN Tail(G) /\ Tail(G)[i - 1] = G[i])
          BY ONLY <5>2
        <5>4. Head(G) = G[1]
          BY ONLY <5>2
        <5>6. x \notin G[1]
          BY <2>1, <4>3, <5>1, <5>4
        <5>7. PICK H : H = Tail(G)
          OBVIOUS
        <5>8. \A j \in DOMAIN H : x \notin H[j]
          BY <3>1, <4>3, <5>1, <5>7
        <5>5. \A i \in DOMAIN G : x \notin G[i]
          BY ONLY <5>3, <5>6, <5>7, <5>8
        <5> QED
          BY <2>2, <4>3, <5>1, <5>5 DEF BarrierInv, FencedInv
      <4> QED
        BY <4>1, <4>2, <4>3
    <3> QED
      BY <3>5, <3>6, <3>7, <3>8 DEF BarrierInv
  <2> QED
    BY <2>2, <2>4, <2>5
<1> QED
  BY <1>1, <1>2

(* What is left of a queue.                                                  *)
LEMMA TailHolds ==
  ASSUME NEW Q \in Seq(Words), Q # <<>>
  PROVE  /\ Len(Q) \in Nat /\ Len(Q) > 0 /\ DOMAIN Q = 1 .. Len(Q) /\ Head(Q) = Q[1] /\ Head(Q) \in Words
         /\ Len(Tail(Q)) = Len(Q) - 1 /\ DOMAIN Tail(Q) = 1 .. (Len(Q) - 1)
         /\ \A i \in DOMAIN Tail(Q) : i + 1 \in DOMAIN Q /\ Tail(Q)[i] = Q[i + 1]
         /\ Len(Q) = 1 => Tail(Q) = <<>>
<1>1. Len(Q) \in Nat /\ Len(Q) > 0 /\ DOMAIN Q = 1 .. Len(Q) /\ Head(Q) = Q[1] /\ Head(Q) \in Words
  OBVIOUS
<1>2. PICK T : T = Tail(Q) /\ T \in Seq(Words)
  <2>1. Tail(Q) \in Seq(Words)
    OBVIOUS
  <2> QED
    BY <2>1
<1>3. Len(T) = Len(Q) - 1 /\ DOMAIN T = 1 .. (Len(Q) - 1) /\ \A i \in 1 .. (Len(Q) - 1) : T[i] = Q[i + 1]
  BY <1>2
<1>4. \A i \in DOMAIN T : i + 1 \in DOMAIN Q /\ T[i] = Q[i + 1]
  BY <1>1, <1>3
<1>5. Len(T) = 0 => T = <<>>
  OBVIOUS
<1> QED
  BY <1>1, <1>2, <1>3, <1>4, <1>5

LEMMA LandFlush ==
  ASSUME LocksInv, BarrierInv, NEW p \in Procs, NEW x \in env.cores, Land(p, x)
  PROVE  BarrierInv'
<1>1. PICK Q \in Seq(Words) : Q = posted[p][x] /\ Q # <<>>
  BY LandStep
<1>2. PICK T : T = Tail(Q)
  OBVIOUS
<1>3. /\ env' = env /\ proc' = proc /\ posted'[p][x] = T
      /\ \A q \in Procs : \A y \in env.cores : q # p \/ y # x => posted'[q][y] = posted[q][y]
      /\ \A y \in env.cores : y # x => flag'[y] = flag[y]
      /\ flag'[x] = IF Head(Q) = "data" THEN flag[x] ELSE Head(Q)
  BY <1>1, <1>2, LandStep
<1>4. /\ Len(Q) \in Nat /\ Len(Q) > 0 /\ DOMAIN Q = 1 .. Len(Q) /\ Head(Q) = Q[1] /\ Head(Q) \in Words
      /\ Len(T) = Len(Q) - 1 /\ DOMAIN T = 1 .. (Len(Q) - 1)
      /\ \A i \in DOMAIN T : i + 1 \in DOMAIN Q /\ T[i] = Q[i + 1]
      /\ Len(Q) = 1 => T = <<>>
  BY <1>1, <1>2, TailHolds
<1>5. 1 \in DOMAIN Q
  BY ONLY <1>4
<1>6. \A q \in Procs : \A y : InGroup(q, y)' <=> InGroup(q, y)
  BY <1>3 DEF InGroup
<1>7. \A q \in Procs : \A y \in env.cores : \A v : Posted(q, y, v)' => Posted(q, y, v)
  <2>1. \A q \in Procs : \A y \in env.cores : q # p \/ y # x => \A v : Posted(q, y, v)' => Posted(q, y, v)
    BY <1>3 DEF Posted
  <2>2. \A v : Posted(p, x, v)' => Posted(p, x, v)
    BY <1>1, <1>3, <1>4 DEF Posted
  <2> QED
    BY <2>1, <2>2
<1>8. Head(Q) = "SET" => InGroup(p, x) /\ proc[p].value = "SET" /\ T = <<>>
  <2> SUFFICES ASSUME Head(Q) = "SET"
               PROVE  InGroup(p, x) /\ proc[p].value = "SET" /\ T = <<>>
    OBVIOUS
  <2>1. Posted(p, x, "SET")
    BY <1>1, <1>4, <1>5 DEF Posted
  <2>2. 1 = Len(Q)
    BY <1>1, <1>4, <1>5 DEF BarrierInv, SetInv
  <2> QED
    BY <1>4, <2>1, <2>2 DEF BarrierInv, SetInv
<1>9. SetInv'
  <2> SUFFICES ASSUME NEW q \in Procs, NEW y \in env.cores
               PROVE  /\ Posted(q, y, "SET")' => InGroup(q, y)' /\ proc'[q].value = "SET" /\ y \notin proc'[q].synced
                      /\ \A i \in DOMAIN posted'[q][y] : posted'[q][y][i] = "SET" => i = Len(posted'[q][y])
    BY <1>3 DEF SetInv
  <2>1. Posted(q, y, "SET")' => InGroup(q, y)' /\ proc'[q].value = "SET" /\ y \notin proc'[q].synced
    BY <1>3, <1>6, <1>7 DEF BarrierInv, SetInv
  <2>2. CASE q # p \/ y # x
    <3>1. posted'[q][y] = posted[q][y]
      BY <1>3, <2>2
    <3> QED
      BY <2>1, <3>1 DEF BarrierInv, SetInv
  <2>3. CASE q = p /\ y = x
    <3>1. \A i \in DOMAIN Q : Q[i] = "SET" => i = Len(Q)
      BY <1>1 DEF BarrierInv, SetInv
    <3>2. \A i \in DOMAIN T : T[i] = "SET" => i + 1 = Len(Q)
      BY <1>4, <3>1
    <3>3. \A i \in DOMAIN T : T[i] = "SET" => i = Len(T)
      BY <1>4, <3>2
    <3> QED
      BY <1>3, <2>1, <2>3, <3>3
  <2> QED
    BY <2>2, <2>3
<1>10. WordInv'
  <2> SUFFICES ASSUME NEW y \in env.cores, flag'[y] = "SET"
               PROVE  \E q \in Procs : InGroup(q, y) /\ (proc[q].value = "RESET" => y \notin proc[q].synced)
    BY <1>3, <1>6 DEF WordInv
  <2>1. CASE flag[y] = "SET"
    BY <2>1 DEF BarrierInv, WordInv
  <2>2. CASE flag[y] # "SET"
    <3>1. y = x /\ Head(Q) = "SET"
      BY <1>3, <2>2
    <3> QED
      BY <1>8, <3>1
  <2> QED
    BY <2>1, <2>2
<1>11. GroupInv'
  <2> SUFFICES ASSUME NEW q \in Procs, NEW y \in env.cores, InGroup(q, y)
               PROVE  /\ proc[q].value = "SET" /\ (flag'[y] = "SET" \/ y \in proc[q].synced) => posted'[q][y] = <<>>
                      /\ proc[q].value = "RESET" => posted'[q][y] \in {<<>>, <<"RESET">>}
    BY <1>3, <1>6 DEF GroupInv
  <2>1. /\ proc[q].value = "SET" /\ (flag[y] = "SET" \/ y \in proc[q].synced) => posted[q][y] = <<>>
        /\ proc[q].value = "RESET" => posted[q][y] \in {<<>>, <<"RESET">>}
    BY DEF BarrierInv, GroupInv
  <2>2. CASE q = p /\ y = x
    <3>1. proc[q].value = "RESET" => T = <<>>
      <4>1. Len(<<"RESET">>) = 1
        OBVIOUS
      <4> QED
        BY <1>1, <1>4, <2>1, <2>2, <4>1
    <3>2. proc[q].value = "SET" => flag[x] # "SET" /\ x \notin proc[q].synced
      BY <1>1, <2>1, <2>2
    <3>3. proc[q].value = "SET" /\ flag'[x] = "SET" => T = <<>>
      BY <1>3, <1>8, <3>2
    <3> QED
      BY <1>3, <2>2, <3>1, <3>2, <3>3
  <2>3. CASE q # p \/ y # x
    <3>1. posted'[q][y] = posted[q][y]
      BY <1>3, <2>3
    <3>2. flag'[y] = "SET" => flag[y] = "SET"
      <4>1. CASE y # x
        BY <1>3, <4>1
      <4>2. CASE y = x
        <5>1. q # p
          BY <2>3, <4>2
        <5>2. Head(Q) # "SET"
          BY <1>8, <4>2, <5>1, OneHolder
        <5> QED
          BY <1>3, <4>2, <5>2
      <4> QED
        BY <4>1, <4>2
    <3> QED
      BY <2>1, <3>1, <3>2
  <2> QED
    BY <2>2, <2>3
<1>12. FencedInv'
  <2> SUFFICES ASSUME NEW q \in Procs, proc[q].pc \in {"barrier", "poll", "flushed"}, NEW y \in proc[q].fenced,
                      \A i \in DOMAIN proc[q].groups : y \notin proc[q].groups[i]
               PROVE  ~Posted(q, y, "data")'
    BY <1>3 DEF FencedInv
  <2>1. y \in env.cores
    BY DEF LocksInv, ProcTypes, ClusterFields
  <2> QED
    BY <1>7, <2>1 DEF BarrierInv, FencedInv
<1> QED
  BY <1>9, <1>10, <1>11, <1>12 DEF BarrierInv

------------------------------------------------------------------------------
(* Barriers converge where nobody starts a chip. *)

LEMMA AsideSettled ==
  ASSUME LocksInv, Settled, Quiet, NEW p \in Procs, Aside(p)
  PROVE  Settled'
<1>1. \A q \in Procs : \A x : InGroup(q, x)' <=> InGroup(q, x)
  BY DEF Aside, InGroup, InBarrier
<1>2. \A q \in Procs : \A x, v : Posted(q, x, v)' <=> Posted(q, x, v)
  BY DEF Aside, Posted
<1>3. \A q \in Procs : \A x : InGroup(q, x) => proc'[q] = proc[q]
  BY DEF Aside, InGroup, InBarrier
<1>4. env' = env /\ flag' = flag /\ posted' = posted
  BY DEF Aside
<1>5. \A q \in Procs : /\ proc'[q].pc \in {"none", "idle", "barrier", "poll", "flushed"}
                       /\ proc'[q].pc \in {"barrier", "poll", "flushed"} => proc'[q].then = "idle"
  <2>1. proc[p].pc \in {"none", "idle"}
    BY DEF Settled, Aside, InBarrier
  <2> QED
    BY <2>1 DEF Settled, Aside
<1> QED
  BY <1>1, <1>2, <1>3, <1>4, <1>5 DEF Settled

LEMMA AloofSettled ==
  ASSUME Settled, Aloof
  PROVE  Settled'
<1>1. \A q \in Procs : \A x : InGroup(q, x)' <=> InGroup(q, x)
  BY DEF Aloof, InGroup
<1>2. \A q \in Procs : \A x, v : Posted(q, x, v)' <=> Posted(q, x, v)
  BY DEF Aloof, Posted
<1> QED
  BY <1>1, <1>2 DEF Settled, Aloof

LEMMA PostsSettled ==
  ASSUME LocksInv, Settled, Quiet, NEW p \in Procs, NEW S, NEW w \in {"data", "RESET"}, Posts(p, S, w)
  PROVE  Settled'
<1>1. \A q \in Procs : \A x : InGroup(q, x)' <=> InGroup(q, x)
  BY DEF Posts, InGroup, InBarrier
<1>2. \A q \in Procs : \A x : InGroup(q, x) => q # p /\ proc'[q] = proc[q]
  BY DEF Posts, InGroup, InBarrier
<1>3. w = "data" /\ proc'[p].pc = proc[p].pc /\ proc[p].pc \notin InBarrier
  BY DEF Posts, Settled
<1>4. env' = env /\ flag' = flag /\ posted' = Post(p, S, w)
  BY DEF Posts
<1>5. /\ \A q \in Procs : \A x \in env.cores :
           ~(q = p /\ x \in S) => posted'[q][x] = posted[q][x] /\ \A v : Posted(q, x, v)' <=> Posted(q, x, v)
      /\ \A x \in env.cores : x \in S => \A v : Posted(p, x, v)' <=> (Posted(p, x, v) \/ v = w)
  BY <1>4, PostHolds DEF LocksInv, Words
<1>6. \A q \in Procs : \A x \in env.cores : Posted(q, x, "RESET")' <=> Posted(q, x, "RESET")
  BY <1>3, <1>5
<1>7. \A q \in Procs : \A x \in env.cores : InGroup(q, x) =>
        posted'[q][x] = posted[q][x] /\ \A v : Posted(q, x, v)' <=> Posted(q, x, v)
  BY <1>2, <1>5
<1>8. \A q \in Procs : /\ proc'[q].pc \in {"none", "idle", "barrier", "poll", "flushed"}
                       /\ proc'[q].pc \in {"barrier", "poll", "flushed"} => proc'[q].then = "idle"
  BY <1>3 DEF Settled, Posts, InBarrier
<1> QED
  BY <1>1, <1>2, <1>4, <1>6, <1>7, <1>8 DEF Settled

LEMMA CalmSettled ==
  ASSUME LocksInv, Settled, NEW p \in Procs, env' = env, UNCHANGED cores,
         \A q \in Procs : q # p => proc'[q] = proc[q],
         proc[p].pc # "poll",
         proc'[p].pc = "idle" \/ (proc'[p].pc \in {"barrier", "flushed"} /\ proc'[p].then = "idle")
  PROVE  Settled'
<1>1. \A q \in Procs : \A x : InGroup(q, x)' <=> InGroup(q, x)
  BY DEF InGroup
<1>2. \A q \in Procs : \A x, v : Posted(q, x, v)' <=> Posted(q, x, v)
  BY DEF Posted, cores
<1>3. \A q \in Procs : \A x : InGroup(q, x) => proc'[q] = proc[q]
  BY DEF InGroup
<1>4. flag' = flag /\ posted' = posted
  BY DEF cores
<1>5. \A q \in Procs : /\ proc'[q].pc \in {"none", "idle", "barrier", "poll", "flushed"}
                       /\ proc'[q].pc \in {"barrier", "poll", "flushed"} => proc'[q].then = "idle"
  BY DEF Settled
<1> QED
  BY <1>1, <1>2, <1>3, <1>4, <1>5 DEF Settled

LEMMA CallsSettled ==
  ASSUME LocksInv, Settled, NEW p \in Procs, L1Membar(p) \/ BarrierReturns(p) \/ AfterBarrier(p)
  PROVE  Settled'
<1>1. CASE L1Membar(p)
  <2>1. proc[p].pc = "idle"
    BY <1>1, L1MembarStep DEF Settled
  <2> QED
    BY <1>1, <2>1, L1MembarStep, CalmSettled
<1>2. CASE BarrierReturns(p)
  <2>1. proc[p].then = "idle"
    BY <1>2, ReturnStep DEF Settled
  <2> QED
    BY <1>2, <2>1, ReturnStep, CalmSettled
<1>3. CASE AfterBarrier(p)
  <2>1. proc[p].then = "idle"
    BY <1>3, AfterStep DEF Settled
  <2> QED
    BY <1>3, <2>1, AfterStep, CalmSettled
<1> QED
  BY <1>1, <1>2, <1>3

LEMMA BeginSettled ==
  ASSUME LocksInv, BarrierInv, Settled, NEW p \in Procs, BeginBarrier(p)
  PROVE  Settled'
<1>1. PICK S : S = Head(proc[p].groups)
  OBVIOUS
<1>2. /\ env' = env /\ flag' = flag /\ barrier = None /\ posted' = Post(p, S, "SET")
      /\ \A q \in Procs : q # p => proc'[q] = proc[q]
      /\ proc[p].pc = "barrier" /\ proc'[p].pc = "poll" /\ proc'[p].then = proc[p].then
      /\ proc'[p].value = "SET" /\ proc'[p].synced = {} /\ proc'[p].groups = proc[p].groups
  BY <1>1, BeginStep
<1>3. \A q \in Procs : \A x : ~InGroup(q, x)
  BY <1>2, EnvFacts DEF LocksInv, DevTypes, ControlInv, InGroup
<1>4. \A q \in Procs : \A x : InGroup(q, x)' <=> q = p /\ x \in S
  BY <1>1, <1>2, <1>3 DEF InGroup
<1>5. /\ \A q \in Procs : \A x \in env.cores :
           ~(q = p /\ x \in S) => \A v : Posted(q, x, v)' <=> Posted(q, x, v)
      /\ \A x \in env.cores : x \in S => \A v : Posted(p, x, v)' <=> (Posted(p, x, v) \/ v = "SET")
  BY <1>2, PostHolds DEF LocksInv, Words
<1>6. \A q \in Procs : \A x \in env.cores : ~Posted(q, x, "RESET")'
  <2>1. \A q \in Procs : \A x \in env.cores : ~Posted(q, x, "RESET")
    BY <1>3 DEF Settled
  <2> QED
    BY <1>5, <2>1
<1>7. \A x \in env.cores : flag[x] # "SET"
  BY <1>3 DEF BarrierInv, WordInv
<1>8. \A q \in Procs : /\ proc'[q].pc \in {"none", "idle", "barrier", "poll", "flushed"}
                       /\ proc'[q].pc \in {"barrier", "poll", "flushed"} => proc'[q].then = "idle"
  BY <1>2 DEF Settled
<1> QED
  BY <1>2, <1>4, <1>5, <1>6, <1>7, <1>8 DEF Settled

LEMMA PollSettled ==
  ASSUME LocksInv, BarrierInv, Settled, Quiet, NEW p \in Procs, Poll(p)
  PROVE  Settled'
<1>1. CASE Aside(p)
  BY <1>1, AsideSettled
<1>2. CASE ~Aside(p)
  <2>1. /\ env' = env /\ UNCHANGED cores /\ proc[p].pc = "poll"
        /\ \A q \in Procs : q # p => proc'[q] = proc[q]
        /\ proc'[p].pc = "poll" /\ proc'[p].then = proc[p].then /\ proc'[p].value = proc[p].value
        /\ proc'[p].groups = proc[p].groups
        /\ \E x \in Head(proc[p].groups) \ proc[p].synced :
             flag[x] = proc[p].value /\ proc'[p].synced = proc[p].synced \cup {x}
    BY <1>2, PollStep
  <2>2. PICK y \in Head(proc[p].groups) \ proc[p].synced : flag[y] = proc[p].value /\ proc'[p].synced = proc[p].synced \cup {y}
    BY <2>1
  <2>3. \A q \in Procs : \A x : InGroup(q, x)' <=> InGroup(q, x)
    BY <2>1 DEF InGroup
  <2>4. \A q \in Procs : \A x, v : Posted(q, x, v)' <=> Posted(q, x, v)
    BY <2>1 DEF Posted, cores
  <2>5. flag' = flag /\ posted' = posted
    BY <2>1 DEF cores
  <2>6. InGroup(p, y) /\ y \in env.cores
    <3>1. Head(proc[p].groups) \subseteq env.cores
      BY <2>1, HeadType DEF LocksInv, ControlInv
    <3> QED
      BY <2>1, <2>2, <3>1 DEF InGroup
  <2>7. ~Posted(p, y, "RESET")
    <3>1. posted[p][y] = <<>>
      BY <2>2, <2>6 DEF Settled
    <3> QED
      BY <3>1, ShortQueue DEF Posted
  <2>8. \A q \in Procs : \A x \in env.cores : InGroup(q, x) => q = p
    BY <2>6, OneHolder
  <2>9. ASSUME NEW q \in Procs
        PROVE  /\ proc'[q].pc \in {"none", "idle", "barrier", "poll", "flushed"}
               /\ proc'[q].pc \in {"barrier", "poll", "flushed"} => proc'[q].then = "idle"
    BY <2>1 DEF Settled
  <2>10. ASSUME NEW q \in Procs, NEW x \in env.cores
         PROVE  Posted(q, x, "RESET") => InGroup(q, x) /\ proc'[q].value = "RESET" /\ x \notin proc'[q].synced
    <3> SUFFICES ASSUME Posted(q, x, "RESET")
                 PROVE  InGroup(q, x) /\ proc'[q].value = "RESET" /\ x \notin proc'[q].synced
      OBVIOUS
    <3>1. InGroup(q, x) /\ proc[q].value = "RESET" /\ x \notin proc[q].synced
      BY DEF Settled
    <3>2. q = p /\ x # y
      BY <2>7, <2>8, <3>1
    <3> QED
      BY <2>1, <2>2, <3>1, <3>2
  <2>11. ASSUME NEW q \in Procs, NEW x \in env.cores, InGroup(q, x)
         PROVE  /\ x \in proc'[q].synced => flag[x] = proc'[q].value
                /\ x \notin proc'[q].synced => flag[x] = proc'[q].value \/ Posted(q, x, proc'[q].value)
                /\ flag[x] = proc'[q].value => posted[q][x] = <<>>
    <3>1. q = p
      BY <2>8, <2>11
    <3>2. /\ x \in proc[p].synced => flag[x] = proc[p].value
          /\ x \notin proc[p].synced => flag[x] = proc[p].value \/ Posted(p, x, proc[p].value)
          /\ flag[x] = proc[p].value => posted[p][x] = <<>>
      BY <2>11, <3>1 DEF Settled
    <3> QED
      BY <2>1, <2>2, <3>1, <3>2
  <2> QED
    BY <2>1, <2>3, <2>4, <2>5, <2>9, <2>10, <2>11 DEF Settled
<1> QED
  BY <1>1, <1>2

LEMMA SyncedSettled ==
  ASSUME LocksInv, BarrierInv, Settled, Quiet, NEW p \in Procs, Synced(p)
  PROVE  Settled'
<1>1. CASE Aside(p) \/ \E S : Posts(p, S, "RESET")
  BY <1>1, AsideSettled, PostsSettled
<1>2. CASE ~(Aside(p) \/ \E S : Posts(p, S, "RESET"))
  <2>1. PICK S : S = Head(proc[p].groups)
    OBVIOUS
  <2>2. /\ env' = env /\ flag' = flag /\ proc[p].pc = "poll" /\ proc[p].synced = S
        /\ \A q \in Procs : q # p => proc'[q] = proc[q]
        /\ proc'[p].then = proc[p].then
        /\ \/ /\ proc[p].value = "SET" /\ proc'[p].pc = "poll" /\ proc'[p].value = "RESET" /\ proc'[p].synced = {}
              /\ proc'[p].groups = proc[p].groups /\ posted' = Post(p, S, "RESET")
           \/ /\ proc[p].value = "RESET" /\ proc'[p].pc = "barrier" /\ posted' = posted
    BY <1>2, <2>1, SyncedStep
  <2>3. \A q \in Procs : \A x : InGroup(q, x) <=> (q = p /\ x \in S)
    BY <2>1, <2>2 DEF LocksInv, ControlInv, InGroup
  <2>4. \A q \in Procs : /\ proc'[q].pc \in {"none", "idle", "barrier", "poll", "flushed"}
                         /\ proc'[q].pc \in {"barrier", "poll", "flushed"} => proc'[q].then = "idle"
    BY <2>2 DEF Settled
  <2>5. \A q \in Procs : \A x \in env.cores : ~Posted(q, x, "RESET")
    BY <2>2, <2>3 DEF Settled
  <2>6. CASE proc[p].value = "SET"
    <3>1. /\ proc'[p].pc = "poll" /\ proc'[p].value = "RESET" /\ proc'[p].synced = {}
          /\ proc'[p].groups = proc[p].groups /\ posted' = Post(p, S, "RESET")
      BY <2>2, <2>6
    <3>2. \A q \in Procs : \A x : InGroup(q, x)' <=> (q = p /\ x \in S)
      <4>1. \A q \in Procs : \A x : InGroup(q, x)' <=> InGroup(q, x)
        BY <2>2, <3>1 DEF InGroup
      <4> QED
        BY <2>3, <4>1
    <3>3. /\ \A q \in Procs : \A x \in env.cores :
               ~(q = p /\ x \in S) => \A v : Posted(q, x, v)' <=> Posted(q, x, v)
          /\ \A x \in env.cores : x \in S => \A v : Posted(p, x, v)' <=> (Posted(p, x, v) \/ v = "RESET")
      BY <3>1, PostHolds DEF LocksInv, Words
    <3>4. \A x \in env.cores : x \in S => flag[x] # "RESET"
      BY <2>2, <2>3, <2>6 DEF Settled
    <3>5. \A q \in Procs : \A x \in env.cores : Posted(q, x, "RESET")' <=> (q = p /\ x \in S)
      BY <2>5, <3>3
    <3> QED
      BY <2>2, <2>4, <3>1, <3>2, <3>4, <3>5 DEF Settled
  <2>7. CASE proc[p].value = "RESET"
    <3>1. proc'[p].pc = "barrier" /\ posted' = posted
      BY <2>2, <2>7
    <3>2. \A q \in Procs : \A x : ~InGroup(q, x)'
      <4>1. \A q \in Procs : q # p => \A x : InGroup(q, x)' <=> InGroup(q, x)
        BY <2>2 DEF InGroup
      <4>2. \A x : ~InGroup(p, x)'
        BY <3>1 DEF InGroup
      <4> QED
        BY <2>3, <4>1, <4>2
    <3>3. \A q \in Procs : \A x \in env.cores : ~Posted(q, x, "RESET")'
      <4>1. \A q \in Procs : \A x \in env.cores : Posted(q, x, "RESET")' <=> Posted(q, x, "RESET")
        BY <3>1 DEF Posted
      <4> QED
        BY <2>5, <4>1
    <3> QED
      BY <2>2, <2>4, <3>2, <3>3 DEF Settled
  <2> QED
    BY <2>2, <2>6, <2>7
<1> QED
  BY <1>1, <1>2

LEMMA LandSettled ==
  ASSUME LocksInv, BarrierInv, Settled, NEW p \in Procs, NEW x \in env.cores, Land(p, x)
  PROVE  Settled'
<1>1. PICK Q \in Seq(Words) : Q = posted[p][x] /\ Q # <<>>
  BY LandStep
<1>2. PICK T : T = Tail(Q)
  OBVIOUS
<1>3. /\ env' = env /\ proc' = proc /\ posted'[p][x] = T
      /\ \A q \in Procs : \A y \in env.cores : q # p \/ y # x => posted'[q][y] = posted[q][y]
      /\ \A y \in env.cores : y # x => flag'[y] = flag[y]
      /\ flag'[x] = IF Head(Q) = "data" THEN flag[x] ELSE Head(Q)
  BY <1>1, <1>2, LandStep
<1>4. /\ Len(Q) \in Nat /\ Len(Q) > 0 /\ DOMAIN Q = 1 .. Len(Q) /\ Head(Q) = Q[1] /\ Head(Q) \in Words
      /\ Len(T) = Len(Q) - 1 /\ DOMAIN T = 1 .. (Len(Q) - 1)
      /\ \A i \in DOMAIN T : i + 1 \in DOMAIN Q /\ T[i] = Q[i + 1]
      /\ Len(Q) = 1 => T = <<>>
  BY <1>1, <1>2, TailHolds
<1>5. 1 \in DOMAIN Q
  BY ONLY <1>4
<1>6. \A q \in Procs : \A y : InGroup(q, y)' <=> InGroup(q, y)
  BY <1>3 DEF InGroup
<1>7. \A q \in Procs : \A y \in env.cores : \A v : Posted(q, y, v)' => Posted(q, y, v)
  <2>1. \A q \in Procs : \A y \in env.cores : q # p \/ y # x => \A v : Posted(q, y, v)' => Posted(q, y, v)
    BY <1>3 DEF Posted
  <2>2. \A v : Posted(p, x, v)' => Posted(p, x, v)
    BY <1>1, <1>3, <1>4 DEF Posted
  <2> QED
    BY <2>1, <2>2
<1>8. \A q \in Procs : \A y \in env.cores : q # p \/ y # x => \A v : Posted(q, y, v)' <=> Posted(q, y, v)
  BY <1>3 DEF Posted
<1>9. Posted(p, x, Head(Q))
  BY <1>1, <1>4, <1>5 DEF Posted
(* A word that is not data comes from the holder, which waits for it.        *)
<1>10. Head(Q) # "data" => /\ InGroup(p, x) /\ Head(Q) = proc[p].value /\ x \notin proc[p].synced /\ T = <<>>
  <2>1. CASE Head(Q) = "SET"
    <3>1. InGroup(p, x) /\ proc[p].value = "SET" /\ x \notin proc[p].synced
      BY <1>9, <2>1 DEF BarrierInv, SetInv
    <3>2. 1 = Len(Q)
      BY <1>1, <1>4, <1>5, <2>1 DEF BarrierInv, SetInv
    <3> QED
      BY <1>4, <2>1, <3>1, <3>2
  <2>2. CASE Head(Q) = "RESET"
    <3>1. InGroup(p, x) /\ proc[p].value = "RESET" /\ x \notin proc[p].synced
      BY <1>9, <2>2 DEF Settled
    <3>2. Q \in {<<>>, <<"RESET">>}
      BY <1>1, <3>1 DEF BarrierInv, GroupInv
    <3>3. Len(<<"RESET">>) = 1
      OBVIOUS
    <3>4. T = <<>>
      BY <1>1, <1>4, <3>2, <3>3
    <3> QED
      BY <2>2, <3>1, <3>4
  <2> QED
    BY <1>4, <2>1, <2>2 DEF Words
<1>11. ASSUME NEW q \in Procs, NEW y \in env.cores
       PROVE  Posted(q, y, "RESET")' => InGroup(q, y) /\ proc[q].value = "RESET" /\ y \notin proc[q].synced
  BY <1>7 DEF Settled
<1>12. ASSUME NEW q \in Procs, NEW y \in env.cores, InGroup(q, y)
       PROVE  /\ y \in proc[q].synced => flag'[y] = proc[q].value
              /\ y \notin proc[q].synced => flag'[y] = proc[q].value \/ Posted(q, y, proc[q].value)'
              /\ flag'[y] = proc[q].value => posted'[q][y] = <<>>
  <2>1. /\ y \in proc[q].synced => flag[y] = proc[q].value
        /\ y \notin proc[q].synced => flag[y] = proc[q].value \/ Posted(q, y, proc[q].value)
        /\ flag[y] = proc[q].value => posted[q][y] = <<>>
    BY <1>12 DEF Settled
  <2>2. PICK v : v = proc[q].value
    OBVIOUS
  <2>3. Posted(q, y, proc[q].value)' <=> Posted(q, y, v)'
    BY <1>3, <2>2
  <2>4. CASE q = p /\ y = x
    <3>1. flag[x] # proc[p].value /\ x \notin proc[p].synced /\ Posted(p, x, v)
      BY <1>1, <2>1, <2>2, <2>4
    <3>2. CASE Head(Q) = "data"
      <4>1. flag'[x] = flag[x]
        BY <1>3, <3>2
      <4>2. v # "data"
        BY <2>2 DEF LocksInv, ProcTypes, ClusterFields
      <4>3. PICK i \in DOMAIN Q : Q[i] = v
        BY <1>1, <3>1 DEF Posted
      <4>4. i # 1
        BY <1>4, <3>2, <4>2, <4>3
      <4>5. i - 1 \in DOMAIN T /\ i = (i - 1) + 1
        BY <1>4, <4>4
      <4>6. T[i - 1] = v
        BY <1>4, <4>3, <4>5
      <4>7. Posted(p, x, v)'
        BY <1>3, <4>5, <4>6 DEF Posted
      <4> QED
        BY <2>2, <2>3, <2>4, <3>1, <4>1, <4>7
    <3>3. CASE Head(Q) # "data"
      BY <1>3, <1>10, <2>4, <3>1, <3>3
    <3> QED
      BY <3>2, <3>3
  <2>5. CASE q # p \/ y # x
    <3>1. posted'[q][y] = posted[q][y] /\ (Posted(q, y, v)' <=> Posted(q, y, v))
      BY <1>3, <1>8, <2>5
    <3>2. flag'[y] = flag[y]
      <4>1. CASE y # x
        BY <1>3, <4>1
      <4>2. CASE y = x
        <5>1. Head(Q) = "data"
          BY <1>10, <1>12, <2>5, <4>2, OneHolder
        <5> QED
          BY <1>3, <4>2, <5>1
      <4> QED
        BY <4>1, <4>2
    <3> QED
      BY <2>1, <2>2, <2>3, <3>1, <3>2
  <2> QED
    BY <2>4, <2>5
<1>13. \A q \in Procs : /\ proc[q].pc \in {"none", "idle", "barrier", "poll", "flushed"}
                        /\ proc[q].pc \in {"barrier", "poll", "flushed"} => proc[q].then = "idle"
  BY DEF Settled
<1> QED
  BY <1>3, <1>6, <1>11, <1>12, <1>13 DEF Settled

------------------------------------------------------------------------------
(* Every step keeps what the barriers rest on. *)

LEMMA StepKeeps ==
  ASSUME ClusterInv, env' = env, NoneTimedOut' => NoneTimedOut, BarrierInv /\ ~env.exits => BarrierInv',
         BarrierInv /\ Settled /\ Quiet => Settled'
  PROVE  FlushInv' /\ ConvergeInv'
<1>1. Quiet /\ Settled => NoneTimedOut
  BY DEF Settled, NoneTimedOut
<1>2. FlushInv'
  BY DEF ClusterInv, FlushInv
<1>3. ConvergeInv'
  <2> SUFFICES ASSUME Quiet
               PROVE  Settled'
    BY DEF ConvergeInv, Quiet
  <2>1. Settled /\ ~env.exits
    BY DEF ClusterInv, ConvergeInv, Quiet
  <2>2. BarrierInv
    BY <1>1, <2>1 DEF ClusterInv, FlushInv
  <2> QED
    BY <2>1, <2>2
<1> QED
  BY <1>2, <1>3

LEMMA AsideKeeps ==
  ASSUME ClusterInv, NEW p \in Procs, Aside(p)
  PROVE  FlushInv' /\ ConvergeInv'
<1>1. env' = env /\ (NoneTimedOut' => NoneTimedOut)
  BY DEF Aside, NoneTimedOut, InBarrier
<1> QED
  BY <1>1, StepKeeps, AsideFlush, AsideSettled DEF ClusterInv

LEMMA PostsKeeps ==
  ASSUME ClusterInv, NEW p \in Procs, NEW S, NEW w \in {"data", "RESET"}, Posts(p, S, w)
  PROVE  FlushInv' /\ ConvergeInv'
<1>1. env' = env /\ (NoneTimedOut' => NoneTimedOut)
  BY DEF Posts, NoneTimedOut, InBarrier
<1> QED
  BY <1>1, StepKeeps, PostsFlush, PostsSettled DEF ClusterInv

LEMMA AloofKeeps ==
  ASSUME ClusterInv, Aloof
  PROVE  FlushInv' /\ ConvergeInv'
<1>1. env' = env /\ (NoneTimedOut' => NoneTimedOut)
  BY DEF Aloof, NoneTimedOut
<1> QED
  BY <1>1, StepKeeps, AloofFlush, AloofSettled

LEMMA BarrierKeeps ==
  ASSUME ClusterInv, NEW p \in Procs,
         L1Membar(p) \/ BarrierReturns(p) \/ AfterBarrier(p) \/ BeginBarrier(p) \/ Poll(p) \/ Synced(p)
  PROVE  FlushInv' /\ ConvergeInv'
<1> LocksInv
  BY DEF ClusterInv
<1>1. CASE L1Membar(p) \/ BarrierReturns(p) \/ AfterBarrier(p)
  <2>1. env' = env /\ proc[p].pc # "timeout" /\ \A q \in Procs : q # p => proc'[q] = proc[q]
    BY <1>1, L1MembarStep, ReturnStep, AfterStep
  <2>2. NoneTimedOut' => NoneTimedOut
    BY <2>1 DEF NoneTimedOut
  <2> QED
    BY <1>1, <2>1, <2>2, StepKeeps, CallsFlush, CallsSettled
<1>2. CASE BeginBarrier(p)
  <2>1. env' = env /\ proc[p].pc # "timeout" /\ \A q \in Procs : q # p => proc'[q] = proc[q]
    BY <1>2, BeginStep
  <2>2. NoneTimedOut' => NoneTimedOut
    BY <2>1 DEF NoneTimedOut
  <2> QED
    BY <1>2, <2>1, <2>2, StepKeeps, BeginFlush, BeginSettled
<1>3. CASE Aside(p)
  BY <1>3, AsideKeeps
<1>4. CASE Poll(p) /\ ~Aside(p)
  <2>1. env' = env /\ proc[p].pc # "timeout" /\ \A q \in Procs : q # p => proc'[q] = proc[q]
    BY <1>4, PollStep
  <2>2. NoneTimedOut' => NoneTimedOut
    BY <2>1 DEF NoneTimedOut
  <2> QED
    BY <1>4, <2>1, <2>2, StepKeeps, PollFlush, PollSettled
<1>5. CASE Synced(p) /\ \E S : Posts(p, S, "RESET")
  BY <1>5, PostsKeeps
<1>6. CASE Synced(p) /\ ~Aside(p) /\ ~\E S : Posts(p, S, "RESET")
  <2>1. env' = env /\ proc[p].pc # "timeout" /\ \A q \in Procs : q # p => proc'[q] = proc[q]
    BY <1>6, SyncedStep
  <2>2. NoneTimedOut' => NoneTimedOut
    BY <2>1 DEF NoneTimedOut
  <2> QED
    BY <1>6, <2>1, <2>2, StepKeeps, SyncedFlush, SyncedSettled
<1> QED
  BY <1>1, <1>2, <1>3, <1>4, <1>5, <1>6

(* A barrier that times out, a process that ends.                            *)
LEMMA FaultKeeps ==
  ASSUME ClusterInv, NEW p \in Procs, Timeout(p) \/ Exit(p)
  PROVE  FlushInv' /\ ConvergeInv'
<1> LocksInv
  BY DEF ClusterInv
<1>1. CASE Exit(p)
  BY <1>1, ExitStep DEF FlushInv, ConvergeInv, Quiet
<1>2. CASE Timeout(p)
  <2>1. FlushInv'
    BY <1>2, TimeoutStep DEF FlushInv, NoneTimedOut
  <2>2. ~Quiet
    <3> SUFFICES ASSUME Settled, ~env.slowWrites
                 PROVE  FALSE
      BY DEF ClusterInv, ConvergeInv, Quiet
    <3>1. PICK x \in Head(proc[p].groups) \ proc[p].synced :
            x \in env.cores /\ flag[x] # proc[p].value /\ posted[p][x] = <<>>
      BY <1>2, TimeoutStep
    <3>2. proc[p].pc = "poll"
      BY <1>2, TimeoutStep DEF Settled
    <3>3. InGroup(p, x)
      BY <3>1, <3>2 DEF InGroup
    <3>4. Posted(p, x, proc[p].value)
      BY <3>1, <3>3 DEF Settled
    <3> QED
      BY <3>1, <3>4, ShortQueue DEF Posted
  <2>3. ConvergeInv'
    BY <1>2, <2>2, TimeoutStep DEF ConvergeInv, Quiet
  <2> QED
    BY <2>1, <2>3
<1> QED
  BY <1>1, <1>2

LEMMA LandKeeps ==
  ASSUME ClusterInv, NEW p \in Procs, NEW x \in env.cores, Land(p, x)
  PROVE  FlushInv' /\ ConvergeInv'
<1> LocksInv
  BY DEF ClusterInv
<1>1. env' = env /\ proc' = proc
  BY LandStep
<1>2. NoneTimedOut' => NoneTimedOut
  BY <1>1 DEF NoneTimedOut
<1> QED
  BY <1>1, <1>2, StepKeeps, LandFlush, LandSettled

LEMMA ClusterNextKeeps ==
  ASSUME ClusterInv, Next
  PROVE  ClusterInv'
<1> LocksInv
  BY DEF ClusterInv
<1>1. LocksInv'
  BY LocksNext
<1>2. FlushInv' /\ ConvergeInv'
  <2>1. ASSUME NEW p \in Procs,
               \/ Construct(p) \/ RefreshClusterDescription(p) \/ StartDevice(p) \/ DeassertResets(p)
               \/ SetClockBusy(p) \/ CloseDevice(p) \/ CloseChip(p)
               \/ AssertRiscReset(p) \/ UserBroadcast(p) \/ Flush(p)
        PROVE  FlushInv' /\ ConvergeInv'
    <3>1. Aside(p)
      BY <2>1, ConstructStep, RefreshStep, StartDeviceStep, DeassertStep, ClockStep, CloseDeviceStep,
         CloseChipStep, BroadcastCallStep, FlushStep
    <3> QED
      BY <3>1, AsideKeeps
  <2>2. ASSUME NEW p \in Procs, StartChip(p) \/ WriteToDevice(p)
        PROVE  FlushInv' /\ ConvergeInv'
    <3>1. Aside(p) \/ \E S : \E w \in {"data", "RESET"} : Posts(p, S, w)
      BY <2>2, StartChipStep, WriteStep
    <3> QED
      BY <3>1, AsideKeeps, PostsKeeps
  <2>3. ASSUME NEW p \in Procs,
               \/ L1Membar(p) \/ BeginBarrier(p) \/ Poll(p) \/ Synced(p) \/ Timeout(p)
               \/ BarrierReturns(p) \/ AfterBarrier(p) \/ Exit(p)
               \/ \E x \in env.cores : Land(p, x)
        PROVE  FlushInv' /\ ConvergeInv'
    BY <2>3, BarrierKeeps, FaultKeeps, LandKeeps
  <2>4. ASSUME (\E w \in flight : Deliver(w)) \/ ToolReset \/ Relocate
        PROVE  FlushInv' /\ ConvergeInv'
    <3>1. Aloof
      BY <2>4, DeliverStep, WorldStep
    <3> QED
      BY <3>1, AloofKeeps
  <2> QED
    BY <2>1, <2>2, <2>3, <2>4 DEF Next
<1> QED
  BY <1>1, <1>2 DEF ClusterInv

LEMMA ClusterStutter ==
  ASSUME ClusterInv, UNCHANGED vars
  PROVE  ClusterInv'
<1>1. LocksInv'
  BY LocksStutter DEF ClusterInv
<1>2. Aloof
  BY DEF Aloof, vars
<1> QED
  BY <1>1, <1>2, AloofKeeps DEF ClusterInv

LEMMA ClusterInit ==
  ASSUME Init
  PROVE  ClusterInv
<1>1. LocksInv
  BY LocksInit
<1>2. Fresh.pc = "none"
  BY DEF Fresh
<1>3. \A p \in Procs : proc[p].pc = "none" /\ \A x \in env.cores : posted[p][x] = <<>>
  BY <1>2 DEF Init
<1>4. \A p \in Procs : \A x \in env.cores : ~InGroup(p, x) /\ \A v : ~Posted(p, x, v)
  BY <1>3, ShortQueue DEF InGroup, Posted
<1>5. \A p \in Procs : \A x \in env.cores : \A i \in DOMAIN posted[p][x] : FALSE
  BY <1>3, ShortQueue
<1>6. \A x \in env.cores : flag[x] = "RESET"
  BY DEF Init
<1>7. BarrierInv
  BY <1>3, <1>4, <1>5, <1>6 DEF BarrierInv, SetInv, WordInv, GroupInv, FencedInv
<1>8. Settled
  BY <1>3, <1>4 DEF Settled
<1> QED
  BY <1>1, <1>7, <1>8 DEF ClusterInv, FlushInv, ConvergeInv

(* What the invariant says of the barriers.                                  *)
LEMMA InvMeansBarriers ==
  ASSUME ClusterInv
  PROVE  BarriersHold
<1> LocksInv
  BY DEF ClusterInv
<1>1. TypeOK
  <2>1. \A c \in DOMAIN dev : dev[c].clock \in {"min", "max"} /\ dev[c].held \in BOOLEAN
    BY DEF LocksInv, DevTypes
  <2>2. /\ \A c \in DOMAIN lock : lock[c] \in Procs \cup {None}
        /\ barrier \in Procs \cup {None} /\ \A x \in DOMAIN flag : flag[x] \in {"SET", "RESET"}
        /\ DOMAIN dev = DOMAIN env.loc
    BY DEF LocksInv, DevTypes
  <2>3. \A p \in Procs : proc[p].ops \in 0..env.maxOps /\ proc[p].todo \subseteq DOMAIN dev
    BY <2>2 DEF LocksInv, ProcTypes, ClusterFields
  <2> QED
    BY <2>1, <2>2, <2>3 DEF TypeOK
<1>2. BarrierFlushes
  <2> SUFFICES ASSUME NEW p \in Procs, proc[p].pc = "flushed", ~env.exits, NoneTimedOut, NEW x \in proc[p].fenced
               PROVE  "data" \notin Range(posted[p][x])
    BY DEF BarrierFlushes
  <2>1. BarrierInv
    BY DEF ClusterInv, FlushInv
  <2>2. proc[p].groups = <<>>
    BY DEF LocksInv, ControlInv
  <2>3. \A i \in DOMAIN proc[p].groups : x \notin proc[p].groups[i]
    BY <2>2, ShortQueue
  <2>4. ~Posted(p, x, "data")
    BY <2>1, <2>3 DEF BarrierInv, FencedInv
  <2> QED
    BY <2>4 DEF Posted, Range
<1>3. TimeoutMeansStart
  BY DEF ClusterInv, ConvergeInv, Quiet, Settled, TimeoutMeansStart
<1> QED
  BY <1>1, <1>2, <1>3 DEF BarriersHold

(* A memory barrier returns only when every write its process posted before  *)
(* to the cores it is about has landed, with any number of processes in      *)
(* barriers on the same words or starting the chip, as long as none is       *)
(* killed or has timed out inside a barrier; and a barrier times out only    *)
(* where processes start chips or are killed, or writes are slow to land.    *)
THEOREM BarriersFlush == HostsSpec => []BarriersHold
<1>1. HostsInit => ClusterInv
  BY ClusterInit DEF HostsInit
<1>2. ClusterInv /\ [MemoryNext \/ ClusterNext]_<<hostVars, vars, part>> => ClusterInv'
  BY ClusterNextKeeps, ClusterStutter DEF MemoryNext, ClusterNext
<1>3. ClusterInv => BarriersHold
  BY InvMeansBarriers
<1> QED
  BY <1>1, <1>2, <1>3, PTL DEF HostsSpec

------------------------------------------------------------------------------
(* The memory and the resources of a process.                                *)

(* A record is its fields.                                                   *)
IsChannel(c) == c = [map |-> c.map, size |-> c.size, phys |-> c.phys]
IsProcess(s) ==
  s = [pc |-> s.pc, fd |-> s.fd, handle |-> s.handle, maps |-> s.maps, dma |-> s.dma, chan |-> s.chan, iommu |-> s.iommu,
       isize |-> s.isize, buf |-> s.buf, ubufs |-> s.ubufs, warned |-> s.warned, tlb |-> s.tlb, k |-> s.k, lives |-> s.lives,
       starts |-> s.starts]
IsDriver(d) == d = [pins |-> d.pins, tlbs |-> d.tlbs, lock |-> d.lock]

(* The channels of a manager, and the one a start is at.                     *)
ChannelsOf(s) ==
  /\ Len(s.chan) \in Nat /\ DOMAIN s.chan = 1 .. Len(s.chan)
  /\ \A i \in DOMAIN s.chan : IsChannel(s.chan[i])
  /\ s.pc = "pinning" => s.k \in 0 .. Len(s.chan)

(* What the manager gives up with its channels.                              *)
Freed(s) == IF s.iommu THEN {"iommu"} ELSE {s.chan[i].map : i \in {j \in DOMAIN s.chan : s.chan[j].map # Absent}}

(* The memory behind the channels is mapped, in a length not below what a    *)
(* start pins, and shorter than that only with the carve-out.                *)
Backed(s) ==
  /\ s.iommu =>
       /\ hostEnv.iommu /\ Len(s.chan) = hostEnv.channels
       /\ s.isize \in Nat /\ s.isize <= hostEnv.channels * Region
       /\ s.isize # hostEnv.channels * Region => Carveout
       /\ [of |-> "iommu", len |-> hostEnv.channels * Region] \in s.maps
  /\ ~s.iommu => \A i \in DOMAIN s.chan : s.chan[i].map # Absent => [of |-> s.chan[i].map, len |-> Region] \in s.maps

(* Nothing is mapped that no destructor knows of, the carve-out apart.       *)
Accounted(s) == \A m \in s.maps : m.of \in {"bar", "dma"} \cup Freed(s) \/ (Carveout /\ m.of = "rest")

(* A process without objects: before its life, after it, or after a          *)
(* constructor that threw; and what is left at the ends and before a manager *)
(* is made.                                                                  *)
Ended(s) == s.pc \in {"none", "threw", "destroyed"}
Cleared(s) ==
  /\ s.pc = "none" => s.tlb = Absent
  /\ s.pc = "opened" => s.chan = <<>> /\ s.iommu = FALSE
  /\ s.pc = "destroyed" => ~s.fd /\ ~s.handle /\ \A m \in s.maps : Carveout /\ m.of = "rest"

ProcessInv(s) == IsProcess(s) /\ ChannelsOf(s) /\ Backed(s) /\ Accounted(s) /\ Cleared(s)

(* A pin is of a buffer of the user or of mapped memory.                     *)
BufferNames == {b.name : b \in hostEnv.ubufs}
Covered(q, maps) == q.of \in BufferNames \/ \E m \in maps : m.of = q.of /\ q.va + q.len <= m.len

(* What the driver records for a process.                                    *)
DriverInv(p, s, pins, tlbs, owner) ==
  /\ \A q \in pins : q.p = p => Covered(q, s.maps) /\ ~Ended(s)
  /\ s.tlb = Absent => p \notin tlbs
  /\ Ended(s) => owner # p

MemoryInv ==
  /\ hostEnv \in HostEnv /\ IsDriver(kmd)
  /\ hostProc = [p \in HostProcs |-> hostProc[p]]
  /\ \A q \in kmd.pins : q.p \in HostProcs
  /\ \A p \in HostProcs : ProcessInv(hostProc[p]) /\ DriverInv(p, hostProc[p], kmd.pins, kmd.tlbs, kmd.lock)

(* The constants.                                                            *)
LEMMA MemoryFacts ==
  ASSUME hostEnv \in HostEnv
  PROVE  /\ Page \in Nat /\ Page # 0 /\ Region \in Nat /\ Ch3Limit \in Nat /\ Ch3Limit < Region /\ DmaBufSize \in Nat
         /\ Absent \notin HostProcs /\ Absent # "allocated" /\ Absent # "mapped"
         /\ hostEnv.channels \in Nat /\ hostEnv.channels <= 4 /\ hostEnv.machine.hugepages \in Nat /\ IsFiniteSet(DOMAIN hostEnv.machine.devs)
  BY HostMemoryAssumption

(* The image of a function with a finite domain is finite.                   *)
LEMMA FiniteRange ==
  ASSUME NEW f, IsFiniteSet(DOMAIN f)
  PROVE  IsFiniteSet({f[i] : i \in DOMAIN f})
<1> DEFINE T == {f[i] : i \in DOMAIN f}
           g == [i \in DOMAIN f |-> f[i]]
<1>1. g \in Surjection(DOMAIN f, T)
  BY DEF Surjection
<1> QED
  BY <1>1, FS_Surjection, Zenon

(* The number of channels a manager gets is a number.                        *)
LEMMA ChannelsCount ==
  ASSUME hostEnv \in HostEnv, NEW n \in Nat
  PROVE  /\ GetAvailableNumHostMemChannels(hostEnv.machine, n) \in Nat
         /\ GetAvailableNumHostMemChannels(hostEnv.machine, n) <= n
<1> DEFINE m == hostEnv.machine
           D == {i \in DOMAIN m.devs : m.devs[i].slotted}
           g == [i \in D |-> m.devs[i].id]
           T == {g[i] : i \in DOMAIN g}
<1>1. IsFiniteSet(D)
  BY MemoryFacts, FS_Subset, Zenon
<1>2. IsFiniteSet(T)
  BY <1>1, FiniteRange, Zenon
<1>3. T = SlottedDevices(m)
  BY DEF SlottedDevices, Range
<1>4. Cardinality(SlottedDevices(m)) \in Nat
  BY <1>2, <1>3, FS_CardinalityType, Zenon
<1>5. PICK c \in Nat : c = Cardinality(SlottedDevices(m))
  BY <1>4
<1>6. PICK h \in Nat : h = m.hugepages
  BY MemoryFacts
<1>7. c # 0 => h \div c \in Nat
  OBVIOUS
<1> QED
  BY <1>5, <1>6, <1>7 DEF GetAvailableNumHostMemChannels

(* So is the size of the DMA buffer.                                         *)
LEMMA DmaBufferSize ==
  ASSUME hostEnv \in HostEnv
  PROVE  AllocatePcieDmaBuffer \in Nat
<1> DEFINE fits == {s \in DmaSizes : s >= Page /\ s <= hostEnv.dmaMax}
<1>1. DmaBufSize \in Nat
  BY MemoryFacts
<1>2. fits \subseteq 1 .. DmaBufSize
  BY DEF DmaSizes
<1>3. IsFiniteSet(1 .. DmaBufSize)
  BY <1>1, FS_Interval
<1>4. IsFiniteSet(fits)
  BY <1>2, <1>3, FS_Subset, Zenon
<1>5. fits \subseteq Nat
  BY <1>1, <1>2
<1>6. fits # {} => (CHOOSE s \in fits : \A t \in fits : t <= s) \in fits
  <2> HAVE fits # {}
  <2>1. \E s \in fits : \A t \in fits : t <= s
    BY <1>4, <1>5, GreatestIs, Zenon
  <2> HIDE DEF fits
  <2> QED
    BY <2>1, Zenon
<1>7. fits # {} => (CHOOSE s \in fits : \A t \in fits : t <= s) \in Nat
  BY <1>5, <1>6
<1> QED
  BY <1>7 DEF AllocatePcieDmaBuffer

(* A step of one process: its objects and what the driver records for it     *)
(* change, what the driver records for others does not.                      *)
LEMMA ProcessStep ==
  ASSUME MemoryInv, NEW p \in HostProcs, NEW s, NEW P, NEW T, NEW L,
         hostEnv' = hostEnv, hostProc' = [hostProc EXCEPT ![p] = s], kmd' = [pins |-> P, tlbs |-> T, lock |-> L],
         \A q \in P : q.p = p \/ q \in kmd.pins,
         \A r \in T : r = p \/ r \in kmd.tlbs,
         L \in {p, Absent, kmd.lock},
         ProcessInv(s), DriverInv(p, s, P, T, L)
  PROVE  MemoryInv'
<1>1. hostEnv' \in HostEnv /\ hostEnv' = hostEnv
  BY DEF MemoryInv
<1>2. IsDriver(kmd)' /\ kmd'.pins = P /\ kmd'.tlbs = T /\ kmd'.lock = L
  BY DEF IsDriver
<1>3. hostProc' = [r \in HostProcs |-> hostProc'[r]] /\ hostProc'[p] = s /\ \A r \in HostProcs : r # p => hostProc'[r] = hostProc[r]
  BY DEF MemoryInv
<1>4. \A q \in P : q.p \in HostProcs
  BY DEF MemoryInv
<1>5. Carveout' = Carveout /\ BufferNames' = BufferNames
  BY <1>1 DEF Carveout, Wormhole, BufferNames
<1>6. ASSUME NEW r \in HostProcs, NEW x, hostProc'[r] = x, ProcessInv(x)
      PROVE  ProcessInv(hostProc[r])'
  <2>1. IsProcess(hostProc[r])'
    BY ONLY <1>6, Zenon DEF ProcessInv, IsProcess
  <2>2. ChannelsOf(hostProc[r])'
    BY ONLY <1>6 DEF ProcessInv, ChannelsOf, IsChannel
  <2>3. Backed(hostProc[r])'
    BY ONLY <1>1, <1>5, <1>6 DEF ProcessInv, Backed
  <2>4. Accounted(hostProc[r])'
    BY ONLY <1>5, <1>6 DEF ProcessInv, Accounted, Freed
  <2>5. Cleared(hostProc[r])'
    BY ONLY <1>5, <1>6 DEF ProcessInv, Cleared
  <2> QED
    BY <2>1, <2>2, <2>3, <2>4, <2>5 DEF ProcessInv
<1>7. ASSUME NEW r \in HostProcs, NEW x, hostProc'[r] = x, DriverInv(r, x, P, T, L)
      PROVE  DriverInv(r, hostProc[r], kmd.pins, kmd.tlbs, kmd.lock)'
  BY ONLY <1>2, <1>5, <1>7, Zenon DEF DriverInv, Covered, Ended
<1>8. ASSUME NEW r \in HostProcs, r # p
      PROVE  ProcessInv(hostProc[r])' /\ DriverInv(r, hostProc[r], kmd.pins, kmd.tlbs, kmd.lock)'
  <2>1. PICK x : x = hostProc[r]
    OBVIOUS
  <2>2. ProcessInv(x) /\ DriverInv(r, x, kmd.pins, kmd.tlbs, kmd.lock)
    BY <2>1 DEF MemoryInv
  <2>3. L = r => kmd.lock = r
    BY <1>8, MemoryFacts DEF MemoryInv
  <2>4. DriverInv(r, x, P, T, L)
    BY <1>8, <2>2, <2>3 DEF DriverInv
  <2> QED
    BY <1>3, <1>6, <1>7, <1>8, <2>1, <2>2, <2>4
<1>9. ProcessInv(hostProc[p])' /\ DriverInv(p, hostProc[p], kmd.pins, kmd.tlbs, kmd.lock)'
  BY <1>3, <1>6, <1>7
<1> QED
  BY <1>1, <1>2, <1>3, <1>4, <1>8, <1>9 DEF MemoryInv

LEMMA MemoryAt ==
  ASSUME MemoryInv, NEW p \in HostProcs
  PROVE  /\ hostEnv \in HostEnv /\ kmd = [pins |-> kmd.pins, tlbs |-> kmd.tlbs, lock |-> kmd.lock]
         /\ ProcessInv(hostProc[p]) /\ DriverInv(p, hostProc[p], kmd.pins, kmd.tlbs, kmd.lock)
  BY DEF MemoryInv, IsDriver

(* A process that moves on with the objects it has.                          *)
LEMMA SameObjects ==
  ASSUME NEW b, NEW s, ProcessInv(b), IsProcess(s), s.maps = b.maps, s.chan = b.chan, s.iommu = b.iommu, s.isize = b.isize,
         s.pc = "pinning" => s.k \in 0 .. Len(b.chan), s.pc \notin {"none", "opened", "destroyed"}
  PROVE  ProcessInv(s)
<1>1. ChannelsOf(s)
  BY DEF ProcessInv, ChannelsOf
<1>2. Backed(s)
  BY DEF ProcessInv, Backed
<1>3. Accounted(s)
  BY DEF ProcessInv, Accounted, Freed
<1> QED
  BY <1>1, <1>2, <1>3 DEF ProcessInv, Cleared

LEMMA SameDriver ==
  ASSUME NEW p, NEW b, NEW s, NEW P, NEW T, NEW L, NEW M,
         DriverInv(p, b, P, T, L), b.maps \subseteq s.maps, s.tlb = b.tlb, s.pc \notin {"none", "threw", "destroyed"}
  PROVE  DriverInv(p, s, P, T, M)
  BY DEF DriverInv, Covered, Ended

(* What a pin says.                                                          *)
LEMMA PinnedIs ==
  ASSUME NEW p, NEW of, NEW va, NEW len, NEW toNoc, NEW q \in TtPinPages(p, of, va, len, toNoc)
  PROVE  q.p = p /\ q.of = of /\ q.va = va /\ q.len = len
  BY DEF TtPinPages, Pin

------------------------------------------------------------------------------
LEMMA StartLocalChipMemory ==
  ASSUME MemoryInv, NEW p \in HostProcs, StartLocalChip(p)
  PROVE  MemoryInv'
<1>1. PICK b : b = hostProc[p]
  OBVIOUS
<1>2. PICK n : n = b.starts + 1
  OBVIOUS
<1>3. PICK s : s = [b EXCEPT !.pc = "pinning", !.k = 0, !.starts = n]
  OBVIOUS
<1>4. ProcessInv(b) /\ DriverInv(p, b, kmd.pins, kmd.tlbs, kmd.lock) /\ IsProcess(b)
  BY <1>1, MemoryAt DEF ProcessInv
<1>5. hostProc' = [hostProc EXCEPT ![p] = s]
  BY <1>1, <1>2, <1>3, Zenon DEF StartLocalChip
<1>6. IsProcess(s) /\ s.maps = b.maps /\ s.chan = b.chan /\ s.iommu = b.iommu /\ s.isize = b.isize /\ s.tlb = b.tlb
      /\ s.pc = "pinning" /\ s.k = 0
  BY ONLY <1>3, <1>4 DEF IsProcess
<1>7. 0 \in 0 .. Len(b.chan)
  BY <1>4 DEF ProcessInv, ChannelsOf
<1>8. ProcessInv(s)
  BY <1>4, <1>6, <1>7, SameObjects
<1>9. DriverInv(p, s, kmd.pins, kmd.tlbs, p)
  BY <1>4, <1>6, SameDriver
<1>10. kmd' = [pins |-> kmd.pins, tlbs |-> kmd.tlbs, lock |-> p] /\ hostEnv' = hostEnv
  BY MemoryAt DEF StartLocalChip
<1> QED
  BY <1>5, <1>8, <1>9, <1>10, ProcessStep

(* A start that is done, or failed, with what the driver has recorded.       *)
LEMMA MoveOn ==
  ASSUME MemoryInv, NEW p \in HostProcs, NEW l \in {"started", "faulted"},
         hostProc' = [hostProc EXCEPT ![p] = [hostProc[p] EXCEPT !.pc = l]], kmd' = kmd, hostEnv' = hostEnv
  PROVE  MemoryInv'
<1>1. PICK b : b = hostProc[p]
  OBVIOUS
<1>2. PICK s : s = [b EXCEPT !.pc = l]
  OBVIOUS
<1>3. ProcessInv(b) /\ DriverInv(p, b, kmd.pins, kmd.tlbs, kmd.lock) /\ IsProcess(b)
  BY <1>1, MemoryAt DEF ProcessInv
<1>4. hostProc' = [hostProc EXCEPT ![p] = s]
  BY <1>1, <1>2, Zenon
<1>5. IsProcess(s) /\ s.maps = b.maps /\ s.chan = b.chan /\ s.iommu = b.iommu /\ s.isize = b.isize /\ s.tlb = b.tlb /\ s.pc = l
  BY ONLY <1>2, <1>3 DEF IsProcess
<1>6. ProcessInv(s)
  BY <1>3, <1>5, SameObjects
<1>7. DriverInv(p, s, kmd.pins, kmd.tlbs, kmd.lock)
  BY <1>3, <1>5, SameDriver
<1>8. kmd' = [pins |-> kmd.pins, tlbs |-> kmd.tlbs, lock |-> kmd.lock]
  BY MemoryAt
<1> QED
  BY <1>4, <1>6, <1>7, <1>8, ProcessStep

(* The buffer of the IOMMU: the pin is inside the mapping.                   *)
LEMMA PinOrMapIommuMemory ==
  ASSUME MemoryInv, NEW p \in HostProcs, PinOrMapIommu(p)
  PROVE  MemoryInv'
<1>1. PICK b : b = hostProc[p]
  OBVIOUS
<1>2. ProcessInv(b) /\ DriverInv(p, b, kmd.pins, kmd.tlbs, kmd.lock) /\ IsProcess(b)
  BY <1>1, MemoryAt DEF ProcessInv
<1>3. CASE ~b.iommu
  BY <1>1, <1>3, MoveOn, Zenon DEF PinOrMapIommu, Started
<1>4. CASE b.iommu
  <2>1. PICK q \in MapBufferToNoc(p, "iommu", 0, b.isize, FALSE) :
          /\ kmd' = [kmd EXCEPT !.pins = UnmapForDma(@, p, "iommu") \cup {q}]
          /\ IF AtBase(q)
             THEN hostProc' = [hostProc EXCEPT ![p] = StartedWithBuffer(@)]
             ELSE hostProc' = [hostProc EXCEPT ![p].pc = "faulted", ![p].buf = TRUE]
    BY <1>1, <1>4 DEF PinOrMapIommu
  <2>2. q.p = p /\ q.of = "iommu" /\ q.va = 0 /\ q.len = b.isize
    <3>1. q \in TtPinPages(p, "iommu", 0, b.isize, TRUE)
      BY <2>1 DEF MapBufferToNoc
    <3> QED
      BY ONLY <3>1 DEF TtPinPages, Pin
  <2>3. PICK P : P = UnmapForDma(kmd.pins, p, "iommu") \cup {q}
    OBVIOUS
  <2>4. kmd' = [pins |-> P, tlbs |-> kmd.tlbs, lock |-> kmd.lock]
    BY <2>1, <2>3, MemoryAt
  <2>5. \A r \in P : r = q \/ r \in kmd.pins
    BY <2>3 DEF UnmapForDma, TtUnpinPages
  <2>6. ASSUME NEW s, s.maps = b.maps, s.tlb = b.tlb, s.pc \notin {"none", "threw", "destroyed"}
        PROVE  DriverInv(p, s, P, kmd.tlbs, kmd.lock)
    <3>1. [of |-> "iommu", len |-> hostEnv.channels * Region] \in s.maps /\ b.isize <= hostEnv.channels * Region /\ b.isize \in Nat
      BY <1>2, <1>4, <2>6 DEF ProcessInv, Backed
    <3>2. PICK m : m = [of |-> "iommu", len |-> hostEnv.channels * Region]
      OBVIOUS
    <3>3. m \in s.maps /\ m.of = q.of /\ q.va + q.len <= m.len
      BY <2>2, <3>1, <3>2
    <3>4. Covered(q, s.maps)
      BY <3>3 DEF Covered
    <3>5. DriverInv(p, s, kmd.pins, kmd.tlbs, kmd.lock)
      BY <1>2, <2>6, SameDriver
    <3> QED
      BY <2>5, <2>6, <3>4, <3>5 DEF DriverInv, Ended
  <2>7. CASE AtBase(q)
    <3>1. PICK C : C = [i \in DOMAIN b.chan |-> [b.chan[i] EXCEPT !.phys = TRUE]]
      OBVIOUS
    <3>2. PICK s : s = [b EXCEPT !.pc = "started", !.buf = TRUE, !.chan = C]
      OBVIOUS
    <3>3. hostProc' = [hostProc EXCEPT ![p] = s]
      <4>1. StartedWithBuffer(b) = s
        BY ONLY <1>2, <3>1, <3>2 DEF IsProcess, Started, StartedWithBuffer
      <4> QED
        BY <1>1, <2>1, <2>7, <4>1, Zenon
    <3>4. IsProcess(s) /\ s.maps = b.maps /\ s.chan = C /\ s.iommu = b.iommu /\ s.isize = b.isize /\ s.tlb = b.tlb
          /\ s.pc = "started"
      BY ONLY <1>2, <3>2 DEF IsProcess
    <3>5. ChannelsOf(s) /\ Len(C) = Len(b.chan)
      <4>1. Len(b.chan) \in Nat /\ DOMAIN b.chan = 1 .. Len(b.chan) /\ \A i \in DOMAIN b.chan : IsChannel(b.chan[i])
        BY <1>2 DEF ProcessInv, ChannelsOf
      <4>2. DOMAIN C = 1 .. Len(b.chan) /\ Len(C) = Len(b.chan)
        BY <3>1, <4>1
      <4>3. \A i \in DOMAIN C : IsChannel(C[i])
        BY <3>1, <4>1, <4>2 DEF IsChannel
      <4> QED
        BY <3>4, <4>1, <4>2, <4>3 DEF ChannelsOf
    <3>6. Backed(s) /\ Accounted(s) /\ Cleared(s)
      BY <1>2, <1>4, <3>4, <3>5 DEF ProcessInv, Backed, Accounted, Freed, Cleared
    <3>7. ProcessInv(s)
      BY <3>4, <3>5, <3>6 DEF ProcessInv
    <3>8. DriverInv(p, s, P, kmd.tlbs, kmd.lock)
      BY <2>6, <3>4
    <3>9. /\ hostEnv' = hostEnv /\ kmd.lock \in {p, Absent, kmd.lock}
          /\ (\A r \in kmd.tlbs : r = p \/ r \in kmd.tlbs) /\ \A r \in P : r.p = p \/ r \in kmd.pins
      BY <2>2, <2>5 DEF PinOrMapIommu
    <3> QED
      BY ONLY MemoryInv, p \in HostProcs, <2>4, <3>3, <3>7, <3>8, <3>9, ProcessStep
  <2>8. CASE ~AtBase(q)
    <3>1. PICK s : s = [b EXCEPT !.pc = "faulted", !.buf = TRUE]
      OBVIOUS
    <3>2. hostProc' = [hostProc EXCEPT ![p] = s]
      BY <1>1, <2>1, <2>8, <3>1
    <3>3. IsProcess(s) /\ s.maps = b.maps /\ s.chan = b.chan /\ s.iommu = b.iommu /\ s.isize = b.isize /\ s.tlb = b.tlb
          /\ s.pc = "faulted"
      BY ONLY <1>2, <3>1 DEF IsProcess
    <3>4. ProcessInv(s)
      BY <1>2, <3>3, SameObjects
    <3>5. DriverInv(p, s, P, kmd.tlbs, kmd.lock)
      BY <2>6, <3>3
    <3>6. /\ hostEnv' = hostEnv /\ kmd.lock \in {p, Absent, kmd.lock}
          /\ (\A r \in kmd.tlbs : r = p \/ r \in kmd.tlbs) /\ \A r \in P : r.p = p \/ r \in kmd.pins
      BY <2>2, <2>5 DEF PinOrMapIommu
    <3> QED
      BY ONLY MemoryInv, p \in HostProcs, <2>4, <3>2, <3>4, <3>5, <3>6, ProcessStep
  <2> QED
    BY <2>7, <2>8
<1> QED
  BY <1>3, <1>4

(* A hugepage: the pin is inside the mapping of its channel.                 *)
LEMMA PinOrMapHugepagesMemory ==
  ASSUME MemoryInv, NEW p \in HostProcs, PinOrMapHugepages(p)
  PROVE  MemoryInv'
<1>1. PICK b : b = hostProc[p]
  OBVIOUS
<1>2. PICK n : n = b.k + 1
  OBVIOUS
<1>3. ProcessInv(b) /\ DriverInv(p, b, kmd.pins, kmd.tlbs, kmd.lock) /\ IsProcess(b)
  BY <1>1, MemoryAt DEF ProcessInv
<1>4. b.pc = "pinning" /\ ~hostEnv.iommu /\ hostEnv' = hostEnv
  BY <1>1 DEF PinOrMapHugepages
<1>5. CASE b.k = Len(b.chan)
  BY <1>1, <1>4, <1>5, MoveOn, Zenon DEF PinOrMapHugepages, Started
<1>6. CASE b.k # Len(b.chan) /\ b.chan[n].map = Absent
  BY <1>1, <1>2, <1>4, <1>6, MoveOn, Zenon DEF PinOrMapHugepages
<1>7. CASE b.k # Len(b.chan) /\ b.chan[n].map # Absent
  <2>1. PICK q \in MapHugepageToNoc(p, b.chan[n].map, ActualSize(b.k)) :
          /\ kmd' = [kmd EXCEPT !.pins = @ \cup {q}]
          /\ hostProc' = [hostProc EXCEPT ![p] = ChannelPinned(@, q.noc)]
    BY <1>1, <1>2, <1>7, Zenon DEF PinOrMapHugepages
  <2>2. q.p = p /\ q.of = b.chan[n].map /\ q.va = 0 /\ q.len = ActualSize(b.k)
    <3>1. q \in TtPinPages(p, b.chan[n].map, 0, ActualSize(b.k), TRUE)
      BY <2>1 DEF MapHugepageToNoc
    <3> QED
      BY ONLY <3>1 DEF TtPinPages, Pin
  <2>3. PICK P : P = kmd.pins \cup {q}
    OBVIOUS
  <2>4. kmd' = [pins |-> P, tlbs |-> kmd.tlbs, lock |-> kmd.lock]
    BY <2>1, <2>3, MemoryAt
  <2>5. PICK C : C = [b.chan EXCEPT ![n].phys = TRUE]
    OBVIOUS
  <2>7. PICK s : s = [b EXCEPT !.k = n, !.chan = C, !.warned = b.warned \/ q.noc # b.k * Region]
    OBVIOUS
  <2>8. hostProc' = [hostProc EXCEPT ![p] = s]
    <3>1. ChannelPinned(b, q.noc) = s
      BY ONLY <1>2, <2>5, <2>7, Zenon DEF ChannelPinned
    <3> QED
      BY <1>1, <2>1, <3>1, Zenon
  <2>9. IsProcess(s) /\ s.maps = b.maps /\ s.chan = C /\ s.iommu = b.iommu /\ s.isize = b.isize /\ s.tlb = b.tlb
        /\ s.pc = b.pc /\ s.k = n
    BY ONLY <1>3, <2>7 DEF IsProcess
  <2>10. /\ Len(b.chan) \in Nat /\ DOMAIN b.chan = 1 .. Len(b.chan) /\ \A i \in DOMAIN b.chan : IsChannel(b.chan[i])
         /\ b.k \in 0 .. Len(b.chan)
    BY <1>3, <1>4 DEF ProcessInv, ChannelsOf
  <2>11. n \in DOMAIN b.chan /\ n \in 0 .. Len(b.chan)
    BY ONLY <1>2, <1>7, <2>10
  <2>12. DOMAIN C = DOMAIN b.chan /\ Len(C) = Len(b.chan) /\ \A i \in DOMAIN b.chan : IsChannel(C[i]) /\ C[i].map = b.chan[i].map
    <3>1. DOMAIN C = 1 .. Len(b.chan) /\ Len(C) = Len(b.chan)
      BY ONLY <2>5, <2>10
    <3>2. PICK c : c = b.chan[n]
      OBVIOUS
    <3>3. PICK d : d = [c EXCEPT !.phys = TRUE]
      OBVIOUS
    <3>4. \A i \in DOMAIN b.chan : C[i] = IF i = n THEN d ELSE b.chan[i]
      BY ONLY <2>5, <3>2, <3>3
    <3>5. IsChannel(c)
      BY ONLY <2>10, <2>11, <3>2
    <3>6. IsChannel(d) /\ d.map = c.map
      BY ONLY <3>3, <3>5 DEF IsChannel
    <3> QED
      BY ONLY <2>10, <3>1, <3>2, <3>4, <3>6
  <2>13. ChannelsOf(s)
    BY ONLY <2>9, <2>10, <2>11, <2>12 DEF ChannelsOf
  <2>14. ~b.iommu
    BY <1>3, <1>4 DEF ProcessInv, Backed
  <2>15. Backed(s)
    BY <1>3, <2>9, <2>12, <2>14 DEF ProcessInv, Backed
  <2>16. Freed(s) = Freed(b)
    BY <2>9, <2>12, <2>14 DEF Freed
  <2>17. ProcessInv(s)
    BY <1>3, <1>4, <2>9, <2>13, <2>15, <2>16 DEF ProcessInv, Accounted, Cleared
  <2>18. DriverInv(p, s, P, kmd.tlbs, kmd.lock)
    <3>1. [of |-> b.chan[n].map, len |-> Region] \in b.maps
      BY <1>3, <1>7, <2>11, <2>14 DEF ProcessInv, Backed
    <3>2. ActualSize(b.k) \in Nat /\ ActualSize(b.k) <= Region /\ Region \in Nat
      BY MemoryFacts, MemoryAt DEF ActualSize
    <3>3. PICK m : m = [of |-> b.chan[n].map, len |-> Region]
      OBVIOUS
    <3>4. m \in s.maps /\ m.of = q.of /\ q.va + q.len <= m.len
      BY <2>2, <2>9, <3>1, <3>2, <3>3
    <3>5. Covered(q, s.maps)
      BY <3>4 DEF Covered
    <3>6. DriverInv(p, s, kmd.pins, kmd.tlbs, kmd.lock)
      BY <1>3, <1>4, <2>9, SameDriver
    <3> QED
      BY <1>4, <2>3, <2>9, <3>5, <3>6 DEF DriverInv, Ended
  <2>19. \A r \in P : r.p = p \/ r \in kmd.pins
    BY <2>2, <2>3
  <2> QED
    BY <1>4, <2>4, <2>8, <2>17, <2>18, <2>19, ProcessStep
<1> QED
  BY <1>5, <1>6, <1>7

(* The members of a process without objects.                                 *)
LEMMA FreshIs ==
  ASSUME NEW n, NEW s, s = [FreshProcess EXCEPT !.lives = n]
  PROVE  /\ IsProcess(s) /\ s.pc = "none" /\ s.fd = FALSE /\ s.handle = FALSE /\ s.maps = {} /\ s.chan = <<>> /\ s.iommu = FALSE
         /\ s.tlb = Absent
  BY DEF FreshProcess, IsProcess

(* A process without a manager, with the BAR and the DMA buffer mapped.      *)
LEMMA BareProcess ==
  ASSUME NEW s, IsProcess(s), s.chan = <<>>, s.iommu = FALSE, s.pc \in {"none", "threw", "opened", "destroyed"}, s.tlb = Absent,
         \A m \in s.maps : m.of \in {"bar", "dma"}, s.pc = "destroyed" => ~s.fd /\ ~s.handle /\ s.maps = {}
  PROVE  ProcessInv(s)
<1>1. ChannelsOf(s)
  BY DEF ChannelsOf
<1>2. Backed(s)
  BY DEF Backed
<1>3. Accounted(s)
  BY DEF Accounted
<1> QED
  BY <1>1, <1>2, <1>3 DEF ProcessInv, Cleared

LEMMA OpenDeviceMemory ==
  ASSUME MemoryInv, NEW p \in HostProcs, OpenDevice(p)
  PROVE  MemoryInv'
<1>1. PICK b : b = hostProc[p]
  OBVIOUS
<1>2. ProcessInv(b) /\ DriverInv(p, b, kmd.pins, kmd.tlbs, kmd.lock) /\ b.pc = "none" /\ b.tlb = Absent
  BY <1>1, MemoryAt DEF ProcessInv, Cleared, OpenDevice
<1>3. (\A q \in kmd.pins : q.p # p) /\ p \notin kmd.tlbs /\ kmd.lock # p
  BY <1>2 DEF DriverInv, Ended
<1>4. PICK n : n = hostProc[p].lives + 1
  OBVIOUS
<1>5. PICK f : f = [FreshProcess EXCEPT !.lives = MaxLives]
  OBVIOUS
<1>6. PICK g : g = [FreshProcess EXCEPT !.lives = n]
  OBVIOUS
<1>7. /\ IsProcess(f) /\ f.pc = "none" /\ f.fd = FALSE /\ f.handle = FALSE /\ f.maps = {} /\ f.chan = <<>> /\ f.iommu = FALSE
      /\ f.tlb = Absent
  BY ONLY <1>5, FreshIs
<1>8. /\ IsProcess(g) /\ g.pc = "none" /\ g.fd = FALSE /\ g.handle = FALSE /\ g.maps = {} /\ g.chan = <<>> /\ g.iommu = FALSE
      /\ g.tlb = Absent
  BY ONLY <1>6, FreshIs
<1>9. PICK z \in Nat : z = AllocatePcieDmaBuffer
  BY DmaBufferSize, MemoryAt
<1>10. PICK D : D = IF z > 0 THEN {[of |-> "dma", len |-> z + Page]} ELSE {}
  OBVIOUS
<1>11. PICK N : N = IF hostEnv.iommu /\ z > 0 THEN TryAllocateIommu(p, z) ELSE {}
  OBVIOUS
<1>12. PICK B : B = {[of |-> "bar", len |-> Page]}
  OBVIOUS
<1>13. PICK s1 : s1 = [f EXCEPT !.pc = "destroyed"]
  OBVIOUS
<1>14. PICK s2 : s2 = [g EXCEPT !.fd = TRUE, !.pc = "threw"]
  OBVIOUS
<1>15. PICK s3 : s3 = [g EXCEPT !.fd = TRUE, !.pc = "threw", !.handle = TRUE, !.maps = B]
  OBVIOUS
<1>16. PICK s4 : s4 = [g EXCEPT !.fd = TRUE, !.pc = "opened", !.handle = TRUE, !.dma = z, !.maps = B \cup D]
  OBVIOUS
<1>17. /\ hostEnv' = hostEnv
       /\ \/ hostProc' = [hostProc EXCEPT ![p] = s1] /\ kmd' = kmd
          \/ hostProc' = [hostProc EXCEPT ![p] = s2] /\ kmd' = kmd
          \/ hostProc' = [hostProc EXCEPT ![p] = s3] /\ kmd' = kmd
          \/ hostProc' = [hostProc EXCEPT ![p] = s4] /\ kmd' = [kmd EXCEPT !.pins = @ \cup N]
  <2>1. s1 = [FreshProcess EXCEPT !.pc = "destroyed", !.lives = MaxLives]
    BY ONLY <1>5, <1>13 DEF FreshProcess
  <2>2. PICK o : o = [FreshProcess EXCEPT !.fd = TRUE, !.lives = n]
    OBVIOUS
  <2>3. s2 = [o EXCEPT !.pc = "threw"]
    BY ONLY <1>6, <1>14, <2>2 DEF FreshProcess
  <2>4. s3 = [o EXCEPT !.pc = "threw", !.handle = TRUE, !.maps = B]
    BY ONLY <1>6, <1>15, <2>2 DEF FreshProcess
  <2>5. s4 = [o EXCEPT !.pc = "opened", !.handle = TRUE, !.dma = z, !.maps = B \cup D]
    BY ONLY <1>6, <1>16, <2>2 DEF FreshProcess
  <2> QED
    BY <1>4, <1>9, <1>10, <1>11, <1>12, <2>1, <2>2, <2>3, <2>4, <2>5, Zenon DEF OpenDevice
<1>18. kmd = [pins |-> kmd.pins, tlbs |-> kmd.tlbs, lock |-> kmd.lock]
  BY MemoryAt
<1>19. CASE hostProc' = [hostProc EXCEPT ![p] = s1] /\ kmd' = kmd
  <2>1. /\ IsProcess(s1) /\ s1.pc = "destroyed" /\ s1.fd = FALSE /\ s1.handle = FALSE /\ s1.maps = {} /\ s1.chan = <<>>
        /\ s1.iommu = FALSE /\ s1.tlb = Absent
    BY ONLY <1>7, <1>13 DEF IsProcess
  <2>2. ProcessInv(s1)
    BY <2>1, BareProcess
  <2>3. DriverInv(p, s1, kmd.pins, kmd.tlbs, kmd.lock)
    BY <1>3 DEF DriverInv
  <2> QED
    BY <1>17, <1>18, <1>19, <2>2, <2>3, ProcessStep
<1>20. CASE hostProc' = [hostProc EXCEPT ![p] = s2] /\ kmd' = kmd
  <2>1. IsProcess(s2) /\ s2.pc = "threw" /\ s2.maps = {} /\ s2.chan = <<>> /\ s2.iommu = FALSE /\ s2.tlb = Absent
    BY ONLY <1>8, <1>14 DEF IsProcess
  <2>2. ProcessInv(s2)
    BY <2>1, BareProcess
  <2>3. DriverInv(p, s2, kmd.pins, kmd.tlbs, kmd.lock)
    BY <1>3 DEF DriverInv
  <2> QED
    BY <1>17, <1>18, <1>20, <2>2, <2>3, ProcessStep
<1>21. CASE hostProc' = [hostProc EXCEPT ![p] = s3] /\ kmd' = kmd
  <2>1. IsProcess(s3) /\ s3.pc = "threw" /\ s3.maps = B /\ s3.chan = <<>> /\ s3.iommu = FALSE /\ s3.tlb = Absent
    BY ONLY <1>8, <1>15 DEF IsProcess
  <2>2. \A m \in B : m.of \in {"bar", "dma"}
    BY <1>12
  <2>3. ProcessInv(s3)
    BY <2>1, <2>2, BareProcess
  <2>4. DriverInv(p, s3, kmd.pins, kmd.tlbs, kmd.lock)
    BY <1>3 DEF DriverInv
  <2> QED
    BY <1>17, <1>18, <1>21, <2>3, <2>4, ProcessStep
<1>22. CASE hostProc' = [hostProc EXCEPT ![p] = s4] /\ kmd' = [kmd EXCEPT !.pins = @ \cup N]
  <2>1. IsProcess(s4) /\ s4.pc = "opened" /\ s4.maps = B \cup D /\ s4.chan = <<>> /\ s4.iommu = FALSE /\ s4.tlb = Absent
    BY ONLY <1>8, <1>16 DEF IsProcess
  <2>2. \A m \in B \cup D : m.of \in {"bar", "dma"}
    BY <1>10, <1>12
  <2>3. ProcessInv(s4)
    BY <2>1, <2>2, BareProcess
  <2>4. PICK P : P = kmd.pins \cup N
    OBVIOUS
  <2>5. kmd' = [pins |-> P, tlbs |-> kmd.tlbs, lock |-> kmd.lock]
    BY <1>18, <1>22, <2>4
  <2>6. ASSUME NEW q \in N PROVE q.p = p /\ Covered(q, s4.maps)
    <3>1. z > 0 /\ q \in TtPinPages(p, "dma", 0, z + Page, FALSE)
      BY <1>11, <2>6 DEF TryAllocateIommu
    <3>2. q.p = p /\ q.of = "dma" /\ q.va = 0 /\ q.len = z + Page
      BY ONLY <3>1 DEF TtPinPages, Pin
    <3>3. PICK m : m = [of |-> "dma", len |-> z + Page]
      OBVIOUS
    <3>4. Page \in Nat
      BY MemoryFacts, MemoryAt
    <3>5. m \in s4.maps /\ m.of = q.of /\ q.va + q.len <= m.len
      BY <1>10, <2>1, <3>1, <3>2, <3>3, <3>4
    <3> QED
      BY <3>2, <3>5 DEF Covered
  <2>7. DriverInv(p, s4, P, kmd.tlbs, kmd.lock)
    BY <1>3, <2>1, <2>4, <2>6 DEF DriverInv, Ended
  <2>8. \A q \in P : q.p = p \/ q \in kmd.pins
    BY <2>4, <2>6
  <2>9. hostProc' = [hostProc EXCEPT ![p] = s4] /\ hostEnv' = hostEnv
    BY <1>17, <1>22
  <2>10. kmd.lock \in {p, Absent, kmd.lock} /\ \A r \in kmd.tlbs : r = p \/ r \in kmd.tlbs
    OBVIOUS
  <2> QED
    BY ONLY MemoryInv, p \in HostProcs, <2>3, <2>5, <2>7, <2>8, <2>9, <2>10, ProcessStep
<1> QED
  BY <1>17, <1>19, <1>20, <1>21, <1>22

(* The process ends: the driver releases what it held.                       *)
LEMMA ExitProcessMemory ==
  ASSUME MemoryInv, NEW p \in HostProcs, ExitProcess(p)
  PROVE  MemoryInv'
<1>1. PICK n : n = hostProc[p].lives
  OBVIOUS
<1>2. PICK s : s = [FreshProcess EXCEPT !.lives = n]
  OBVIOUS
<1>3. hostProc' = [hostProc EXCEPT ![p] = s] /\ hostEnv' = hostEnv
  BY <1>1, <1>2, Zenon DEF ExitProcess
<1>4. /\ IsProcess(s) /\ s.pc = "none" /\ s.fd = FALSE /\ s.handle = FALSE /\ s.maps = {} /\ s.chan = <<>> /\ s.iommu = FALSE
      /\ s.tlb = Absent
  BY ONLY <1>2, FreshIs
<1>5. ProcessInv(s)
  BY <1>4, BareProcess
<1>6. PICK P : P = {q \in kmd.pins : q.p # p}
  OBVIOUS
<1>7. PICK T : T = {t \in kmd.tlbs : t # p}
  OBVIOUS
<1>8. PICK L : L = IF kmd.lock = p THEN Absent ELSE kmd.lock
  OBVIOUS
<1>9. kmd' = [pins |-> P, tlbs |-> T, lock |-> L]
  BY <1>6, <1>7, <1>8, Zenon DEF ExitProcess, Released
<1>10. L # p
  BY <1>8, MemoryFacts, MemoryAt
<1>11. DriverInv(p, s, P, T, L)
  BY <1>6, <1>7, <1>10 DEF DriverInv
<1>12. (\A q \in P : q.p = p \/ q \in kmd.pins) /\ (\A r \in T : r = p \/ r \in kmd.tlbs) /\ L \in {p, Absent, kmd.lock}
  BY <1>6, <1>7, <1>8
<1> QED
  BY ONLY MemoryInv, p \in HostProcs, <1>3, <1>5, <1>9, <1>11, <1>12, ProcessStep

(* The manager, with the IOMMU or with hugepages.                            *)
LEMMA InitIommuMemory ==
  ASSUME hostEnv \in HostEnv, NEW s, ProcessInv(s), s.chan = <<>>, s.iommu = FALSE, s.pc = "ready", hostEnv.iommu,
         NEW t, t = InitIommu(s, hostEnv.channels)
  PROVE  ProcessInv(t) /\ t.pc = "ready" /\ s.maps \subseteq t.maps /\ t.tlb = s.tlb
<1>1. CASE hostEnv.channels = 0
  BY <1>1 DEF InitIommu
<1>2. CASE hostEnv.channels # 0
  <2>1. PICK n \in Nat : n = hostEnv.channels
    BY MemoryFacts
  <2>2. PICK z : z = hostEnv.channels * Region
    OBVIOUS
  <2>3. z \in Nat /\ Region \in Nat /\ Ch3Limit \in Nat /\ Ch3Limit < Region
    BY <2>1, <2>2, MemoryFacts
  <2>4. PICK y : y = IF Wormhole /\ hostEnv.channels = 4 THEN z - (Region - Ch3Limit) ELSE z
    OBVIOUS
  <2>5. y \in Nat /\ y <= z /\ (y # z => Carveout)
    <3>1. CASE Wormhole /\ n = 4
      <4>1. z = 4 * Region
        BY <2>1, <2>2, <3>1
      <4>2. y = z - (Region - Ch3Limit)
        BY <2>1, <2>4, <3>1
      <4>3. y \in Nat /\ y <= z
        BY ONLY <2>3, <4>1, <4>2
      <4> QED
        BY <2>1, <3>1, <4>3 DEF Carveout
    <3>2. CASE ~(Wormhole /\ n = 4)
      BY <2>1, <2>3, <2>4, <3>2
    <3> QED
      BY <3>1, <3>2
  <2>6. PICK m : m = [of |-> "iommu", len |-> z]
    OBVIOUS
  <2>7. PICK M : M = s.maps \cup {m}
    OBVIOUS
  <2>8. PICK C : C = IommuChannels(hostEnv.channels)
    OBVIOUS
  <2>10. IsProcess(s)
    BY DEF ProcessInv
  <2>9. t = [s EXCEPT !.iommu = TRUE, !.isize = y, !.maps = M, !.chan = C]
    BY ONLY <1>2, <2>2, <2>4, <2>6, <2>7, <2>8, <2>10, t = InitIommu(s, hostEnv.channels) DEF InitIommu, IsProcess
  <2>11. IsProcess(t) /\ t.iommu = TRUE /\ t.isize = y /\ t.maps = M /\ t.chan = C /\ t.pc = s.pc /\ t.tlb = s.tlb
    BY ONLY <2>9, <2>10 DEF IsProcess
  <2>12. DOMAIN C = 1 .. n /\ Len(C) = n /\ \A i \in DOMAIN C : IsChannel(C[i])
    <3>1. DOMAIN C = 1 .. n
      BY <2>1, <2>8 DEF IommuChannels
    <3>2. Len(C) = n
      BY ONLY n \in Nat, <3>1
    <3>3. ASSUME NEW i \in 1 .. n PROVE IsChannel(C[i])
      <4>1. PICK size : size = ActualSize(i - 1)
        OBVIOUS
      <4>2. PICK c : c = [map |-> "iommu", size |-> size, phys |-> FALSE]
        OBVIOUS
      <4>3. C[i] = c
        BY <2>1, <2>8, <4>1, <4>2 DEF IommuChannels
      <4> QED
        BY ONLY <4>2, <4>3 DEF IsChannel
    <3> QED
      BY <3>1, <3>2, <3>3
  <2>13. ChannelsOf(t)
    BY <2>11, <2>12 DEF ChannelsOf
  <2>14. Backed(t)
    BY <2>1, <2>2, <2>5, <2>6, <2>7, <2>11, <2>12 DEF Backed
  <2>15. Accounted(t)
    BY <2>6, <2>7, <2>11 DEF ProcessInv, Accounted, Freed
  <2> QED
    BY <2>7, <2>11, <2>13, <2>14, <2>15 DEF ProcessInv, Cleared
<1> QED
  BY <1>1, <1>2

LEMMA InitHugepagesMemory ==
  ASSUME hostEnv \in HostEnv, NEW s, ProcessInv(s), s.chan = <<>>, s.iommu = FALSE, s.pc = "ready",
         NEW t, t = InitHugepages(s, hostEnv.channels)
  PROVE  ProcessInv(t) /\ t.pc = "ready" /\ s.maps \subseteq t.maps /\ t.tlb = s.tlb
<1>1. CASE hostEnv.channels = 0 \/ ~hostEnv.hugepageDir
  BY <1>1 DEF InitHugepages
<1>2. CASE ~(hostEnv.channels = 0 \/ ~hostEnv.hugepageDir)
  <2>1. PICK n : n = GetAvailableNumHostMemChannels(hostEnv.machine, hostEnv.channels)
    OBVIOUS
  <2>2. n \in Nat /\ n <= 4
    <3>1. PICK k \in Nat : k = hostEnv.channels /\ k <= 4
      BY MemoryFacts
    <3>2. n \in Nat /\ n <= k
      BY <2>1, <3>1, ChannelsCount
    <3> QED
      BY ONLY k \in Nat, <3>1, <3>2
  <2>3. PICK C : C = HugepageChannels(n)
    OBVIOUS
  <2>4. PICK N : N = HugepageMaps(n)
    OBVIOUS
  <2>5. PICK M : M = s.maps \cup N
    OBVIOUS
  <2>7. IsProcess(s)
    BY DEF ProcessInv
  <2>6. t = [s EXCEPT !.chan = C, !.maps = M]
    BY ONLY <1>2, <2>1, <2>3, <2>4, <2>5, <2>7, t = InitHugepages(s, hostEnv.channels) DEF InitHugepages, IsProcess
  <2>8. IsProcess(t) /\ t.iommu = s.iommu /\ t.maps = M /\ t.chan = C /\ t.pc = s.pc /\ t.tlb = s.tlb
    BY ONLY <2>6, <2>7 DEF IsProcess
  <2>9. DOMAIN C = 1 .. n /\ Len(C) = n /\ \A i \in DOMAIN C : IsChannel(C[i])
    <3>1. DOMAIN C = 1 .. n
      BY <2>3 DEF HugepageChannels
    <3>2. Len(C) = n
      BY ONLY <2>2, <3>1
    <3>3. ASSUME NEW i \in 1 .. n PROVE IsChannel(C[i])
      <4>1. PICK c : c = [map |-> HugepageName[i], size |-> Region, phys |-> FALSE]
        OBVIOUS
      <4>2. PICK d : d = [map |-> Absent, size |-> 0, phys |-> FALSE]
        OBVIOUS
      <4>3. C[i] = IF i - 1 \in Files(n) THEN c ELSE d
        BY <2>3, <4>1, <4>2 DEF HugepageChannels
      <4>4. IsChannel(c) /\ IsChannel(d)
        BY ONLY <4>1, <4>2 DEF IsChannel
      <4> QED
        BY ONLY <4>3, <4>4
    <3> QED
      BY <3>1, <3>2, <3>3
  <2>10. ChannelsOf(t)
    BY <2>2, <2>8, <2>9 DEF ChannelsOf
  <2>11. \A i \in DOMAIN C : C[i].map # Absent => [of |-> C[i].map, len |-> Region] \in N
    <3> SUFFICES ASSUME NEW i \in DOMAIN C, C[i].map # Absent
                 PROVE  [of |-> C[i].map, len |-> Region] \in N
      OBVIOUS
    <3>1. i \in 1 .. n /\ i - 1 \in Files(n) /\ C[i].map = HugepageName[i]
      BY <2>3, <2>9 DEF HugepageChannels
    <3>2. PICK j : j = i - 1
      OBVIOUS
    <3>3. j \in Files(n) /\ j + 1 = i
      BY ONLY <2>2, <3>1, <3>2
    <3> QED
      BY <2>4, <3>1, <3>3 DEF HugepageMaps
  <2>12. Backed(t)
    BY <2>5, <2>8, <2>11 DEF Backed
  <2>13. ASSUME NEW m \in N PROVE m.of \in Freed(t)
    <3>1. PICK ch \in Files(n) : m = [of |-> HugepageName[ch + 1], len |-> Region]
      BY <2>4 DEF HugepageMaps
    <3>2. PICK i : i = ch + 1
      OBVIOUS
    <3>3. ch \in 0 .. (n - 1)
      BY DEF Files
    <3>4. i \in 1 .. n /\ i - 1 = ch /\ i \in 1 .. 4
      BY ONLY <2>2, <3>2, <3>3
    <3>5. C[i].map = m.of
      BY <2>3, <3>1, <3>2, <3>4 DEF HugepageChannels
    <3>6. HugepageName[i] # Absent
      <4>1. i = 1 \/ i = 2 \/ i = 3 \/ i = 4
        BY ONLY <3>4
      <4> QED
        BY <4>1, HostMemoryAssumption DEF HugepageName
    <3>7. C[i].map # Absent
      BY <3>1, <3>2, <3>5, <3>6
    <3> QED
      BY <2>8, <2>9, <3>4, <3>5, <3>7 DEF Freed
  <2>14. Accounted(t)
    <3> SUFFICES ASSUME NEW m \in s.maps PROVE m.of \in {"bar", "dma"} \cup Freed(t) \/ (Carveout /\ m.of = "rest")
      BY <2>5, <2>8, <2>13 DEF Accounted
    <3>1. Freed(s) = {}
      BY DEF Freed
    <3> QED
      BY <3>1 DEF ProcessInv, Accounted
  <2> QED
    BY <2>5, <2>8, <2>10, <2>12, <2>14 DEF ProcessInv, Cleared
<1> QED
  BY <1>1, <1>2

LEMMA CreateSysmemMemory ==
  ASSUME MemoryInv, NEW p \in HostProcs, CreateSysmem(p)
  PROVE  MemoryInv'
<1>1. PICK b : b = hostProc[p]
  OBVIOUS
<1>2. PICK s : s = [b EXCEPT !.pc = "ready"]
  OBVIOUS
<1>3. /\ ProcessInv(b) /\ DriverInv(p, b, kmd.pins, kmd.tlbs, kmd.lock) /\ IsProcess(b) /\ b.chan = <<>> /\ b.iommu = FALSE
      /\ hostEnv \in HostEnv
  BY <1>1, MemoryAt DEF ProcessInv, CreateSysmem, Cleared
<1>4. IsProcess(s) /\ s.maps = b.maps /\ s.chan = b.chan /\ s.iommu = b.iommu /\ s.isize = b.isize /\ s.tlb = b.tlb /\ s.pc = "ready"
  BY ONLY <1>2, <1>3 DEF IsProcess
<1>5. ProcessInv(s)
  BY <1>3, <1>4, SameObjects
<1>6. PICK t : t = IF hostEnv.iommu THEN InitIommu(s, hostEnv.channels) ELSE InitHugepages(s, hostEnv.channels)
  OBVIOUS
<1>7. hostProc' = [hostProc EXCEPT ![p] = t] /\ kmd' = kmd /\ hostEnv' = hostEnv
  BY <1>1, <1>2, <1>6, Zenon DEF CreateSysmem
<1>8. ProcessInv(t) /\ t.pc = "ready" /\ s.maps \subseteq t.maps /\ t.tlb = s.tlb
  <2>1. CASE hostEnv.iommu
    BY <1>3, <1>4, <1>5, <1>6, <2>1, InitIommuMemory
  <2>2. CASE ~hostEnv.iommu
    BY <1>3, <1>4, <1>5, <1>6, <2>2, InitHugepagesMemory
  <2> QED
    BY <2>1, <2>2
<1>9. DriverInv(p, t, kmd.pins, kmd.tlbs, kmd.lock)
  BY <1>3, <1>4, <1>8, SameDriver
<1>10. kmd' = [pins |-> kmd.pins, tlbs |-> kmd.tlbs, lock |-> kmd.lock]
  BY <1>7, MemoryAt
<1> QED
  BY <1>7, <1>8, <1>9, <1>10, ProcessStep

------------------------------------------------------------------------------
(* unpin_or_unmap_sysmem: what stays pinned is still mapped, and only the    *)
(* BAR, the DMA buffer and the carve-out stay mapped.                        *)
LEMMA UnpinOrUnmapLeaves ==
  ASSUME MemoryInv, NEW p \in HostProcs, NEW b, b = hostProc[p],
         NEW a, a = UnpinOrUnmap(p).s, NEW O, O = UnpinOrUnmap(p).pins
  PROVE  /\ IsProcess(a) /\ a.chan = <<>> /\ a.iommu = FALSE /\ a.tlb = b.tlb
         /\ O \subseteq kmd.pins
         /\ \A m \in a.maps : m.of \in {"bar", "dma"} \/ (Carveout /\ m.of = "rest")
         /\ \A q \in O : q.p = p => Covered(q, a.maps)
<1>1. ProcessInv(b) /\ DriverInv(p, b, kmd.pins, kmd.tlbs, kmd.lock) /\ IsProcess(b)
  BY MemoryAt DEF ProcessInv
<1>2. PICK F : F = Freed(b)
  OBVIOUS
<1>3. PICK R : R = IF b.iommu /\ b.isize < Len(b.chan) * Region
                   THEN {[of |-> "rest", len |-> Len(b.chan) * Region - b.isize]} ELSE {}
  OBVIOUS
<1>4. PICK M : M = {m \in b.maps : m.of \notin F} \cup R
  OBVIOUS
<1>5. PICK P : P = {q \in kmd.pins : ~(q.p = p /\ q.of \in F)}
  OBVIOUS
<1>6. PICK s : s = [b EXCEPT !.buf = FALSE, !.iommu = FALSE, !.chan = <<>>, !.maps = M]
  OBVIOUS
<1>7. a = s /\ O = P
  BY <1>2, <1>3, <1>4, <1>5, <1>6 DEF UnpinOrUnmap, Freed
<1>8. IsProcess(s) /\ s.chan = <<>> /\ s.iommu = FALSE /\ s.maps = M /\ s.tlb = b.tlb
  BY ONLY <1>1, <1>6 DEF IsProcess
<1>9. \A m \in R : Carveout /\ m.of = "rest"
  <2> SUFFICES ASSUME NEW m \in R PROVE Carveout /\ m.of = "rest"
    OBVIOUS
  <2>1. b.iommu /\ b.isize < Len(b.chan) * Region /\ m.of = "rest"
    BY <1>3
  <2>2. Len(b.chan) = hostEnv.channels /\ b.isize \in Nat /\ (b.isize # hostEnv.channels * Region => Carveout)
    BY <1>1, <2>1 DEF ProcessInv, Backed
  <2>3. PICK z : z = hostEnv.channels * Region
    OBVIOUS
  <2>4. b.isize < z
    BY <2>1, <2>2, <2>3
  <2>5. z \in Nat
    BY <2>3, MemoryFacts, MemoryAt
  <2>6. b.isize # z
    BY ONLY <2>2, <2>4, <2>5
  <2> QED
    BY <2>1, <2>2, <2>3, <2>6
<1>10. \A m \in M : m.of \in {"bar", "dma"} \/ (Carveout /\ m.of = "rest")
  BY <1>1, <1>2, <1>4, <1>9 DEF ProcessInv, Accounted
<1>11. ASSUME NEW q \in P, q.p = p PROVE Covered(q, M)
  <2>1. q \in kmd.pins /\ q.of \notin F
    BY <1>5, <1>11
  <2>2. Covered(q, b.maps)
    BY <1>1, <1>11, <2>1 DEF DriverInv
  <2> QED
    BY <1>4, <2>1, <2>2 DEF Covered
<1> QED
  BY <1>5, <1>7, <1>8, <1>10, <1>11

LEMMA CloseLocalChipMemory ==
  ASSUME MemoryInv, NEW p \in HostProcs, CloseLocalChip(p)
  PROVE  MemoryInv'
<1>1. PICK b : b = hostProc[p]
  OBVIOUS
<1>2. PICK v, O : v = UnpinOrUnmap(p).s /\ O = UnpinOrUnmap(p).pins
  OBVIOUS
<1>13. /\ IsProcess(v) /\ v.chan = <<>> /\ v.iommu = FALSE /\ v.tlb = b.tlb /\ O \subseteq kmd.pins
       /\ \A m \in v.maps : m.of \in {"bar", "dma"} \/ (Carveout /\ m.of = "rest")
       /\ \A q \in O : q.p = p => Covered(q, v.maps)
  BY ONLY MemoryInv, p \in HostProcs, <1>1, <1>2, UnpinOrUnmapLeaves, ZenonT(60)
<1>3. ProcessInv(b) /\ DriverInv(p, b, kmd.pins, kmd.tlbs, kmd.lock) /\ IsProcess(b)
  BY <1>1, MemoryAt DEF ProcessInv
<1>4. PICK a : a = IF busy THEN v ELSE b
  OBVIOUS
<1>5. PICK P : P = IF busy THEN O ELSE kmd.pins
  OBVIOUS
<1>6. PICK s : s = [a EXCEPT !.pc = "ready"]
  OBVIOUS
<1>7. hostProc' = [hostProc EXCEPT ![p] = s] /\ hostEnv' = hostEnv
  BY <1>1, <1>2, <1>4, <1>6, Zenon DEF CloseLocalChip
<1>8. kmd' = [pins |-> P, tlbs |-> kmd.tlbs, lock |-> Absent]
  <2>1. kmd' = [kmd EXCEPT !.pins = IF busy THEN O ELSE kmd.pins, !.lock = Absent]
    BY <1>2 DEF CloseLocalChip
  <2> QED
    BY <1>5, <2>1, MemoryAt
<1>9. IsProcess(a)
  BY <1>3, <1>4, <1>13
<1>10. IsProcess(s) /\ s.maps = a.maps /\ s.chan = a.chan /\ s.iommu = a.iommu /\ s.isize = a.isize /\ s.tlb = a.tlb /\ s.pc = "ready"
  BY ONLY <1>6, <1>9 DEF IsProcess
<1>11. ProcessInv(s) /\ DriverInv(p, s, P, kmd.tlbs, Absent) /\ \A q \in P : q \in kmd.pins
  <2>1. CASE ~busy
    <3>1. a = b /\ P = kmd.pins
      BY <1>4, <1>5, <2>1
    <3>2. ProcessInv(s)
      BY <1>3, <1>10, <3>1, SameObjects
    <3>3. DriverInv(p, s, P, kmd.tlbs, Absent)
      BY <1>3, <1>10, <3>1, SameDriver
    <3> QED
      BY <3>1, <3>2, <3>3
  <2>2. CASE busy
    <3>1. /\ a.chan = <<>> /\ a.iommu = FALSE /\ a.tlb = b.tlb /\ P \subseteq kmd.pins
          /\ \A m \in a.maps : m.of \in {"bar", "dma"} \/ (Carveout /\ m.of = "rest")
          /\ \A q \in P : q.p = p => Covered(q, a.maps)
      BY <1>4, <1>5, <1>13, <2>2
    <3>2. ChannelsOf(s)
      BY <1>10, <3>1 DEF ChannelsOf
    <3>3. Backed(s)
      BY <1>10, <3>1 DEF Backed
    <3>4. Accounted(s)
      BY <1>10, <3>1 DEF Accounted
    <3>5. ProcessInv(s)
      BY <1>10, <3>2, <3>3, <3>4 DEF ProcessInv, Cleared
    <3>6. DriverInv(p, s, P, kmd.tlbs, Absent)
      BY <1>3, <1>10, <3>1 DEF DriverInv, Ended
    <3> QED
      BY <3>1, <3>5, <3>6
  <2> QED
    BY <2>1, <2>2
<1>12. Absent \in {p, Absent, kmd.lock} /\ (\A r \in kmd.tlbs : r = p \/ r \in kmd.tlbs) /\ \A q \in P : q.p = p \/ q \in kmd.pins
  BY <1>11
<1> QED
  BY ONLY MemoryInv, p \in HostProcs, <1>7, <1>8, <1>11, <1>12, ProcessStep

(* ~LocalChip leaves nothing.                                                *)
LEMMA DestroyMemory ==
  ASSUME MemoryInv, NEW p \in HostProcs, Destroy(p)
  PROVE  MemoryInv'
<1>1. PICK b : b = hostProc[p]
  OBVIOUS
<1>2. PICK a, O : a = UnpinOrUnmap(p).s /\ O = UnpinOrUnmap(p).pins
  OBVIOUS
<1>4. /\ IsProcess(a) /\ a.chan = <<>> /\ a.iommu = FALSE /\ a.tlb = b.tlb /\ O \subseteq kmd.pins
      /\ \A m \in a.maps : m.of \in {"bar", "dma"} \/ (Carveout /\ m.of = "rest")
  BY ONLY MemoryInv, p \in HostProcs, <1>1, <1>2, UnpinOrUnmapLeaves, ZenonT(60)
<1>5. PICK M : M = {m \in a.maps : m.of \notin {"bar", "dma"}}
  OBVIOUS
<1>6. PICK s : s = [a EXCEPT !.pc = "destroyed", !.fd = FALSE, !.handle = FALSE, !.dma = 0, !.maps = M]
  OBVIOUS
<1>7. PICK P : P = {q \in O : q.p # p}
  OBVIOUS
<1>8. PICK T : T = {t \in kmd.tlbs : t # p}
  OBVIOUS
<1>9. PICK L : L = IF kmd.lock = p THEN Absent ELSE kmd.lock
  OBVIOUS
<1>10. hostProc' = [hostProc EXCEPT ![p] = s] /\ hostEnv' = hostEnv
  <2>1. hostProc' = [hostProc EXCEPT ![p] = [a EXCEPT !.pc = "destroyed", !.fd = FALSE, !.handle = FALSE, !.dma = 0,
                                               !.maps = {m \in a.maps : m.of \notin {"bar", "dma"}}]]
    BY <1>2 DEF Destroy
  <2> QED
    BY <1>5, <1>6, <2>1 DEF Destroy
<1>11. kmd' = [pins |-> P, tlbs |-> T, lock |-> L]
  BY <1>2, <1>7, <1>8, <1>9 DEF Destroy, Released
<1>12. IsProcess(s) /\ s.chan = <<>> /\ s.iommu = FALSE /\ s.maps = M /\ s.pc = "destroyed" /\ s.fd = FALSE /\ s.handle = FALSE
       /\ s.tlb = a.tlb
  BY ONLY <1>4, <1>6 DEF IsProcess
<1>13. \A m \in M : Carveout /\ m.of = "rest"
  BY <1>4, <1>5
<1>14. ProcessInv(s)
  <2>1. ChannelsOf(s)
    BY <1>12 DEF ChannelsOf
  <2>2. Backed(s)
    BY <1>12 DEF Backed
  <2>3. Accounted(s)
    BY <1>12, <1>13 DEF Accounted
  <2>4. Cleared(s)
    BY <1>12, <1>13 DEF Cleared
  <2> QED
    BY <1>12, <2>1, <2>2, <2>3, <2>4 DEF ProcessInv
<1>15. L # p
  BY <1>9, MemoryFacts, MemoryAt
<1>16. DriverInv(p, s, P, T, L)
  BY <1>7, <1>8, <1>15 DEF DriverInv
<1>17. (\A q \in P : q.p = p \/ q \in kmd.pins) /\ (\A r \in T : r = p \/ r \in kmd.tlbs) /\ L \in {p, Absent, kmd.lock}
  BY <1>4, <1>7, <1>8, <1>9
<1> QED
  BY ONLY MemoryInv, p \in HostProcs, <1>10, <1>11, <1>14, <1>16, <1>17, ProcessStep

------------------------------------------------------------------------------
(* Buffers of the user.                                                      *)
LEMMA MapSysmemBufferMemory ==
  ASSUME MemoryInv, NEW p \in HostProcs, NEW d \in hostEnv.ubufs, MapSysmemBuffer(p, d)
  PROVE  MemoryInv'
<1>1. PICK b : b = hostProc[p]
  OBVIOUS
<1>2. PICK U : U = b.ubufs \cup {d}
  OBVIOUS
<1>3. PICK s : s = [b EXCEPT !.ubufs = U]
  OBVIOUS
<1>4. ProcessInv(b) /\ DriverInv(p, b, kmd.pins, kmd.tlbs, kmd.lock) /\ IsProcess(b) /\ b.pc \in {"ready", "started"}
  BY <1>1, MemoryAt DEF ProcessInv, MapSysmemBuffer
<1>5. hostProc' = [hostProc EXCEPT ![p] = s] /\ hostEnv' = hostEnv
  BY <1>1, <1>2, <1>3, Zenon DEF MapSysmemBuffer
<1>6. IsProcess(s) /\ s.maps = b.maps /\ s.chan = b.chan /\ s.iommu = b.iommu /\ s.isize = b.isize /\ s.tlb = b.tlb /\ s.pc = b.pc
  BY ONLY <1>3, <1>4 DEF IsProcess
<1>7. ProcessInv(s)
  BY <1>4, <1>6, SameObjects
<1>8. PICK q : /\ \E va, len, toNoc : q \in TtPinPages(p, d.name, va, len, toNoc)
               /\ kmd' = [kmd EXCEPT !.pins = @ \cup {q}]
  <2>1. PICK q \in IF d.toNoc THEN MapBufferToNoc(p, d.name, AlignedVa(d), MappedSize(d), d.readOnly)
                   ELSE MapForDma(p, d.name, AlignedVa(d), MappedSize(d), d.readOnly) :
          kmd' = [kmd EXCEPT !.pins = @ \cup {q}]
    BY DEF MapSysmemBuffer
  <2>2. q \in TtPinPages(p, d.name, AlignedVa(d), MappedSize(d), TRUE) \/ q \in TtPinPages(p, d.name, AlignedVa(d), MappedSize(d), FALSE)
    BY <2>1 DEF MapBufferToNoc, MapForDma
  <2> QED
    BY <2>1, <2>2, Zenon
<1>9. q.p = p /\ q.of = d.name
  BY <1>8 DEF TtPinPages, Pin
<1>10. Covered(q, s.maps)
  BY <1>9 DEF Covered, BufferNames
<1>11. PICK P : P = kmd.pins \cup {q}
  OBVIOUS
<1>12. kmd' = [pins |-> P, tlbs |-> kmd.tlbs, lock |-> kmd.lock]
  BY <1>8, <1>11, MemoryAt
<1>13. DriverInv(p, s, kmd.pins, kmd.tlbs, kmd.lock)
  BY <1>4, <1>6, SameDriver
<1>14. DriverInv(p, s, P, kmd.tlbs, kmd.lock)
  BY <1>4, <1>6, <1>10, <1>11, <1>13 DEF DriverInv, Ended
<1>15. (\A r \in P : r.p = p \/ r \in kmd.pins) /\ (\A r \in kmd.tlbs : r = p \/ r \in kmd.tlbs) /\ kmd.lock \in {p, Absent, kmd.lock}
  BY <1>9, <1>11
<1> QED
  BY ONLY MemoryInv, p \in HostProcs, <1>5, <1>7, <1>12, <1>14, <1>15, ProcessStep

(* A step that changes no object of the process that the invariant names.    *)
LEMMA SameProcess ==
  ASSUME NEW b, NEW s, ProcessInv(b), IsProcess(s), s.maps = b.maps, s.chan = b.chan, s.iommu = b.iommu, s.isize = b.isize,
         s.pc = b.pc, s.k = b.k, s.tlb = b.tlb \/ s.pc # "none", s.fd = b.fd, s.handle = b.handle
  PROVE  ProcessInv(s)
<1>1. ChannelsOf(s)
  BY DEF ProcessInv, ChannelsOf
<1>2. Backed(s)
  BY DEF ProcessInv, Backed
<1>3. Accounted(s)
  BY DEF ProcessInv, Accounted, Freed
<1>4. Cleared(s)
  BY DEF ProcessInv, Cleared
<1> QED
  BY <1>1, <1>2, <1>3, <1>4 DEF ProcessInv

LEMMA DestroySysmemBufferMemory ==
  ASSUME MemoryInv, NEW p \in HostProcs, NEW d, DestroySysmemBuffer(p, d)
  PROVE  MemoryInv'
<1>1. PICK b : b = hostProc[p]
  OBVIOUS
<1>2. PICK U : U = b.ubufs \ {d}
  OBVIOUS
<1>3. PICK s : s = [b EXCEPT !.ubufs = U]
  OBVIOUS
<1>4. ProcessInv(b) /\ DriverInv(p, b, kmd.pins, kmd.tlbs, kmd.lock) /\ IsProcess(b)
  BY <1>1, MemoryAt DEF ProcessInv
<1>5. hostProc' = [hostProc EXCEPT ![p] = s] /\ hostEnv' = hostEnv
  BY <1>1, <1>2, <1>3, Zenon DEF DestroySysmemBuffer
<1>6. IsProcess(s) /\ s.maps = b.maps /\ s.chan = b.chan /\ s.iommu = b.iommu /\ s.isize = b.isize /\ s.tlb = b.tlb /\ s.pc = b.pc
      /\ s.k = b.k /\ s.fd = b.fd /\ s.handle = b.handle
  BY ONLY <1>3, <1>4 DEF IsProcess
<1>7. ProcessInv(s)
  BY <1>4, <1>6, SameProcess
<1>8. PICK P : P = UnmapForDma(kmd.pins, p, d.name)
  OBVIOUS
<1>9. kmd' = [pins |-> P, tlbs |-> kmd.tlbs, lock |-> kmd.lock]
  BY <1>8, MemoryAt DEF DestroySysmemBuffer
<1>10. P \subseteq kmd.pins
  BY <1>8 DEF UnmapForDma, TtUnpinPages
<1>11. DriverInv(p, s, P, kmd.tlbs, kmd.lock)
  BY <1>4, <1>6, <1>10 DEF DriverInv, Ended
<1>12. (\A r \in P : r.p = p \/ r \in kmd.pins) /\ (\A r \in kmd.tlbs : r = p \/ r \in kmd.tlbs) /\ kmd.lock \in {p, Absent, kmd.lock}
  BY <1>10
<1> QED
  BY ONLY MemoryInv, p \in HostProcs, <1>5, <1>7, <1>9, <1>11, <1>12, ProcessStep

(* Windows: a process has one of the driver's exactly while it is in a call. *)
LEMMA TlbMemory ==
  ASSUME MemoryInv, NEW p \in HostProcs, NEW v, NEW T,
         hostProc[p].pc # "none", hostProc' = [hostProc EXCEPT ![p] = [hostProc[p] EXCEPT !.tlb = v]], hostEnv' = hostEnv,
         kmd' = [pins |-> kmd.pins, tlbs |-> T, lock |-> kmd.lock],
         \A r \in T : r = p \/ r \in kmd.tlbs, v = Absent => p \notin T
  PROVE  MemoryInv'
<1>1. PICK b : b = hostProc[p]
  OBVIOUS
<1>2. PICK s : s = [b EXCEPT !.tlb = v]
  OBVIOUS
<1>3. ProcessInv(b) /\ DriverInv(p, b, kmd.pins, kmd.tlbs, kmd.lock) /\ IsProcess(b) /\ b.pc # "none"
  BY <1>1, MemoryAt DEF ProcessInv
<1>4. hostProc' = [hostProc EXCEPT ![p] = s]
  BY <1>1, <1>2, Zenon
<1>5. IsProcess(s) /\ s.maps = b.maps /\ s.chan = b.chan /\ s.iommu = b.iommu /\ s.isize = b.isize /\ s.tlb = v /\ s.pc = b.pc
      /\ s.k = b.k /\ s.fd = b.fd /\ s.handle = b.handle
  BY ONLY <1>2, <1>3 DEF IsProcess
<1>6. ProcessInv(s)
  BY <1>3, <1>5, SameProcess
<1>7. DriverInv(p, s, kmd.pins, T, kmd.lock)
  BY <1>3, <1>5 DEF DriverInv, Ended
<1>8. (\A r \in kmd.pins : r.p = p \/ r \in kmd.pins) /\ kmd.lock \in {p, Absent, kmd.lock}
  OBVIOUS
<1> QED
  BY <1>4, <1>6, <1>7, <1>8, ProcessStep

LEMMA TtTlbMemory ==
  ASSUME MemoryInv, NEW p \in HostProcs, TtTlbAlloc(p) \/ TtTlbMap(p) \/ TtTlbFree(p)
  PROVE  MemoryInv'
<1>1. kmd = [pins |-> kmd.pins, tlbs |-> kmd.tlbs, lock |-> kmd.lock] /\ Absent # "allocated" /\ Absent # "mapped"
  BY MemoryAt, MemoryFacts
<1>2. hostProc[p].tlb # Absent => hostProc[p].pc # "none"
  BY MemoryAt DEF ProcessInv, Cleared
<1>3. CASE TtTlbAlloc(p)
  <2>1. PICK T : T = kmd.tlbs \cup {p}
    OBVIOUS
  <2>2. kmd' = [pins |-> kmd.pins, tlbs |-> T, lock |-> kmd.lock]
    BY <1>1, <1>3, <2>1 DEF TtTlbAlloc
  <2>3. hostProc[p].pc # "none" /\ hostProc' = [hostProc EXCEPT ![p] = [hostProc[p] EXCEPT !.tlb = "allocated"]] /\ hostEnv' = hostEnv
    BY <1>3 DEF TtTlbAlloc
  <2> QED
    BY <1>1, <2>1, <2>2, <2>3, TlbMemory
<1>4. CASE TtTlbMap(p)
  <2>1. kmd' = [pins |-> kmd.pins, tlbs |-> kmd.tlbs, lock |-> kmd.lock]
    BY <1>1, <1>4 DEF TtTlbMap
  <2>2. hostProc[p].pc # "none" /\ hostProc' = [hostProc EXCEPT ![p] = [hostProc[p] EXCEPT !.tlb = "mapped"]] /\ hostEnv' = hostEnv
    BY <1>1, <1>2, <1>4 DEF TtTlbMap
  <2> QED
    BY <1>1, <2>1, <2>2, TlbMemory
<1>5. CASE TtTlbFree(p)
  <2>1. PICK T : T = kmd.tlbs \ {p}
    OBVIOUS
  <2>2. kmd' = [pins |-> kmd.pins, tlbs |-> T, lock |-> kmd.lock]
    BY <1>1, <1>5, <2>1 DEF TtTlbFree, FreeTlb
  <2>3. hostProc[p].pc # "none" /\ hostProc' = [hostProc EXCEPT ![p] = [hostProc[p] EXCEPT !.tlb = Absent]] /\ hostEnv' = hostEnv
    <3>1. hostProc[p].tlb \in {"allocated", "mapped"} /\ hostProc' = [hostProc EXCEPT ![p].tlb = Absent] /\ hostEnv' = hostEnv
      BY <1>5 DEF TtTlbFree
    <3>2. hostProc[p].tlb # Absent
      BY <1>1, <3>1
    <3> QED
      BY <1>2, <3>1, <3>2
  <2>4. (\A r \in T : r = p \/ r \in kmd.tlbs) /\ p \notin T
    BY <2>1
  <2>5. PICK v : v = Absent
    OBVIOUS
  <2>6. hostProc' = [hostProc EXCEPT ![p] = [hostProc[p] EXCEPT !.tlb = v]]
    BY <2>3, <2>5
  <2> QED
    BY ONLY MemoryInv, p \in HostProcs, <2>2, <2>3, <2>4, <2>6, TlbMemory
<1> QED
  BY <1>3, <1>4, <1>5

(* Nothing that the invariant names has changed.                             *)
LEMMA MemoryUnchanged ==
  ASSUME MemoryInv, hostEnv' = hostEnv, hostProc' = hostProc, kmd' = kmd
  PROVE  MemoryInv'
<1>1. Carveout' = Carveout /\ BufferNames' = BufferNames
  BY DEF Carveout, Wormhole, BufferNames
<1> QED
  BY <1>1 DEF MemoryInv, IsDriver, ProcessInv, IsProcess, ChannelsOf, IsChannel, Backed, Accounted, Freed, Cleared, DriverInv, Covered, Ended

LEMMA MemoryStep ==
  ASSUME MemoryInv, [HostNext]_hostVars
  PROVE  MemoryInv'
<1>1. CASE UNCHANGED hostVars \/ DeviceReset
  BY <1>1, MemoryUnchanged DEF hostVars, DeviceReset
<1>2. ASSUME NEW p \in HostProcs,
             \/ OpenDevice(p) \/ CreateSysmem(p) \/ StartLocalChip(p) \/ PinOrMapIommu(p) \/ PinOrMapHugepages(p)
             \/ CloseLocalChip(p) \/ Destroy(p) \/ ExitProcess(p)
             \/ TtTlbAlloc(p) \/ TtTlbMap(p) \/ TtTlbFree(p)
             \/ \E b \in hostEnv.ubufs : MapSysmemBuffer(p, b) \/ DestroySysmemBuffer(p, b)
      PROVE  MemoryInv'
  BY <1>2, OpenDeviceMemory, CreateSysmemMemory, StartLocalChipMemory, PinOrMapIommuMemory, PinOrMapHugepagesMemory,
     CloseLocalChipMemory, DestroyMemory, ExitProcessMemory, TtTlbMemory, MapSysmemBufferMemory, DestroySysmemBufferMemory
<1> QED
  BY <1>1, <1>2 DEF HostNext

LEMMA MemoryStart ==
  ASSUME HostInit
  PROVE  MemoryInv
<1>1. hostEnv \in HostEnv /\ kmd = [pins |-> {}, tlbs |-> {}, lock |-> Absent] /\ hostProc = [p \in HostProcs |-> FreshProcess]
  BY DEF HostInit
<1>2. IsDriver(kmd) /\ kmd.pins = {} /\ kmd.tlbs = {} /\ kmd.lock = Absent
  BY <1>1 DEF IsDriver
<1>3. ASSUME NEW p \in HostProcs
      PROVE  ProcessInv(hostProc[p]) /\ DriverInv(p, hostProc[p], kmd.pins, kmd.tlbs, kmd.lock)
  <2>1. PICK s : s = FreshProcess
    OBVIOUS
  <2>2. hostProc[p] = s
    BY <1>1, <2>1
  <2>3. /\ IsProcess(s) /\ s.pc = "none" /\ s.fd = FALSE /\ s.handle = FALSE /\ s.maps = {} /\ s.chan = <<>> /\ s.iommu = FALSE
        /\ s.tlb = Absent
    BY ONLY <2>1 DEF FreshProcess, IsProcess
  <2>4. ProcessInv(s)
    BY <2>3, BareProcess
  <2>5. Absent # p
    BY <1>1, MemoryFacts
  <2>6. DriverInv(p, s, kmd.pins, kmd.tlbs, kmd.lock)
    BY <1>2, <2>5 DEF DriverInv
  <2> QED
    BY <2>2, <2>4, <2>6
<1> QED
  BY <1>1, <1>2, <1>3 DEF MemoryInv

LEMMA MemoryEnough ==
  ASSUME MemoryInv
  PROVE  NothingLeftOver
<1>1. PinnedIsMapped
  <2> SUFFICES ASSUME NEW q \in kmd.pins, q.of \notin {b.name : b \in hostEnv.ubufs}
               PROVE  \E m \in hostProc[q.p].maps : m.of = q.of /\ q.va + q.len <= m.len
    BY DEF PinnedIsMapped
  <2>1. PICK p \in HostProcs : p = q.p
    BY DEF MemoryInv
  <2>2. Covered(q, hostProc[p].maps)
    BY <2>1, MemoryAt DEF DriverInv
  <2> QED
    BY <2>1, <2>2 DEF Covered, BufferNames
<1>2. NothingLeft
  BY MemoryAt DEF NothingLeft, ProcessInv, Cleared, DriverInv, Ended
<1> QED
  BY <1>1, <1>2 DEF NothingLeftOver

(* No page stays pinned after it is unmapped, and a process that destroyed   *)
(* its objects has left no pin, mapping, window or lock behind, the          *)
(* carve-out apart: for any number of processes, channels, buffers, starts   *)
(* and closes, with constructors that throw, starts that fail, processes     *)
(* that die and resets of the device by other tools.                         *)
THEOREM MemoryIsReturned == HostsSpec => []NothingLeftOver
<1>1. HostsInit => MemoryInv
  BY MemoryStart DEF HostsInit
<1>2. MemoryInv /\ [MemoryNext \/ ClusterNext]_<<hostVars, vars, part>> => MemoryInv'
  <2> SUFFICES ASSUME MemoryInv, [MemoryNext \/ ClusterNext]_<<hostVars, vars, part>> PROVE MemoryInv'
    OBVIOUS
  <2>1. [HostNext]_hostVars
    BY DEF MemoryNext, ClusterNext
  <2> QED
    BY <2>1, MemoryStep
<1>3. MemoryInv => NothingLeftOver
  BY MemoryEnough
<1> QED
  BY <1>1, <1>2, <1>3, PTL DEF HostsSpec
=============================================================================
