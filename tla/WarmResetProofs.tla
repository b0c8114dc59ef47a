--------------------------- MODULE WarmResetProofs ---------------------------
(***************************************************************************)
(* Proofs about WarmReset and WarmResetCommunication, for every set of     *)
(* devices and clients and any number of resets and monitor threads: what  *)
(* warm_reset says about the devices it reset (ResetsWhatItSays), and, for *)
(* clients that restart their monitor only after the old thread has ended, *)
(* what the monitors hear (MonitorHearsInOrder).                           *)
(*                                                                         *)
(* The first rests on the numbers of the devices.  While a call is whole,  *)
(* every number is a target or belongs to a device the call leaves alone,  *)
(* so a device that comes back under another number still is behind a      *)
(* target (NumberInv), and each phase of a sequence says how far its       *)
(* devices are (PhaseInv).  The second rests on a line of connections per  *)
(* monitor thread in which messages lie in the order in which they are     *)
(* sent (LineInv), all older than the next one (Frontier).                 *)
(***************************************************************************)
EXTENDS WarmReset, SequenceTheorems, FiniteSetTheorems, WellFoundedInduction, TLAPS

-----------------------------------------------------------------------------
(* Facts about numbers, sets and sequences.                                *)

(* Min finds the least element of a nonempty set of natural numbers.       *)
LEMMA MinIs ==
  ASSUME NEW T, T \subseteq Nat, T # {}
  PROVE  Min(T) \in T /\ \A y \in T : Min(T) <= y
<1> DEFINE R == OpToRel(<, Nat)
<1>1. IsWellFoundedOn(R, Nat)
  BY NatLessThanWellFounded, Zenon
<1>2. \A x, y \in Nat : y < x => <<y, x>> \in R
  BY DEF OpToRel
<1> HIDE DEF R
<1>3. PICK x \in T : \A y \in T : ~(<<y, x>> \in R)
  BY <1>1, WFMin
<1>4. \A y \in T : x <= y
  <2>1. \A y \in T : ~(y < x) /\ y \in Nat /\ x \in Nat
    BY <1>2, <1>3
  <2> QED
    BY <2>1
<1> QED
  BY <1>4 DEF Min

(* A function from a finite set S into the numbers below its cardinality   *)
(* leaves one out as soon as it leaves out an element of S, and takes them *)
(* all when it is injective.                                               *)
LEMMA NumberLeft ==
  ASSUME NEW S, IsFiniteSet(S), NEW T, T \subseteq S, T # S, NEW f
  PROVE  \E k \in 0 .. Cardinality(S) - 1 : \A d \in T : f[d] # k
<1> DEFINE h == [d \in T |-> f[d]]
           R == {h[d] : d \in T}
           N == 0 .. Cardinality(S) - 1
<1>1. /\ IsFiniteSet(T) /\ Cardinality(T) < Cardinality(S)
      /\ Cardinality(T) \in Nat /\ Cardinality(S) \in Nat
  BY FS_Subset, FS_CardinalityType
<1>2. h \in Surjection(T, R)
  BY DEF Surjection
<1>3. IsFiniteSet(R) /\ Cardinality(R) <= Cardinality(T) /\ Cardinality(R) \in Nat
  BY <1>1, <1>2, FS_Surjection, FS_CardinalityType
<1>4. Cardinality(N) = Cardinality(S)
  BY <1>1, FS_Interval
<1> HIDE DEF N, R
<1>5. ~(N \subseteq R)
  <2> SUFFICES ASSUME N \in SUBSET R PROVE FALSE
    OBVIOUS
  <2>1. Cardinality(N) <= Cardinality(R)
    BY <1>3, FS_Subset
  <2> QED
    BY <1>1, <1>3, <1>4, <2>1
<1> USE DEF R, N
<1> QED
  BY <1>5

\* As many devices as numbers, all with different numbers: every number is in use.
LEMMA AllNumbersTaken ==
  ASSUME NEW S, IsFiniteSet(S), NEW f \in [S -> 0 .. Cardinality(S) - 1],
         \A d, e \in S : f[d] = f[e] => d = e
  PROVE  \A k \in 0 .. Cardinality(S) - 1 : \E d \in S : f[d] = k
<1> DEFINE N == 0 .. Cardinality(S) - 1
<1>1. Cardinality(S) \in Nat
  BY FS_CardinalityType
<1>2. IsFiniteSet(N) /\ Cardinality(N) = Cardinality(S)
  BY <1>1, FS_Interval
<1>3. f \in Injection(S, N)
  BY DEF Injection, IsInjective
<1>4. f \in Surjection(S, N)
  BY <1>2, <1>3, FS_Injection
<1> QED
  BY <1>4 DEF Surjection

(* RemoveAt takes out one element.                                         *)
LEMMA RemoveAtIs ==
  ASSUME NEW S, NEW s \in Seq(S), NEW i \in 1 .. Len(s)
  PROVE  /\ RemoveAt(s, i) \in Seq(S) /\ Len(RemoveAt(s, i)) = Len(s) - 1
         /\ \A j \in 1 .. Len(s) - 1 : RemoveAt(s, i)[j] = IF j < i THEN s[j] ELSE s[j + 1]
<1> DEFINE a == SubSeq(s, 1, i - 1)
           b == SubSeq(s, i + 1, Len(s))
<1>1. PICK n \in Nat \ {0} : n = Len(s) /\ i \in 1 .. n
  BY LenProperties
<1>2. \A j \in 1 .. n : s[j] \in S
  BY <1>1, ElementOfSeq
<1>3. /\ a \in Seq(S) /\ Len(a) = i - 1
      /\ \A j \in 1 .. i - 1 : a[j] = s[j]
  <2>1. \A j \in 1 .. i - 1 : s[j] \in S
    BY <1>1, <1>2
  <2>2. /\ a \in Seq(S) /\ Len(a) = IF 1 <= i - 1 THEN (i - 1) - 1 + 1 ELSE 0
        /\ \A j \in 1 .. (i - 1) - 1 + 1 : a[j] = s[1 + j - 1]
    BY <1>1, <2>1, SubSeqProperties
  <2> QED
    BY <1>1, <2>2
<1>4. /\ b \in Seq(S) /\ Len(b) = n - i
      /\ \A j \in 1 .. n - i : b[j] = s[i + j]
  <2>1. \A j \in i + 1 .. n : s[j] \in S
    BY <1>1, <1>2
  <2>2. /\ b \in Seq(S) /\ Len(b) = IF i + 1 <= n THEN n - (i + 1) + 1 ELSE 0
        /\ \A j \in 1 .. n - (i + 1) + 1 : b[j] = s[(i + 1) + j - 1]
    BY <1>1, <2>1, SubSeqProperties
  <2> QED
    BY <1>1, <2>2
<1> HIDE DEF a, b
<1>5. /\ a \o b \in Seq(S) /\ Len(a \o b) = Len(a) + Len(b)
      /\ \A j \in 1 .. Len(a) + Len(b) :
           (a \o b)[j] = IF j <= Len(a) THEN a[j] ELSE b[j - Len(a)]
  BY <1>3, <1>4, ConcatProperties
<1>6. Len(a \o b) = n - 1
  BY <1>1, <1>3, <1>4, <1>5
<1>7. ASSUME NEW j \in 1 .. n - 1 PROVE (a \o b)[j] = IF j < i THEN s[j] ELSE s[j + 1]
  <2>1. (a \o b)[j] = IF j <= i - 1 THEN a[j] ELSE b[j - (i - 1)]
    BY <1>1, <1>3, <1>4, <1>5
  <2>2. CASE j < i
    BY <1>1, <1>3, <2>1, <2>2
  <2>3. CASE ~(j < i)
    <3>1. j - (i - 1) \in 1 .. n - i /\ i + (j - (i - 1)) = j + 1 /\ ~(j <= i - 1)
      BY <1>1, <2>3
    <3> QED
      BY <1>4, <2>1, <2>3, <3>1
  <2> QED
    BY <2>2, <2>3
<1>8. RemoveAt(s, i) = a \o b
  BY DEF RemoveAt, a, b
<1> QED
  BY <1>1, <1>5, <1>6, <1>7, <1>8

(* Front takes away the last one.                                          *)
LEMMA FrontIs ==
  ASSUME NEW S, NEW s \in Seq(S), s # <<>>
  PROVE  /\ Front(s) \in Seq(S) /\ Len(s) \in Nat \ {0} /\ Len(Front(s)) = Len(s) - 1
         /\ \A j \in 1 .. Len(s) - 1 : Front(s)[j] = s[j]
<1>1. PICK n \in Nat \ {0} : n = Len(s)
  BY EmptySeq
<1>2. \A j \in 1 .. n - 1 : s[j] \in S
  BY <1>1, ElementOfSeq
<1>3. /\ SubSeq(s, 1, n - 1) \in Seq(S)
      /\ Len(SubSeq(s, 1, n - 1)) = IF 1 <= n - 1 THEN (n - 1) - 1 + 1 ELSE 0
      /\ \A j \in 1 .. (n - 1) - 1 + 1 : SubSeq(s, 1, n - 1)[j] = s[1 + j - 1]
  BY <1>2, SubSeqProperties
<1> QED
  BY <1>1, <1>3 DEF Front

(* SelectInSeq finds the first index, if there is one.                     *)
LEMMA FirstIndex ==
  ASSUME NEW n \in Nat, NEW I, I \subseteq 1 .. n,
         NEW i, i = (IF I # {} THEN Min(I) ELSE 0), i > 0
  PROVE  i \in I /\ \A j \in I : i <= j
<1>1. I \subseteq Nat
  OBVIOUS
<1>2. I # {}
  OBVIOUS
<1> QED
  BY <1>1, <1>2, MinIs

(* An update of a function of two arguments.                               *)
LEMMA NestedIs ==
  ASSUME NEW A, NEW B, NEW L, NEW f \in [A -> [B -> L]], NEW a \in A, NEW b \in B, NEW x \in L,
         NEW h, h = [f EXCEPT ![a][b] = x]
  PROVE  /\ h \in [A -> [B -> L]] /\ h[a][b] = x
         /\ \A d \in A, e \in B : d # a \/ e # b => h[d][e] = f[d][e]
OBVIOUS

-----------------------------------------------------------------------------
(* The invariant of the resets.                                            *)

Sequence == {"resetting", "awaiting", "polling", "starting", "triggering", "restoring"}
UnderWay == Sequence \cup {"notifying", "announcing", "announced"}

(* Two devices never have the same number.                                 *)
Numbered == \A d, e \in Present : devId[d] = devId[e] => d = e

(* A note is sent only by a call, and the call has counted its reset.      *)
NoteInv ==
  /\ note = "pre" => step = "notifying"
  /\ note = "post" => step = "announced"
  /\ step \in UnderWay => resets > 0

(* Each sequence has its phases; the result comes last.                    *)
ArchInv ==
  /\ step = "awaiting" => arch = "agnostic"
  /\ step = "polling" => arch = "blackhole"
  /\ step \in {"starting", "triggering"} => arch = "wormhole"
  /\ step = "resetting" => arch # "wormhole"
  /\ step \in Sequence \cup {"notifying"} => ~call.result
  /\ call.names = {} \/ call.numbers = {}
  /\ step = "idle" => \A d \in Device : chip[d] = "working"

(* The numbers: targets lead to devices the call has resolved to and to no *)
(* others, also after devices have come back under new numbers.            *)
NumberInv ==
  /\ \A d \in Device \ call.aimed : devId[d] # Gone /\ devId[d] \notin call.targets
  /\ \A d \in call.aimed : devId[d] # Gone => devId[d] \in call.targets
  /\ \A k \in Id \ call.targets : \E d \in Device \ call.aimed : devId[d] = k
  /\ \A d \in Device :
       devId[d] = Gone => chip[d] \in {"resetting", "early"} /\ arch = "agnostic"
  /\ call.names # {} => call.aimed \subseteq call.names

(* The sequence knows that its devices have finished their resets.         *)
Told == (arch = "agnostic" /\ call.prompt) \/ (arch = "blackhole" /\ call.allSet)

(* How far the devices are in each phase.                                  *)
PhaseInv ==
  /\ call.ids \subseteq call.targets
  /\ call.started \subseteq call.aimed
  /\ step = "notifying" => \A d \in Device : chip[d] = "working"
  /\ step = "resetting" =>
       /\ call.known = Device
       /\ \A d \in call.aimed : chip[d] \in {"working", "resetting", "reset"}
       /\ \A d \in call.aimed : chip[d] = "working" => devId[d] \in call.ids
  /\ step = "awaiting" /\ call.prompt =>
       /\ \A d \in call.aimed : chip[d] \in {"resetting", "reset"}
       /\ \A d \in Device : chip[d] = "resetting" => devId[d] = Gone
       /\ \A d \in Device : devId[d] = Gone => d \in call.todo
  /\ step = "restoring" /\ Told =>
       /\ \A d \in call.aimed : chip[d] \in {"reset", "restored"}
       /\ \A d \in call.aimed : chip[d] = "reset" => devId[d] \in call.ids
  /\ step = "starting" => \A d \in call.aimed : d \in call.started \/ devId[d] \in call.ids
  /\ step = "triggering" => call.todo \subseteq call.started
  /\ step \in {"triggering", "restoring"} /\ arch = "wormhole" => call.aimed = call.started

WholeInv == whole /\ step \in UnderWay => NumberInv /\ PhaseInv

ResetInv ==
  /\ TypeOK /\ Numbered /\ NoteInv /\ ArchInv /\ WholeInv
  /\ SuccessIsReal /\ ClockIsEvidence /\ OthersUntouched

-----------------------------------------------------------------------------
(* The invariant of the notifications.                                     *)

(* The order of the messages.                                              *)
Key(m) == 2 * m[2] + (IF m[1] = "post" THEN 1 ELSE 0)

(* The next message to be sent, or one before it.                          *)
Frontier ==
  IF note = "pre" THEN 2 * resets
  ELSE IF note = "post" \/ step \in Sequence \cup {"notifying", "announcing"}
         THEN 2 * resets + 1
         ELSE 2 * resets + 2

(* A line of connections: they are accepted and written to from its head,  *)
(* and the messages are in order.                                          *)
Line(s) ==
  \A i, j \in 1 .. Len(s) : i < j =>
    /\ s[i].msg # NoMessage
    /\ s[j].accepted => s[i].accepted
    /\ s[j].msg # NoMessage => Key(s[i].msg) < Key(s[j].msg)

AllWritten(s) == \A i \in 1 .. Len(s) : s[i].msg # NoMessage

Older(s, n) == \A i \in 1 .. Len(s) : s[i].msg # NoMessage => Key(s[i].msg) < n

Newer(s, h) ==
  \A i \in 1 .. Len(s), j \in 1 .. Len(h) : s[i].msg # NoMessage => Key(h[j]) < Key(s[i].msg)

Heard(h, n) ==
  /\ \A i, j \in 1 .. Len(h) : i < j => Key(h[i]) < Key(h[j])
  /\ \A i \in 1 .. Len(h) : Key(h[i]) < n

LineAt(c, g) ==
  /\ Line(conns[c][g]) /\ Older(conns[c][g], Frontier) /\ Newer(conns[c][g], heard[c])
  /\ note = "none" \/ c \in toVisit => AllWritten(conns[c][g])

(* Only the last monitor thread lives, and connections are made to it.     *)
ThreadAt(c, g) ==
  /\ monitor[c][g] \in Alive => g = starts[c]
  /\ monitor[c][g] \in Listening \cup {"bound"} => path[c] = g
  /\ monitor[c][g] \notin Listening => conns[c][g] = <<>>

ClientAt(c) == Heard(heard[c], Frontier) /\ \A g \in Gen : LineAt(c, g) /\ ThreadAt(c, g)

LineInv == \A c \in Client : ClientAt(c)

-----------------------------------------------------------------------------
(* The lines of connections                                                *)

(* The key of a message is its place in the order of the notifications.    *)
LEMMA KeyIs ==
  ASSUME NEW m \in Message, NEW n \in Message, MaxResets \in Nat
  PROVE  /\ Key(m) \in Nat
         /\ Key(m) < Key(n) =>
              \/ m[2] < n[2]
              \/ m[2] = n[2] /\ m[1] = "pre" /\ n[1] = "post"
BY DEF Message, Key

\* The fields of a connection.
LEMMA MessageIs ==
  ASSUME NEW k \in Connection
  PROVE  /\ k.accepted \in BOOLEAN /\ k.msg \in Message \cup {NoMessage}
         /\ k.msg # NoMessage => k.msg \in Message
BY DEF Connection

(* One connection is accepted.                                             *)
Accepted(s, i) == [s EXCEPT ![i].accepted = TRUE]

LEMMA LineAccepted ==
  ASSUME NEW s \in Seq(Connection), NEW i \in 1 .. Len(s),
         \A j \in 1 .. Len(s) : ~s[j].accepted => i <= j,
         NEW t, t = Accepted(s, i)
  PROVE  /\ t \in Seq(Connection) /\ Len(t) = Len(s)
         /\ \A j \in 1 .. Len(s) : t[j].msg = s[j].msg
         /\ Line(s) => Line(t)
<1> DEFINE e == [s[i] EXCEPT !.accepted = TRUE]
<1>1. s[i] \in Connection
  BY ElementOfSeq
<1>2. e \in Connection /\ e.msg = s[i].msg /\ e.accepted = TRUE
  BY <1>1 DEF Connection
<1>3. t = [s EXCEPT ![i] = e]
  BY DEF Accepted
<1> HIDE DEF e
<1>4. /\ t \in Seq(Connection) /\ Len(t) = Len(s)
      /\ \A j \in 1 .. Len(s) : t[j] = IF j = i THEN e ELSE s[j]
  <2>1. /\ [s EXCEPT ![i] = e] \in Seq(Connection) /\ Len([s EXCEPT ![i] = e]) = Len(s)
        /\ \A j \in 1 .. Len(s) : [s EXCEPT ![i] = e][j] = IF j = i THEN e ELSE s[j]
    BY <1>2, ExceptSeq
  <2> QED
    BY <1>3, <2>1, Zenon
<1>5. PICK n \in Nat : n = Len(s) /\ i \in 1 .. n
  BY LenProperties
<1>6. \A j \in 1 .. n : s[j].accepted \in BOOLEAN
  BY <1>5, ElementOfSeq, MessageIs
<1>7. \A j \in 1 .. n : j <= i => t[j].accepted
  BY <1>2, <1>4, <1>5, <1>6
<1>8. \A j \in 1 .. n : t[j].msg = s[j].msg
  BY <1>2, <1>4, <1>5
<1>9. ASSUME Line(s), NEW j \in 1 .. n, NEW k \in 1 .. n, j < k
      PROVE  /\ t[j].msg # NoMessage /\ (t[k].accepted => t[j].accepted)
             /\ t[k].msg # NoMessage => Key(t[j].msg) < Key(t[k].msg)
  <2>1. /\ s[j].msg # NoMessage /\ (s[k].accepted => s[j].accepted)
        /\ s[k].msg # NoMessage => Key(s[j].msg) < Key(s[k].msg)
    BY <1>5, <1>9 DEF Line
  <2>2. t[k].accepted => t[j].accepted
    <3>1. CASE j <= i
      BY <1>7, <3>1
    <3>2. CASE ~(j <= i)
      BY <1>4, <1>5, <1>9, <2>1, <3>2
    <3> QED
      BY <3>1, <3>2
  <2> QED
    BY <1>8, <2>1, <2>2
<1> QED
  BY <1>4, <1>5, <1>8, <1>9 DEF Line

(* One connection leaves the line.                                         *)
LEMMA LineRemoved ==
  ASSUME NEW s \in Seq(Connection), NEW i \in 1 .. Len(s),
         NEW t, t = RemoveAt(s, i)
  PROVE  /\ t \in Seq(Connection)
         /\ \A j \in 1 .. Len(t) : \E k \in 1 .. Len(s) : k # i /\ t[j] = s[k]
         /\ Line(s) => Line(t)
<1>1. PICK n \in Nat \ {0} : n = Len(s) /\ i \in 1 .. n
  BY LenProperties
<1>2. /\ t \in Seq(Connection) /\ Len(t) = n - 1
      /\ \A j \in 1 .. n - 1 : t[j] = IF j < i THEN s[j] ELSE s[j + 1]
  BY <1>1, RemoveAtIs
<1> DEFINE from(j) == IF j < i THEN j ELSE j + 1
<1>3. \A j \in 1 .. n - 1 : from(j) \in 1 .. n /\ from(j) # i /\ t[j] = s[from(j)]
  BY <1>1, <1>2
<1>4. \A j, k \in 1 .. n - 1 : j < k => from(j) < from(k)
  BY <1>1
<1> HIDE DEF from
<1>5. ASSUME Line(s) PROVE Line(t)
  <2> SUFFICES ASSUME NEW j \in 1 .. n - 1, NEW k \in 1 .. n - 1, j < k
               PROVE  /\ t[j].msg # NoMessage /\ (t[k].accepted => t[j].accepted)
                      /\ t[k].msg # NoMessage => Key(t[j].msg) < Key(t[k].msg)
    BY <1>2 DEF Line
  <2>1. /\ from(j) \in 1 .. n /\ from(k) \in 1 .. n /\ from(j) < from(k)
        /\ t[j] = s[from(j)] /\ t[k] = s[from(k)]
    BY <1>3, <1>4
  <2> QED
    BY <1>1, <1>5, <2>1 DEF Line
<1> QED
  BY <1>1, <1>2, <1>3, <1>5

(* A connection is made at the end of a line that is written to.           *)
Joined(s) == Append(s, [accepted |-> FALSE, msg |-> NoMessage])

LEMMA LineJoined ==
  ASSUME NEW s \in Seq(Connection), Line(s), AllWritten(s), NEW t, t = Joined(s)
  PROVE  /\ t \in Seq(Connection) /\ Line(t)
         /\ \A j \in 1 .. Len(t) : t[j].msg # NoMessage => j \in 1 .. Len(s) /\ t[j] = s[j]
<1> DEFINE e == [accepted |-> FALSE, msg |-> NoMessage]
<1>1. e \in Connection /\ e.accepted = FALSE /\ e.msg = NoMessage
  BY DEF Connection
<1> HIDE DEF e
<1>2. PICK n \in Nat : n = Len(s)
  BY LenProperties
<1>3. /\ t \in Seq(Connection) /\ Len(t) = n + 1 /\ t[n + 1] = e
      /\ \A j \in 1 .. n : t[j] = s[j]
  BY <1>1, <1>2, AppendProperties DEF e, Joined
<1>4. ASSUME NEW j \in 1 .. n + 1, NEW k \in 1 .. n + 1, j < k
      PROVE  /\ t[j].msg # NoMessage /\ (t[k].accepted => t[j].accepted)
             /\ t[k].msg # NoMessage => Key(t[j].msg) < Key(t[k].msg)
  <2>1. j \in 1 .. n
    BY <1>4
  <2>2. t[j] = s[j] /\ s[j].msg # NoMessage
    BY <1>2, <1>3, <2>1 DEF AllWritten
  <2>3. CASE k = n + 1
    BY <1>1, <1>3, <2>2, <2>3
  <2>4. CASE k \in 1 .. n
    BY <1>2, <1>3, <1>4, <2>1, <2>2, <2>4 DEF Line
  <2>5. k = n + 1 \/ k \in 1 .. n
    OBVIOUS
  <2> QED
    BY <2>3, <2>4, <2>5
<1>5. Line(t)
  BY <1>3, <1>4 DEF Line
<1>6. \A j \in 1 .. n + 1 : t[j].msg # NoMessage => j \in 1 .. n /\ t[j] = s[j]
  BY <1>1, <1>3
<1> QED
  BY <1>2, <1>3, <1>5, <1>6

(* The notifier writes: what it writes is newer than all in the line.      *)
LEMMA LineWritten ==
  ASSUME NEW s \in Seq(Connection), NEW m \in Message,
         NEW t, t = [i \in DOMAIN s |->
                       IF s[i].msg = NoMessage THEN [s[i] EXCEPT !.msg = m] ELSE s[i]]
  PROVE  /\ t \in Seq(Connection) /\ Len(t) = Len(s)
         /\ m # NoMessage => AllWritten(t)
         /\ \A i \in 1 .. Len(s) : t[i].msg = IF s[i].msg = NoMessage THEN m ELSE s[i].msg
         /\ m # NoMessage /\ Line(s) /\ Older(s, Key(m)) => Line(t)
<1>1. PICK n \in Nat : n = Len(s) /\ DOMAIN s = 1 .. n
  BY LenProperties
<1>2. \A i \in 1 .. n : s[i] \in Connection
  BY <1>1, ElementOfSeq
<1>3. \A i \in 1 .. n :
        /\ t[i] \in Connection /\ t[i].accepted = s[i].accepted
        /\ t[i].msg = IF s[i].msg = NoMessage THEN m ELSE s[i].msg
  BY <1>1, <1>2 DEF Connection
<1>4. t \in [1 .. n -> Connection]
  BY <1>1, <1>3
<1>5. t \in Seq(Connection) /\ Len(t) = n
  BY <1>4, SeqDef
<1>6. ASSUME m # NoMessage, Line(s), Older(s, Key(m)) PROVE Line(t)
  <2>1. \A i \in 1 .. n : s[i].msg # NoMessage => Key(s[i].msg) < Key(m)
    BY <1>1, <1>6 DEF Older
  <2> QED
    BY <1>1, <1>3, <1>5, <1>6, <2>1 DEF Line
<1> QED
  BY <1>1, <1>3, <1>5, <1>6 DEF AllWritten

(* The notifier is gone: a connection it has not written to is closed.     *)
Shut(s) == IF s # <<>> /\ Last(s).msg = NoMessage THEN Front(s) ELSE s

LEMMA LineClosed ==
  ASSUME NEW s \in Seq(Connection), NEW t, t = Shut(s)
  PROVE  /\ t \in Seq(Connection)
         /\ s = <<>> => t = <<>>
         /\ \A i \in 1 .. Len(t) : i \in 1 .. Len(s) /\ t[i] = s[i]
         /\ Line(s) => Line(t) /\ AllWritten(t)
<1> USE DEF Shut
<1>1. CASE t = s
  <2>1. ASSUME Line(s), s # <<>> => Last(s).msg # NoMessage PROVE AllWritten(s)
    <3> SUFFICES ASSUME NEW i \in 1 .. Len(s) PROVE s[i].msg # NoMessage
      BY DEF AllWritten
    <3>1. PICK n \in Nat : n = Len(s)
      BY LenProperties
    <3>2. i < n => s[i].msg # NoMessage
      BY <2>1, <3>1 DEF Line
    <3>3. s # <<>> /\ Last(s) = s[n]
      BY <3>1, EmptySeq DEF Last
    <3> QED
      BY <2>1, <3>1, <3>2, <3>3
  <2>2. s # <<>> /\ Last(s).msg = NoMessage => FALSE
    <3> SUFFICES ASSUME s # <<>>, t = Front(s) PROVE FALSE
      OBVIOUS
    <3>1. PICK n \in Nat \ {0} : n = Len(s) /\ Len(Front(s)) = n - 1
      BY FrontIs
    <3> QED
      BY <1>1, <3>1
  <2> QED
    BY <1>1, <2>1, <2>2
<1>2. CASE t # s
  <2>1. s # <<>> /\ t = Front(s)
    BY <1>2
  <2>2. PICK n \in Nat \ {0} : n = Len(s)
    BY <2>1, FrontIs
  <2>3. t \in Seq(Connection) /\ Len(t) = n - 1 /\ \A j \in 1 .. n - 1 : t[j] = s[j]
    BY <2>1, <2>2, FrontIs
  <2>4. \A j \in 1 .. n - 1 : j \in 1 .. n /\ n \in 1 .. n /\ j < n
    BY <2>2
  <2> QED
    BY <2>1, <2>2, <2>3, <2>4 DEF Line, AllWritten
<1> QED
  BY <1>1, <1>2

USE CommunicationAssumption, ResetAssumption

-----------------------------------------------------------------------------
(* Steps of a client                                                       *)

Place == Alive \cup {"none", "done"}

(* What a step of a client changes besides its own flags.                  *)
LEMMA AcceptIs ==
  ASSUME CommTypeOK, NEW c \in Client, NEW g \in Gen, Accept(c, g)
  PROVE  \E i \in 1 .. Len(conns[c][g]) :
           /\ \A j \in 1 .. Len(conns[c][g]) : ~conns[c][g][j].accepted => i <= j
           /\ \/ conns' = [conns EXCEPT ![c][g] = Accepted(conns[c][g], i)]
              \/ conns' = [conns EXCEPT ![c][g] = RemoveAt(conns[c][g], i)]
<1> DEFINE s == conns[c][g]
           I == {j \in 1 .. Len(s) : ~s[j].accepted}
           i == IF I # {} THEN Min(I) ELSE 0
<1>1. s \in Seq(Connection)
  BY DEF CommTypeOK
<1>0. i > 0
  BY DEF Accept, SelectInSeq
<1>2. \/ conns' = [conns EXCEPT ![c][g] = Accepted(conns[c][g], i)]
      \/ conns' = [conns EXCEPT ![c][g] = RemoveAt(conns[c][g], i)]
  BY DEF Accept, SelectInSeq, Accepted
<1>3. i \in I /\ \A j \in I : i <= j
  <2>1. I \subseteq 1 .. Len(s) /\ Len(s) \in Nat
    BY <1>1, LenProperties
  <2> HIDE DEF I
  <2> QED
    BY <1>0, <2>1, FirstIndex
<1> QED
  BY <1>2, <1>3

\* The read handler takes the first readable connection and records its message.
LEMMA DeliverIs ==
  ASSUME CommTypeOK, NEW c \in Client, NEW g \in Gen, Deliver(c, g)
  PROVE  \E i \in 1 .. Len(conns[c][g]) :
           /\ Readable(conns[c][g][i])
           /\ \A j \in 1 .. Len(conns[c][g]) : Readable(conns[c][g][j]) => i <= j
           /\ conns' = [conns EXCEPT ![c][g] = RemoveAt(conns[c][g], i)]
           /\ heard' = [heard EXCEPT ![c] = Append(heard[c], conns[c][g][i].msg)]
<1> DEFINE s == conns[c][g]
           I == {j \in 1 .. Len(s) : Readable(s[j])}
           i == IF I # {} THEN Min(I) ELSE 0
<1>1. s \in Seq(Connection)
  BY DEF CommTypeOK
<1>2. /\ i > 0 /\ conns' = [conns EXCEPT ![c][g] = RemoveAt(conns[c][g], i)]
      /\ heard' = [heard EXCEPT ![c] = Append(heard[c], conns[c][g][i].msg)]
  BY DEF Deliver, SelectInSeq
<1>3. i \in I /\ \A j \in I : i <= j
  <2>1. I \subseteq 1 .. Len(s) /\ Len(s) \in Nat
    BY <1>1, LenProperties
  <2> HIDE DEF I
  <2> QED
    BY <1>2, <2>1, FirstIndex
<1> QED
  BY <1>2, <1>3

\* The steps of a client keep the types.
LEMMA ClientTypes ==
  ASSUME CommTypeOK, NEW c \in Client, ClientNext(c)
  PROVE  CommTypeOK'
<1>1. ASSUME NEW g \in Gen, NEW l \in Place, Goto(c, g, l)
      PROVE  monitor' \in [Client -> [Gen -> Place]]
  BY <1>1 DEF CommTypeOK, Goto, Place
<1>2. CASE StartMonitoring(c)
  <2>1. starts[c] + 1 \in Gen /\ starts[c] + 1 \in 0 .. MaxStarts /\ "spawned" \in Place
    BY <1>2 DEF StartMonitoring, CommTypeOK, Gen, Place, Alive
  <2>2. monitor' \in [Client -> [Gen -> Place]]
    BY <1>1, <1>2, <2>1 DEF StartMonitoring
  <2>3. heard' \in [Client -> Seq(Message)]
    BY <1>2, EmptySeq DEF StartMonitoring, CommTypeOK
  <2> QED
    BY <1>2, <2>1, <2>2, <2>3 DEF StartMonitoring, CommTypeOK, noteVars, Place
<1>3. CASE StopMonitoring(c)
  BY <1>3 DEF StopMonitoring, CommTypeOK, noteVars
<1>4. CASE StopIo(c)
  BY <1>4 DEF StopIo, CommTypeOK, noteVars, Living
<1>5. CASE ClientDies(c)
  <2>1. monitor' \in [Client -> [Gen -> Place]]
    BY <1>5 DEF ClientDies, CommTypeOK, Living, Place
  <2>2. /\ heard' \in [Client -> Seq(Message)]
        /\ conns' \in [Client -> [Gen -> Seq(Connection)]]
    BY <1>5, EmptySeq DEF ClientDies, CommTypeOK
  <2> QED
    BY <1>5, <2>1, <2>2 DEF ClientDies, CommTypeOK, noteVars, Place
<1>6. ASSUME NEW g \in Gen, MonitorThread(c, g) PROVE CommTypeOK'
  <2>1. g \in 0 .. MaxStarts /\ 0 \in 0 .. MaxStarts
    BY DEF Gen
  <2>2. \A l \in Place : Goto(c, g, l) => monitor' \in [Client -> [Gen -> Place]]
    BY <1>1
  <2>3. {"created", "unlinked", "bound", "listening", "running", "leaving", "done"} \subseteq Place
    BY DEF Place, Alive
  <2>4. CASE PublishIo(c, g)
    BY <2>1, <2>2, <2>3, <2>4 DEF PublishIo, CommTypeOK, noteVars, Place
  <2>5. CASE UnlinkStale(c, g)
    BY <2>1, <2>2, <2>3, <2>5 DEF UnlinkStale, CommTypeOK, noteVars, Place
  <2>6. CASE Bind(c, g)
    BY <2>1, <2>2, <2>3, <2>6 DEF Bind, CommTypeOK, noteVars, Place
  <2>7. CASE MonitorFails(c, g)
    BY <2>2, <2>3, <2>7 DEF MonitorFails, CommTypeOK, noteVars, Place
  <2>8. CASE Listen(c, g)
    BY <2>2, <2>3, <2>8 DEF Listen, CommTypeOK, noteVars, Place
  <2>9. CASE Run(c, g)
    <3>1. (IF keep[c] THEN "running" ELSE "leaving") \in Place
      BY <2>3
    <3>2. monitor' \in [Client -> [Gen -> Place]]
      BY <2>2, <2>9, <3>1 DEF Run
    <3> QED
      BY <2>9, <3>2 DEF Run, CommTypeOK, noteVars, Place
  <2>10. CASE Accept(c, g)
    <3>1. PICK i \in 1 .. Len(conns[c][g]) :
            /\ \A j \in 1 .. Len(conns[c][g]) : ~conns[c][g][j].accepted => i <= j
            /\ \/ conns' = [conns EXCEPT ![c][g] = Accepted(conns[c][g], i)]
               \/ conns' = [conns EXCEPT ![c][g] = RemoveAt(conns[c][g], i)]
      BY <2>10, AcceptIs
    <3>2. conns[c][g] \in Seq(Connection) /\ conns \in [Client -> [Gen -> Seq(Connection)]]
      BY DEF CommTypeOK
    <3>3. PICK x \in Seq(Connection) : conns' = [conns EXCEPT ![c][g] = x]
      BY <3>1, <3>2, LineAccepted, LineRemoved
    <3>4. conns' \in [Client -> [Gen -> Seq(Connection)]]
      BY <3>2, <3>3, NestedIs
    <3>5. accepting' \in [Client -> SUBSET Gen]
      <4>1. accepting' = accepting \/ accepting' = [accepting EXCEPT ![c] = accepting[c] \ {g}]
        BY <2>10, Zenon DEF Accept
      <4>2. accepting \in [Client -> SUBSET Gen] /\ accepting[c] \ {g} \in SUBSET Gen
        BY DEF CommTypeOK
      <4> QED
        BY <4>1, <4>2
    <3> QED
      BY <2>10, <3>4, <3>5 DEF Accept, CommTypeOK, noteVars
  <2>11. CASE Deliver(c, g)
    <3>1. PICK i \in 1 .. Len(conns[c][g]) :
            /\ Readable(conns[c][g][i])
            /\ \A j \in 1 .. Len(conns[c][g]) : Readable(conns[c][g][j]) => i <= j
            /\ conns' = [conns EXCEPT ![c][g] = RemoveAt(conns[c][g], i)]
            /\ heard' = [heard EXCEPT ![c] = Append(heard[c], conns[c][g][i].msg)]
      BY <2>11, DeliverIs
    <3>2. /\ conns[c][g] \in Seq(Connection) /\ conns \in [Client -> [Gen -> Seq(Connection)]]
          /\ heard \in [Client -> Seq(Message)] /\ heard[c] \in Seq(Message)
      BY DEF CommTypeOK
    <3>3. conns' \in [Client -> [Gen -> Seq(Connection)]]
      BY <3>1, <3>2, LineRemoved, NestedIs
    <3>4. conns[c][g][i].msg \in Message
      BY <3>1, <3>2, ElementOfSeq, MessageIs DEF Readable
    <3>5. Append(heard[c], conns[c][g][i].msg) \in Seq(Message)
      BY <3>2, <3>4, AppendProperties
    <3>6. heard' \in [Client -> Seq(Message)]
      BY <3>1, <3>2, <3>5
    <3> QED
      BY <2>11, <3>3, <3>6 DEF Deliver, CommTypeOK, monitorVars, noteVars
  <2>12. CASE RunReturns(c, g)
    BY <2>2, <2>3, <2>12 DEF RunReturns, CommTypeOK, noteVars, Place
  <2>13. CASE Leave(c, g)
    <3>1. conns' \in [Client -> [Gen -> Seq(Connection)]]
      <4>1. conns \in [Client -> [Gen -> Seq(Connection)]] /\ <<>> \in Seq(Connection)
        BY EmptySeq DEF CommTypeOK
      <4> QED
        BY <2>13, <4>1, NestedIs DEF Leave
    <3> QED
      BY <2>1, <2>2, <2>3, <2>13, <3>1 DEF Leave, CommTypeOK, noteVars, Place
  <2> QED
    BY <1>6, <2>4, <2>5, <2>6, <2>7, <2>8, <2>9, <2>10, <2>11, <2>12, <2>13 DEF MonitorThread
<1> QED
  BY <1>2, <1>3, <1>4, <1>5, <1>6 DEF ClientNext

(* A step of a client leaves the others and the notifier alone.            *)
LEMMA ClientFrame ==
  ASSUME CommTypeOK, NEW c \in Client, ClientNext(c)
  PROVE  /\ UNCHANGED noteVars
         /\ \A d \in Client : d # c =>
              /\ monitor'[d] = monitor[d] /\ starts'[d] = starts[d] /\ path'[d] = path[d]
              /\ conns'[d] = conns[d] /\ heard'[d] = heard[d]
<1> USE DEF noteVars, Goto
<1>1. CASE StartMonitoring(c) \/ StopMonitoring(c) \/ StopIo(c) \/ ClientDies(c)
  BY <1>1 DEF StartMonitoring, StopMonitoring, StopIo, ClientDies, CommTypeOK
<1>2. ASSUME NEW g \in Gen, Accept(c, g)
      PROVE  /\ UNCHANGED <<noteVars, monitor, starts, path, heard>>
             /\ \A d \in Client : d # c => conns'[d] = conns[d]
  <2>1. UNCHANGED <<noteVars, monitor, starts, path, heard>>
    BY <1>2, Zenon DEF Accept
  <2>2. PICK x : conns' = [conns EXCEPT ![c][g] = x]
    BY <1>2, AcceptIs
  <2> QED
    BY <2>1, <2>2 DEF CommTypeOK
<1>3. ASSUME NEW g \in Gen, Deliver(c, g)
      PROVE  /\ UNCHANGED <<noteVars, monitor, starts, path>>
             /\ \A d \in Client : d # c => conns'[d] = conns[d] /\ heard'[d] = heard[d]
  <2>1. UNCHANGED <<noteVars, monitor, starts, path>>
    BY <1>3, Zenon DEF Deliver, monitorVars
  <2>2. PICK x, y : conns' = [conns EXCEPT ![c][g] = x] /\ heard' = [heard EXCEPT ![c] = y]
    BY <1>3, DeliverIs
  <2> QED
    BY <2>1, <2>2 DEF CommTypeOK
<1>4. ASSUME NEW g \in Gen,
             \/ PublishIo(c, g) \/ UnlinkStale(c, g) \/ Bind(c, g) \/ MonitorFails(c, g)
             \/ Listen(c, g) \/ Run(c, g) \/ RunReturns(c, g) \/ Leave(c, g)
      PROVE  /\ UNCHANGED <<noteVars, starts, heard>>
             /\ \A d \in Client : d # c =>
                  monitor'[d] = monitor[d] /\ path'[d] = path[d] /\ conns'[d] = conns[d]
  BY <1>4 DEF PublishIo, UnlinkStale, Bind, MonitorFails, Listen, Run, RunReturns, Leave,
     CommTypeOK
<1> QED
  BY <1>1, <1>2, <1>3, <1>4 DEF ClientNext, MonitorThread

(* What a step of client c means for its own line.                         *)
LEMMA StartLine ==
  ASSUME CommTypeOK, Patient, NEW c \in Client, ClientAt(c), StartMonitoring(c), UNCHANGED step
  PROVE  ClientAt(c)'
<1>1. /\ UNCHANGED <<conns, path, noteVars>> /\ Frontier' = Frontier
      /\ heard'[c] = <<>> /\ starts'[c] = starts[c] + 1 /\ starts[c] + 1 \in Gen
      /\ monitor' = [monitor EXCEPT ![c][starts[c] + 1] = "spawned"]
  BY DEF StartMonitoring, CommTypeOK, Goto, Gen, noteVars, Frontier
<1>2. \A g \in Gen : monitor[c][g] \notin Alive
  BY DEF StartMonitoring, Living
<1>3. ASSUME NEW g \in Gen PROVE LineAt(c, g)'
  <2>1. LineAt(c, g)
    BY DEF ClientAt
  <2>2. Newer(conns[c][g], <<>>)
    BY DEF Newer
  <2> QED
    BY <1>1, <2>1, <2>2 DEF LineAt, noteVars
<1>4. ASSUME NEW g \in Gen PROVE ThreadAt(c, g)'
  <2>1. monitor'[c][g] = IF g = starts[c] + 1 THEN "spawned" ELSE monitor[c][g]
    BY <1>1 DEF CommTypeOK
  <2>2. conns[c][g] = <<>>
    BY <1>2 DEF ClientAt, ThreadAt, Listening, Alive
  <2> QED
    BY <1>1, <1>2, <2>1, <2>2 DEF ThreadAt, Listening, Alive
<1>5. Heard(heard[c], Frontier)'
  BY <1>1 DEF Heard
<1> QED
  BY <1>3, <1>4, <1>5 DEF ClientAt

(* Steps that leave the line as it is: only the thread moves.              *)
LEMMA ThreadLine ==
  ASSUME NEW c \in Client, ClientAt(c), UNCHANGED <<noteVars, step, conns, heard>>,
         \A g \in Gen : ThreadAt(c, g)'
  PROVE  ClientAt(c)'
BY DEF ClientAt, LineAt, Frontier, noteVars

\* The steps of a monitor thread that touch no connection keep the line of its client.
LEMMA MoveLine ==
  ASSUME CommTypeOK, NEW c \in Client, ClientAt(c), NEW g \in Gen, UNCHANGED step,
         \/ PublishIo(c, g) \/ UnlinkStale(c, g) \/ Bind(c, g) \/ MonitorFails(c, g)
         \/ Listen(c, g) \/ Run(c, g) \/ RunReturns(c, g)
  PROVE  ClientAt(c)'
<1> USE DEF PublishIo, UnlinkStale, Bind, MonitorFails, Listen, Run, RunReturns
<1>1. UNCHANGED <<noteVars, conns, heard, starts>>
  OBVIOUS
<1>2. monitor[c][g] \in Alive /\ g = starts[c]
  BY DEF At, Alive, ClientAt, ThreadAt
<1>3. PICK l \in Place :
        /\ monitor' = [monitor EXCEPT ![c][g] = l]
        /\ path'[c] = path[c] \/ l = "unlinked" \/ (l = "bound" /\ path'[c] = g)
        /\ l \in Listening \cup {"bound"} => path'[c] = g
        /\ l \notin Listening => monitor[c][g] \notin Listening
  <2>1. \A l \in Listening \cup {"bound"} : monitor[c][g] = l => path[c] = g
    BY DEF ClientAt, ThreadAt
  <2> QED
    BY <2>1 DEF At, Goto, Place, Alive, Listening, CommTypeOK
<1>4. ASSUME NEW h \in Gen PROVE ThreadAt(c, h)'
  <2>1. monitor'[c][h] = IF h = g THEN l ELSE monitor[c][h]
    BY <1>3 DEF CommTypeOK
  <2>2. h # g => monitor[c][h] \notin Alive /\ conns[c][h] = <<>>
    BY <1>2 DEF ClientAt, ThreadAt, Alive, Listening
  <2>3. monitor[c][g] \notin Listening => conns[c][g] = <<>>
    BY DEF ClientAt, ThreadAt
  <2> QED
    BY <1>1, <1>2, <1>3, <2>1, <2>2, <2>3 DEF ThreadAt, Alive, Listening
<1> QED
  BY <1>1, <1>4, ThreadLine

(* The thread ends and takes the line with it; so does the process.        *)
LEMMA EmptyLine ==
  ASSUME NEW s \in Seq(Connection), s = <<>>, NEW h, NEW n
  PROVE  Line(s) /\ Older(s, n) /\ Newer(s, h) /\ AllWritten(s)
<1>1. Len(s) = 0
  BY EmptySeq
<1> QED
  BY <1>1 DEF Line, Older, Newer, AllWritten

\* A monitor thread that ends drops its connections; what remains is in line.
LEMMA LeaveLine ==
  ASSUME CommTypeOK, NEW c \in Client, ClientAt(c), NEW g \in Gen, UNCHANGED step, Leave(c, g)
  PROVE  ClientAt(c)'
<1>1. /\ UNCHANGED <<noteVars, heard, starts>> /\ Frontier' = Frontier
      /\ conns' = [conns EXCEPT ![c][g] = <<>>]
      /\ monitor' = [monitor EXCEPT ![c][g] = "done"]
  BY DEF Leave, Goto, noteVars, Frontier
<1>2. \A h \in Gen :
        /\ conns'[c][h] = IF h = g THEN <<>> ELSE conns[c][h]
        /\ monitor'[c][h] = IF h = g THEN "done" ELSE monitor[c][h]
  BY <1>1 DEF CommTypeOK
<1>3. \A h \in Gen : h # g => monitor[c][h] \notin Alive /\ conns[c][h] = <<>>
  <2>1. monitor[c][g] \in Alive
    BY DEF Leave, At, Alive
  <2> QED
    BY <2>1 DEF ClientAt, ThreadAt, Alive, Listening
<1>4. ASSUME NEW h \in Gen PROVE LineAt(c, h)' /\ ThreadAt(c, h)'
  <2>1. conns'[c][h] = <<>> /\ monitor'[c][h] \notin Alive
    BY <1>2, <1>3 DEF Alive
  <2>2. ThreadAt(c, h)'
    BY <2>1 DEF ThreadAt, Alive, Listening
  <2>3. LineAt(c, h)'
    <3>1. <<>> \in Seq(Connection)
      BY EmptySeq
    <3> QED
      BY <2>1, <3>1, EmptyLine DEF LineAt
  <2> QED
    BY <2>2, <2>3
<1> QED
  BY <1>1, <1>4 DEF ClientAt

\* A client that dies leaves an empty line.
LEMMA DiesLine ==
  ASSUME CommTypeOK, NEW c \in Client, UNCHANGED step, ClientDies(c)
  PROVE  ClientAt(c)'
<1>1. heard'[c] = <<>> /\ \A h \in Gen : conns'[c][h] = <<>>
  BY DEF ClientDies, CommTypeOK
<1>2. \A h \in Gen : monitor'[c][h] \notin Alive
  BY DEF ClientDies, CommTypeOK, Living, Alive
<1>3. <<>> \in Seq(Connection) /\ Len(<<>>) = 0
  BY EmptySeq
<1>4. ASSUME NEW h \in Gen PROVE LineAt(c, h)'
  BY <1>1, <1>3, EmptyLine DEF LineAt
<1>5. ASSUME NEW h \in Gen PROVE ThreadAt(c, h)'
  BY <1>1, <1>2 DEF ThreadAt, Alive, Listening
<1>6. Heard(heard[c], Frontier)'
  BY <1>1, <1>3 DEF Heard
<1> QED
  BY <1>4, <1>5, <1>6 DEF ClientAt

(* A line with fewer messages.                                             *)
LEMMA LessLine ==
  ASSUME NEW s, NEW t, \A j \in 1 .. Len(t) : \E k \in 1 .. Len(s) : t[j].msg = s[k].msg,
         NEW n, NEW h
  PROVE  /\ Older(s, n) => Older(t, n)
         /\ Newer(s, h) => Newer(t, h)
         /\ AllWritten(s) => AllWritten(t)
BY DEF Older, Newer, AllWritten

(* Accept and Deliver: only the line of thread g changes.                  *)
LEMMA OneLine ==
  ASSUME CommTypeOK, NEW c \in Client, ClientAt(c), NEW g \in Gen,
         UNCHANGED <<noteVars, step, monitor, starts, path>>,
         Working(c, g),
         NEW t \in Seq(Connection), conns' = [conns EXCEPT ![c][g] = t],
         Line(t), Older(t, Frontier), Newer(t, heard'[c]), AllWritten(conns[c][g]) => AllWritten(t),
         Heard(heard'[c], Frontier)
  PROVE  ClientAt(c)'
<1>1. Frontier' = Frontier /\ UNCHANGED <<note, toVisit>>
  BY DEF Frontier, noteVars
<1>2. conns'[c][g] = t /\ \A h \in Gen : h # g => conns'[c][h] = conns[c][h]
  BY DEF CommTypeOK
<1>3. monitor[c][g] \in Alive /\ monitor[c][g] \in Listening
  BY DEF Working, At, Alive, Listening
<1>4. \A h \in Gen : h # g => conns[c][h] = <<>>
  BY <1>3 DEF ClientAt, ThreadAt, Alive, Listening
<1>5. ASSUME NEW h \in Gen PROVE LineAt(c, h)'
  <2>1. CASE h = g
    BY <1>1, <1>2, <2>1 DEF ClientAt, LineAt
  <2>2. CASE h # g
    <3>1. conns'[c][h] = <<>> /\ <<>> \in Seq(Connection)
      BY <1>2, <1>4, <2>2, EmptySeq
    <3> QED
      BY <3>1, EmptyLine DEF LineAt
  <2> QED
    BY <2>1, <2>2
<1>6. ASSUME NEW h \in Gen PROVE ThreadAt(c, h)'
  BY <1>2, <1>3 DEF ClientAt, ThreadAt
<1> QED
  BY <1>1, <1>5, <1>6 DEF ClientAt

\* Accepting the oldest waiting connection keeps the line.
LEMMA AcceptLine ==
  ASSUME CommTypeOK, NEW c \in Client, ClientAt(c), NEW g \in Gen, UNCHANGED step, Accept(c, g)
  PROVE  ClientAt(c)'
<1>1. UNCHANGED <<noteVars, monitor, starts, path, heard>> /\ Working(c, g)
  BY Zenon DEF Accept
<1> DEFINE s == conns[c][g]
<1>2. s \in Seq(Connection)
  BY DEF CommTypeOK
<1>3. /\ Line(s) /\ Older(s, Frontier) /\ Newer(s, heard[c]) /\ Heard(heard[c], Frontier)
  BY DEF ClientAt, LineAt
<1>4. PICK i \in 1 .. Len(s) :
        /\ \A j \in 1 .. Len(s) : ~s[j].accepted => i <= j
        /\ \/ conns' = [conns EXCEPT ![c][g] = Accepted(s, i)]
           \/ conns' = [conns EXCEPT ![c][g] = RemoveAt(s, i)]
  BY AcceptIs
<1> HIDE DEF s
<1>5. PICK t \in Seq(Connection) :
        /\ conns' = [conns EXCEPT ![c][g] = t] /\ Line(t)
        /\ \A j \in 1 .. Len(t) : \E k \in 1 .. Len(s) : t[j].msg = s[k].msg
  <2>1. CASE conns' = [conns EXCEPT ![c][g] = Accepted(s, i)]
    <3>0. PICK t : t = Accepted(s, i)
      OBVIOUS
    <3>1. /\ t \in Seq(Connection) /\ Line(t) /\ Len(t) = Len(s)
          /\ \A j \in 1 .. Len(s) : t[j].msg = s[j].msg
      BY <1>2, <1>3, <1>4, <3>0, LineAccepted
    <3>2. \A j \in 1 .. Len(t) : \E k \in 1 .. Len(s) : t[j].msg = s[k].msg
      BY <3>1
    <3> QED
      BY <2>1, <3>0, <3>1, <3>2
  <2>2. CASE conns' = [conns EXCEPT ![c][g] = RemoveAt(s, i)]
    <3> DEFINE t == RemoveAt(s, i)
    <3>1. /\ t \in Seq(Connection) /\ Line(t)
          /\ \A j \in 1 .. Len(t) : \E k \in 1 .. Len(s) : k # i /\ t[j] = s[k]
      BY <1>2, <1>3, LineRemoved
    <3> HIDE DEF t
    <3>2. \A j \in 1 .. Len(t) : \E k \in 1 .. Len(s) : t[j].msg = s[k].msg
      BY <3>1
    <3> QED
      BY <2>2, <3>1, <3>2 DEF t
  <2> QED
    BY <1>4, <2>1, <2>2
<1>6. Older(t, Frontier) /\ Newer(t, heard[c]) /\ (AllWritten(s) => AllWritten(t))
  BY <1>3, <1>5, LessLine
<1> QED
  BY <1>1, <1>3, <1>5, <1>6, OneLine DEF s

(* What is delivered is the oldest message of the line.                    *)
LEMMA DeliverLine ==
  ASSUME CommTypeOK, NEW c \in Client, ClientAt(c), NEW g \in Gen, UNCHANGED step, Deliver(c, g)
  PROVE  ClientAt(c)'
<1>1. UNCHANGED <<noteVars, monitor, starts, path>> /\ Working(c, g)
  BY Zenon DEF Deliver, monitorVars
<1> DEFINE s == conns[c][g]
           h == heard[c]
<1>2. s \in Seq(Connection) /\ h \in Seq(Message) /\ heard \in [Client -> Seq(Message)]
  BY DEF CommTypeOK
<1>3. /\ Line(s) /\ Older(s, Frontier) /\ Newer(s, h) /\ Heard(h, Frontier)
  BY DEF ClientAt, LineAt
<1>4. PICK i \in 1 .. Len(s) :
        /\ Readable(s[i])
        /\ \A j \in 1 .. Len(s) : Readable(s[j]) => i <= j
        /\ conns' = [conns EXCEPT ![c][g] = RemoveAt(s, i)]
        /\ heard' = [heard EXCEPT ![c] = Append(h, s[i].msg)]
  BY DeliverIs
<1> HIDE DEF s, h
<1> DEFINE m == s[i].msg
           t == RemoveAt(s, i)
           e == Append(h, m)
<1>5. m \in Message /\ m # NoMessage /\ s[i].accepted
  BY <1>2, <1>4, ElementOfSeq, MessageIs DEF Readable
<1>6. heard'[c] = e
  BY <1>2, <1>4
<1>7. /\ t \in Seq(Connection) /\ Line(t)
      /\ \A j \in 1 .. Len(t) : \E k \in 1 .. Len(s) : k # i /\ t[j] = s[k]
  BY <1>2, <1>3, LineRemoved
<1>8. PICK p \in Nat : p = Len(s) /\ i \in 1 .. p
  BY <1>2, LenProperties
<1>9. ASSUME NEW k \in 1 .. p, k # i, s[k].msg # NoMessage PROVE Key(m) < Key(s[k].msg)
  <2>1. CASE k < i
    <3>1. s[k].accepted
      BY <1>3, <1>5, <1>8, <2>1 DEF Line
    <3> QED
      BY <1>4, <1>8, <1>9, <2>1, <3>1 DEF Readable
  <2>2. CASE i < k
    BY <1>3, <1>8, <1>9, <2>2 DEF Line
  <2> QED
    BY <1>8, <1>9, <2>1, <2>2
<1>10. PICK n \in Nat : n = Len(h)
  BY <1>2, LenProperties
<1>11. /\ Len(e) = n + 1 /\ e[n + 1] = m
       /\ \A j \in 1 .. n : e[j] = h[j]
  BY <1>2, <1>5, <1>10, AppendProperties
<1>12. Key(m) < Frontier /\ \A j \in 1 .. n : Key(h[j]) < Key(m)
  BY <1>3, <1>5, <1>8, <1>10 DEF Older, Newer
<1> HIDE DEF t, e, m
<1>13. Heard(e, Frontier)
  <2>1. ASSUME NEW j \in 1 .. n + 1, NEW k \in 1 .. n + 1, j < k PROVE Key(e[j]) < Key(e[k])
    <3>1. j \in 1 .. n /\ (k \in 1 .. n \/ k = n + 1)
      BY <2>1
    <3>2. CASE k = n + 1
      BY <1>11, <1>12, <3>1, <3>2
    <3>3. CASE k \in 1 .. n
      BY <1>3, <1>10, <1>11, <2>1, <3>1, <3>3 DEF Heard
    <3> QED
      BY <3>1, <3>2, <3>3
  <2>2. ASSUME NEW j \in 1 .. n + 1 PROVE Key(e[j]) < Frontier
    <3>1. j \in 1 .. n \/ j = n + 1
      OBVIOUS
    <3> QED
      BY <1>3, <1>10, <1>11, <1>12, <3>1 DEF Heard
  <2> QED
    BY <1>11, <2>1, <2>2 DEF Heard
<1>14. Newer(t, e)
  <2> SUFFICES ASSUME NEW j \in 1 .. Len(t), NEW k \in 1 .. n + 1, t[j].msg # NoMessage
               PROVE  Key(e[k]) < Key(t[j].msg)
    BY <1>11 DEF Newer
  <2>1. PICK q \in 1 .. p : q # i /\ t[j] = s[q]
    BY <1>7, <1>8
  <2>2. k \in 1 .. n \/ k = n + 1
    OBVIOUS
  <2>3. CASE k = n + 1
    BY <1>9, <1>11, <2>1, <2>3
  <2>4. CASE k \in 1 .. n
    BY <1>3, <1>8, <1>10, <1>11, <2>1, <2>4 DEF Newer
  <2> QED
    BY <2>2, <2>3, <2>4
<1>15. Older(t, Frontier) /\ (AllWritten(s) => AllWritten(t))
  <2>1. \A j \in 1 .. Len(t) : \E k \in 1 .. Len(s) : t[j].msg = s[k].msg
    BY <1>7
  <2> QED
    BY <1>3, <2>1, LessLine
<1>16. conns' = [conns EXCEPT ![c][g] = t]
  BY <1>4 DEF t
<1> QED
  BY <1>1, <1>6, <1>7, <1>13, <1>14, <1>15, <1>16, OneLine DEF s

\* Every step of a client keeps every line.
LEMMA ClientLines ==
  ASSUME CommTypeOK, Patient, LineInv, UNCHANGED step, NEW c \in Client, ClientNext(c)
  PROVE  LineInv'
<1>1. UNCHANGED noteVars
  BY ClientFrame
<1>2. ASSUME NEW d \in Client, d # c PROVE ClientAt(d)'
  <2>1. /\ monitor'[d] = monitor[d] /\ starts'[d] = starts[d] /\ path'[d] = path[d]
        /\ conns'[d] = conns[d] /\ heard'[d] = heard[d]
    BY <1>2, ClientFrame
  <2> QED
    BY <1>1, <2>1 DEF LineInv, ClientAt, LineAt, ThreadAt, Frontier, noteVars
<1>3. ClientAt(c)
  BY DEF LineInv
<1>4. ClientAt(c)'
  <2>1. CASE StopMonitoring(c) \/ StopIo(c)
    <3>1. UNCHANGED <<conns, heard, monitor, starts, path>>
      BY <2>1 DEF StopMonitoring, StopIo
    <3> QED
      BY <1>1, <1>3, <3>1, ThreadLine DEF ClientAt, ThreadAt
  <2>2. ASSUME NEW g \in Gen, MonitorThread(c, g) PROVE ClientAt(c)'
    <3>1. \/ Accept(c, g) \/ Deliver(c, g) \/ Leave(c, g)
          \/ (\/ PublishIo(c, g) \/ UnlinkStale(c, g) \/ Bind(c, g) \/ MonitorFails(c, g)
              \/ Listen(c, g) \/ Run(c, g) \/ RunReturns(c, g))
      BY <2>2, Zenon DEF MonitorThread
    <3> QED
      BY <1>3, <3>1, AcceptLine, DeliverLine, LeaveLine, MoveLine
  <2> QED
    BY <1>3, <2>1, <2>2, StartLine, DiesLine DEF ClientNext
<1> QED
  BY <1>2, <1>4 DEF LineInv

-----------------------------------------------------------------------------
(* Steps of the notifier                                                   *)

LEMMA VisitIs ==
  ASSUME CommTypeOK, NEW c \in Client, Visit(c)
  PROVE  \/ conns' = conns
         \/ \E g \in Gen :
              /\ monitor[c][g] \in Listening
              /\ conns' = [conns EXCEPT ![c][g] = Joined(conns[c][g])]
<1>1. path[c] # 0 => path[c] \in Gen
  BY DEF CommTypeOK, Gen
<1> QED
  BY <1>1 DEF Visit, Joined

\* The steps of the notifier keep the types.
LEMMA NotifierTypes ==
  ASSUME CommTypeOK, NoteInv, NotifierNext
  PROVE  CommTypeOK'
<1>1. ASSUME NEW c \in Client, Visit(c) PROVE CommTypeOK'
  <2>1. conns \in [Client -> [Gen -> Seq(Connection)]]
    BY DEF CommTypeOK
  <2>2. conns' \in [Client -> [Gen -> Seq(Connection)]]
    <3>1. CASE conns' = conns
      BY <2>1, <3>1
    <3>2. ASSUME NEW g \in Gen,
                 conns' = [conns EXCEPT ![c][g] = Joined(conns[c][g])]
          PROVE  conns' \in [Client -> [Gen -> Seq(Connection)]]
      <4>1. [accepted |-> FALSE, msg |-> NoMessage] \in Connection
        BY DEF Connection
      <4>2. conns[c][g] \in Seq(Connection)
        BY <2>1
      <4>3. PICK x \in Seq(Connection) : conns' = [conns EXCEPT ![c][g] = x]
        BY <3>2, <4>1, <4>2, AppendProperties DEF Joined
      <4> QED
        BY <2>1, <4>3, NestedIs
    <3> QED
      BY <1>1, <3>1, <3>2, VisitIs
  <2>3. toVisit' \in SUBSET Client /\ UNCHANGED <<monitorVars, path, heard, resets, note>>
    BY <1>1 DEF Visit, CommTypeOK
  <2> QED
    BY <2>2, <2>3 DEF CommTypeOK, monitorVars
<1>2. ASSUME SendAll PROVE CommTypeOK'
  <2>1. <<note, resets>> \in Message
    BY <1>2 DEF SendAll, NoteInv, UnderWay, CommTypeOK, Message
  <2>2. ASSUME NEW c \in Client, NEW g \in Gen PROVE conns'[c][g] \in Seq(Connection)
    <3>1. conns[c][g] \in Seq(Connection)
      BY DEF CommTypeOK
    <3>2. conns'[c][g] = [i \in DOMAIN conns[c][g] |->
            IF conns[c][g][i].msg = NoMessage
              THEN [conns[c][g][i] EXCEPT !.msg = <<note, resets>>] ELSE conns[c][g][i]]
      BY <1>2 DEF SendAll
    <3> QED
      BY <2>1, <3>1, <3>2, LineWritten
  <2>3. conns' \in [Client -> [Gen -> Seq(Connection)]]
    <3>1. conns' = [c \in Client |-> [g \in Gen |-> conns'[c][g]]]
      BY <1>2 DEF SendAll
    <3> QED
      BY <2>2, <3>1
  <2>4. note' = "none" /\ UNCHANGED <<monitorVars, path, heard, resets, toVisit>>
    BY <1>2 DEF SendAll
  <2> QED
    BY <2>3, <2>4 DEF CommTypeOK, monitorVars
<1> QED
  BY <1>1, <1>2 DEF NotifierNext

(* A visit makes at most one connection, at the end of a written line.     *)
LEMMA VisitLines ==
  ASSUME CommTypeOK, LineInv, UNCHANGED step, NEW c \in Client, Visit(c)
  PROVE  LineInv'
<1>1. /\ UNCHANGED <<monitor, starts, path, heard, resets, note>> /\ note # "none"
      /\ c \in toVisit /\ toVisit' = toVisit \ {c}
  BY DEF Visit, monitorVars
<1>2. Frontier' = Frontier
  BY <1>1 DEF Frontier
<1>3. ASSUME UNCHANGED conns PROVE LineInv'
  BY <1>1, <1>2, <1>3 DEF LineInv, ClientAt, LineAt, ThreadAt
<1>4. ASSUME NEW g \in Gen, monitor[c][g] \in Listening,
             conns' = [conns EXCEPT ![c][g] = Joined(conns[c][g])]
      PROVE  LineInv'
  <2>1. conns[c][g] \in Seq(Connection) /\ conns \in [Client -> [Gen -> Seq(Connection)]]
    BY DEF CommTypeOK
  <2>2. /\ Line(conns[c][g]) /\ AllWritten(conns[c][g])
        /\ Older(conns[c][g], Frontier) /\ Newer(conns[c][g], heard[c])
    BY <1>1 DEF LineInv, ClientAt, LineAt
  <2>3. PICK t : t = Joined(conns[c][g])
    OBVIOUS
  <2>4. /\ t \in Seq(Connection) /\ Line(t)
        /\ \A j \in 1 .. Len(t) :
             t[j].msg # NoMessage => j \in 1 .. Len(conns[c][g]) /\ t[j] = conns[c][g][j]
    BY <2>1, <2>2, <2>3, LineJoined
  <2>5. Older(t, Frontier) /\ Newer(t, heard[c])
    BY <2>2, <2>4 DEF Older, Newer
  <2>6. /\ conns'[c][g] = t
        /\ \A d \in Client, h \in Gen : d # c \/ h # g => conns'[d][h] = conns[d][h]
    BY <1>4, <2>1, <2>3, <2>4, NestedIs
  <2>7. ASSUME NEW d \in Client, NEW h \in Gen PROVE LineAt(d, h)' /\ ThreadAt(d, h)'
    <3>1. CASE d = c /\ h = g
      BY <1>1, <1>2, <1>4, <2>4, <2>5, <2>6, <3>1 DEF LineInv, ClientAt, LineAt, ThreadAt
    <3>2. CASE d # c \/ h # g
      BY <1>1, <1>2, <2>6, <3>2 DEF LineInv, ClientAt, LineAt, ThreadAt
    <3> QED
      BY <3>1, <3>2
  <2>8. \A d \in Client : Heard(heard[d], Frontier)'
    BY <1>1, <1>2 DEF LineInv, ClientAt
  <2> QED
    BY <2>7, <2>8 DEF LineInv, ClientAt
<1> QED
  BY <1>3, <1>4, VisitIs

(* The keys of what has been sent stay below a larger frontier.            *)
LEMMA FrontierIs ==
  ASSUME CommTypeOK
  PROVE  Frontier \in Nat
BY DEF Frontier, CommTypeOK

\* What is older than a key is older than a larger key.
LEMMA KeysBelow ==
  ASSUME NEW m \in Nat, NEW n \in Nat, m <= n,
         NEW s \in Seq(Connection), NEW h \in Seq(Message)
  PROVE  (Older(s, m) => Older(s, n)) /\ (Heard(h, m) => Heard(h, n))
<1>1. \A i \in 1 .. Len(s) : s[i].msg # NoMessage => Key(s[i].msg) \in Nat
  BY ElementOfSeq, MessageIs, KeyIs
<1>2. \A i \in 1 .. Len(h) : Key(h[i]) \in Nat
  BY ElementOfSeq, KeyIs
<1>3. ASSUME Older(s, m) PROVE Older(s, n)
  BY <1>1, <1>3 DEF Older
<1>4. ASSUME Heard(h, m) PROVE Heard(h, n)
  BY <1>2, <1>4 DEF Heard
<1> QED
  BY <1>3, <1>4

\* The writes of the notifier fill the open connections with one message newer than all others.
LEMMA SendLines ==
  ASSUME CommTypeOK, NoteInv, LineInv, UNCHANGED step, SendAll
  PROVE  LineInv'
<1> DEFINE m == <<note, resets>>
<1>1. /\ m \in Message /\ m # NoMessage /\ Key(m) = Frontier /\ Key(m) \in Nat
      /\ Frontier' = Key(m) + 1
  <2>1. \/ note = "pre" /\ step = "notifying" /\ resets > 0
        \/ note = "post" /\ step = "announced" /\ resets > 0
    BY DEF SendAll, CommTypeOK, NoteInv, UnderWay
  <2>2. note' = "none" /\ resets' = resets /\ resets \in 1 .. MaxResets
    BY <2>1 DEF SendAll, CommTypeOK
  <2> QED
    BY <2>1, <2>2 DEF Message, NoMessage, Key, Frontier, Sequence
<1>2. UNCHANGED <<monitor, starts, path, heard>>
  BY DEF SendAll, monitorVars
<1> HIDE DEF m
<1>3. ASSUME NEW c \in Client PROVE ClientAt(c)'
  <2>1. heard[c] \in Seq(Message) /\ Heard(heard[c], Frontier)
    BY DEF CommTypeOK, LineInv, ClientAt
  <2>2. Heard(heard[c], Frontier)'
    <3>1. <<>> \in Seq(Connection) /\ Key(m) <= Key(m) + 1 /\ Key(m) + 1 \in Nat
      BY <1>1, EmptySeq
    <3>2. Heard(heard[c], Key(m) + 1)
      BY <1>1, <2>1, <3>1, KeysBelow
    <3> QED
      BY <1>1, <1>2, <3>2
  <2>3. ASSUME NEW g \in Gen PROVE LineAt(c, g)' /\ ThreadAt(c, g)'
    <3> DEFINE s == conns[c][g]
    <3>1. s \in Seq(Connection) /\ Line(s) /\ Older(s, Key(m)) /\ Newer(s, heard[c])
      BY <1>1 DEF CommTypeOK, LineInv, ClientAt, LineAt
    <3>2. PICK t : /\ conns'[c][g] = t
                   /\ t = [i \in DOMAIN s |-> IF s[i].msg = NoMessage
                                              THEN [s[i] EXCEPT !.msg = m] ELSE s[i]]
      BY DEF SendAll, m
    <3>a. ThreadAt(c, g)
      BY DEF LineInv, ClientAt
    <3>b. monitor[c][g] \notin Listening => s = <<>>
      BY <3>a DEF ThreadAt
    <3> HIDE DEF s
    <3>3. /\ t \in Seq(Connection) /\ Len(t) = Len(s) /\ AllWritten(t) /\ Line(t)
          /\ \A i \in 1 .. Len(s) : t[i].msg = IF s[i].msg = NoMessage THEN m ELSE s[i].msg
      BY <1>1, <3>1, <3>2, LineWritten
    <3>4. Older(t, Key(m) + 1)
      <4> SUFFICES ASSUME NEW i \in 1 .. Len(s) PROVE Key(t[i].msg) < Key(m) + 1
        BY <3>3 DEF Older
      <4>1. s[i].msg # NoMessage => Key(s[i].msg) < Key(m) /\ Key(s[i].msg) \in Nat
        BY <3>1, ElementOfSeq, MessageIs, KeyIs DEF Older
      <4> QED
        BY <1>1, <3>3, <4>1
    <3>5. Newer(t, heard[c])
      <4> SUFFICES ASSUME NEW i \in 1 .. Len(s), NEW j \in 1 .. Len(heard[c])
                   PROVE  Key(heard[c][j]) < Key(t[i].msg)
        BY <3>3 DEF Newer
      <4>1. Key(heard[c][j]) < Key(m)
        BY <1>1, <2>1 DEF Heard
      <4> QED
        BY <3>1, <3>3, <4>1 DEF Newer
    <3>6. s = <<>> => t = <<>>
      <4>1. s = <<>> => Len(s) = 0
        BY EmptySeq
      <4> QED
        BY <3>3, <4>1, EmptySeq
    <3>7. LineAt(c, g)'
      BY <1>1, <1>2, <3>2, <3>3, <3>4, <3>5 DEF LineAt
    <3>8. ThreadAt(c, g)'
      BY <1>2, <3>a, <3>b, <3>2, <3>6 DEF ThreadAt
    <3> QED
      BY <3>7, <3>8
  <2> QED
    BY <2>2, <2>3 DEF ClientAt
<1> QED
  BY <1>3 DEF LineInv

-----------------------------------------------------------------------------
(* Steps of the resetting process                                          *)

LEMMA DoubleIs == \A r \in Nat : 2 * r \in Nat /\ 2 * r + 1 \in Nat /\ 2 * r + 2 \in Nat
OBVIOUS

(* It goes on, and may start a notification when none is under way.        *)
LEMMA StayLines ==
  ASSUME CommTypeOK, CommTypeOK', LineInv,
         UNCHANGED <<monitor, starts, path, conns, heard>>, Frontier <= Frontier',
         note = "none" \/ UNCHANGED <<note, toVisit>>
  PROVE  LineInv'
<1>1. Frontier \in Nat /\ Frontier' \in Nat
  <2>1. resets \in Nat /\ resets' \in Nat
    BY DEF CommTypeOK
  <2>2. Frontier' \in {2 * resets', 2 * resets' + 1, 2 * resets' + 2}
    BY DEF Frontier
  <2>3. 2 * resets' \in Nat /\ 2 * resets' + 1 \in Nat /\ 2 * resets' + 2 \in Nat
    BY <2>1, DoubleIs
  <2> QED
    BY <2>2, <2>3, FrontierIs
<1>2. ASSUME NEW c \in Client PROVE ClientAt(c)'
  <2>1. heard[c] \in Seq(Message) /\ ClientAt(c)
    BY DEF CommTypeOK, LineInv
  <2>2. Heard(heard[c], Frontier')
    <3>1. <<>> \in Seq(Connection)
      BY EmptySeq
    <3> QED
      BY <1>1, <2>1, <3>1, KeysBelow DEF ClientAt
  <2>3. ASSUME NEW g \in Gen PROVE LineAt(c, g)' /\ ThreadAt(c, g)'
    <3>1. conns[c][g] \in Seq(Connection) /\ LineAt(c, g) /\ ThreadAt(c, g)
      BY <2>1 DEF CommTypeOK, ClientAt
    <3>2. Older(conns[c][g], Frontier')
      BY <1>1, <2>1, <3>1, KeysBelow DEF LineAt
    <3>3. LineAt(c, g)'
      BY <3>1, <3>2 DEF LineAt
    <3>4. ThreadAt(c, g)'
      BY <3>1 DEF ThreadAt
    <3> QED
      BY <3>3, <3>4
  <2> QED
    BY <2>2, <2>3 DEF ClientAt
<1> QED
  BY <1>2 DEF LineInv

\* The death of the resetting process closes the connections it had not written to.
LEMMA DiesIs ==
  ASSUME CommTypeOK, ResetterDies
  PROVE  /\ \A c \in Client, g \in Gen : conns'[c][g] = Shut(conns[c][g])
         /\ conns' = [c \in Client |-> [g \in Gen |-> conns'[c][g]]]
         /\ UNCHANGED <<monitorVars, path, heard, resets>> /\ note' = "none" /\ toVisit' = {}
BY DEF ResetterDies, Shut

\* The death of the resetting process keeps the types.
LEMMA DiesTypes == ASSUME CommTypeOK, ResetterDies PROVE CommTypeOK'
<1>1. \A c \in Client, g \in Gen : conns'[c][g] \in Seq(Connection)
  <2> SUFFICES ASSUME NEW c \in Client, NEW g \in Gen PROVE conns'[c][g] \in Seq(Connection)
    OBVIOUS
  <2>1. conns[c][g] \in Seq(Connection)
    BY DEF CommTypeOK
  <2> QED
    BY <2>1, DiesIs, LineClosed
<1>2. conns' \in [Client -> [Gen -> Seq(Connection)]]
  BY <1>1, DiesIs
<1> QED
  BY <1>2, DiesIs DEF CommTypeOK, monitorVars

(* It dies: connections it has not written to leave the lines.             *)
LEMMA DiesLines ==
  ASSUME CommTypeOK, LineInv, ResetterDies
  PROVE  LineInv'
<1>1. /\ UNCHANGED <<monitor, starts, path, heard, resets>> /\ note' = "none"
      /\ step' = "idle"
  BY DiesIs DEF ResetterDies, Over, monitorVars
<1>2. Frontier \in Nat /\ Frontier' \in Nat /\ Frontier <= Frontier'
  BY <1>1, FrontierIs DEF Frontier, CommTypeOK, Sequence
<1>3. ASSUME NEW c \in Client PROVE ClientAt(c)'
  <2>1. heard[c] \in Seq(Message) /\ ClientAt(c)
    BY DEF CommTypeOK, LineInv
  <2>2. Heard(heard[c], Frontier')
    <3>1. <<>> \in Seq(Connection)
      BY EmptySeq
    <3> QED
      BY <1>2, <2>1, <3>1, KeysBelow DEF ClientAt
  <2>3. ASSUME NEW g \in Gen PROVE LineAt(c, g)' /\ ThreadAt(c, g)'
    <3> DEFINE s == conns[c][g]
               t == Shut(s)
    <3>1. s \in Seq(Connection) /\ LineAt(c, g) /\ ThreadAt(c, g) /\ conns'[c][g] = t
      BY <2>1, DiesIs DEF CommTypeOK, ClientAt
    <3>2. Line(s) /\ Older(s, Frontier) /\ Newer(s, heard[c])
      BY <3>1 DEF LineAt
    <3>3. /\ t \in Seq(Connection) /\ Line(t) /\ AllWritten(t) /\ (s = <<>> => t = <<>>)
          /\ \A i \in 1 .. Len(t) : i \in 1 .. Len(s) /\ t[i] = s[i]
      BY <3>1, <3>2, LineClosed
    <3> HIDE DEF s, t
    <3>4. Older(t, Frontier) /\ Newer(t, heard[c])
      BY <3>2, <3>3, LessLine
    <3>5. Older(t, Frontier')
      BY <1>2, <2>1, <3>3, <3>4, KeysBelow
    <3>6. LineAt(c, g)'
      BY <1>1, <3>1, <3>3, <3>4, <3>5 DEF LineAt
    <3>7. ThreadAt(c, g)'
      BY <1>1, <3>1, <3>3 DEF ThreadAt, s
    <3> QED
      BY <3>6, <3>7
  <2> QED
    BY <1>1, <2>2, <2>3 DEF ClientAt
<1> QED
  BY <1>3 DEF LineInv

-----------------------------------------------------------------------------
(* Types and numbers of the devices                                        *)

(* A device that comes back finds a free number.                           *)
LEMMA FreeNumber ==
  ASSUME TypeOK, NEW d \in Device, devId[d] = Gone
  PROVE  /\ Min(FreeIds) \in Id /\ Min(FreeIds) # Gone
         /\ \A e \in Present : devId[e] # Min(FreeIds)
<1>1. Present \subseteq Device /\ Present # Device /\ IsFiniteSet(Device)
  BY DEF Present
<1>2. PICK k \in 0 .. Cardinality(Device) - 1 : \A e \in Present : devId[e] # k
  BY <1>1, NumberLeft
<1>3. k \in FreeIds
  BY <1>2 DEF FreeIds, Id
<1>4. FreeIds \subseteq Nat
  BY DEF FreeIds, Id
<1>5. PICK m \in FreeIds : m = Min(FreeIds)
  BY <1>3, <1>4, MinIs
<1>6. m \in Id /\ \A e \in Present : devId[e] # m
  BY DEF FreeIds
<1>7. m # Gone
  BY <1>4 DEF Gone
<1> QED
  BY <1>5, <1>6, <1>7

Chips == {"working", "resetting", "reset", "restored", "early", "late"}
Steps == {"idle", "asking", "notifying", "resetting", "awaiting", "polling",
          "starting", "triggering", "restoring", "announcing", "announced"}

(* The part of the state that belongs to the resets.                       *)
ResetTypeOK ==
  /\ arch \in Arch /\ devId \in [Device -> Id \cup {Gone}]
  /\ chip \in [Device -> Chips] /\ whole \in BOOLEAN /\ call \in Call /\ step \in Steps

\* The type invariant by component.
LEMMA TypeParts == TypeOK <=> CommTypeOK /\ ResetTypeOK
BY DEF TypeOK, ResetTypeOK, Chips, Steps

\* The state between two resets is well typed.
LEMMA NoCallIs == NoCall \in Call /\ Fresh \in [Device -> Chips]
<1>1. 0 \in Clock
  BY ResetAssumption DEF Clock
<1> QED
  BY <1>1 DEF NoCall, Call, Fresh, Chips

\* A completed reset leaves a device in one of its states.
LEMMA CompletedIs == \A c \in Chips : Completed(c) \in Chips
BY DEF Completed, Chips

\* Numbers of devices are numbers; none is the mark of a missing device.
LEMMA NumberIs == Id \subseteq Number /\ Gone \notin Number /\ Foreign \notin Id
<1>1. Cardinality(Device) \in Nat
  BY ResetAssumption, FS_CardinalityType
<1> QED
  BY <1>1 DEF Number, Id, Gone, Foreign

\* The steps of the devices keep the types and do not touch the notification.
LEMMA HardwareTypes ==
  ASSUME TypeOK, Hardware
  PROVE  ResetTypeOK' /\ UNCHANGED commVars
<1>1. ResetTypeOK
  BY TypeParts
<1>2. PICK d \in Device : ResetCompletes(d) \/ LeavesBus(d) \/ Disappears(d) \/ ComesBack(d)
  BY DEF Hardware
<1>3. CASE ResetCompletes(d) \/ LeavesBus(d) \/ Disappears(d)
  <2>1. Completed(chip[d]) \in Chips
    BY <1>1, CompletedIs DEF ResetTypeOK
  <2>2. CASE ResetCompletes(d)
    BY <1>1, <2>1, <2>2 DEF ResetCompletes, ResetTypeOK
  <2>3. CASE LeavesBus(d) \/ Disappears(d)
    BY <1>1, <2>3 DEF LeavesBus, Disappears, ResetTypeOK
  <2> QED
    BY <1>3, <2>2, <2>3
<1>4. CASE ComesBack(d)
  <2>1. Min(FreeIds) \in Id
    BY <1>4, FreeNumber DEF ComesBack
  <2> QED
    <3>1. Completed(chip[d]) \in Chips
      BY <1>1, CompletedIs DEF ResetTypeOK
    <3> QED
      BY <1>1, <1>4, <2>1, <3>1 DEF ComesBack, ResetTypeOK
<1> QED
  BY <1>2, <1>3, <1>4

\* The steps of the resetting process keep the types.
LEMMA ResetterTypes == ASSUME TypeOK, Resetter PROVE ResetTypeOK'
<1>1. ResetTypeOK
  BY TypeParts
<1> USE DEF ResetTypeOK
<1>2. ASSUME Over PROVE ResetTypeOK'
  BY <1>1, <1>2, NoCallIs DEF Over, Steps
<1>3. TargetDevices \in SUBSET Device /\ Present \in SUBSET Device /\ call.started \in SUBSET Device
  BY <1>1 DEF TargetDevices, Present, Call
<1>4. ASSUME NEW ds \in SUBSET Device, ds \subseteq Present PROVE NumbersOf(ds) \in SUBSET Number
  BY <1>1, <1>4, NumberIs DEF NumbersOf, Present
<1>5. ASSUME NEW here, NEW next \in Steps, NEW c \in Call, Through(here, next, c)
      PROVE  ResetTypeOK'
  BY <1>1, <1>5 DEF Through
<1>6. ToTargets \in Call
  <2>1. NumbersOf(TargetDevices) \in SUBSET Number
    BY <1>3, <1>4 DEF TargetDevices
  <2> QED
    BY <1>1, <2>1 DEF ToTargets, Call
<1>7. ASSUME NEW d \in Device PROVE Without(d) \in Call /\ WithoutNumber(d) \in Call
  BY <1>1, <1>7 DEF Without, WithoutNumber, Call
<1>8. CASE AskAny
  <2>1. PICK ds \in SUBSET Device, ks \in SUBSET Number, n \in {0, MaxAttempts} : Ask(ds, ks, n)
    BY <1>8 DEF AskAny
  <2>2. n \in 0 .. MaxAttempts
    BY ResetAssumption
  <2>3. call' \in Call
    BY <1>1, <2>1, <2>2 DEF Ask, Call
  <2> QED
    BY <1>1, <2>1, <2>3 DEF Ask, Steps
<1>9. CASE Begin
  <2>1. call.names \cap Present \in SUBSET Device /\ call.numbers \in SUBSET Number
    BY <1>1, <1>3 DEF Call
  <2>2. Resolve \in SUBSET Number
    BY <1>3, <1>4, <2>1 DEF Resolve, Chosen
  <2>3. {d \in Present : devId[d] \in Resolve} \in SUBSET Device
    BY <1>3
  <2>4. call' \in Call
    BY <1>1, <1>9, <2>2, <2>3, NoCallIs DEF Begin, Call
  <2> QED
    BY <1>1, <1>9, <2>4, NoCallIs DEF Begin, Steps
<1>10. CASE NoDevices \/ Throws \/ ResetterDies
  BY <1>2, <1>10 DEF NoDevices, Throws, ResetterDies
<1>11. CASE ChooseSequence
  <2>1. PICK ks \in SUBSET Number : call' = [call EXCEPT !.known = Present, !.ids = ks]
    <3>1. NumbersOf(TargetDevices) \in SUBSET Number /\ call.targets \in SUBSET Number
      BY <1>1, <1>3, <1>4 DEF TargetDevices, Call
    <3> QED
      BY <1>11, <3>1 DEF ChooseSequence
  <2>2. call' \in Call
    BY <1>1, <1>3, <2>1 DEF Call
  <2> QED
    BY <1>1, <1>11, <2>2 DEF ChooseSequence, Steps
<1>12. CASE Settle \/ AllReappeared \/ StartPolling \/ PollsDone \/ AllTriggered
  <2>1. \A b \in BOOLEAN : [call EXCEPT !.todo = call.known, !.prompt = b] \in Call
    BY <1>1 DEF Call
  <2>2. [call EXCEPT !.todo = call.known, !.prompt = \A d \in Present : chip[d] # "resetting"]
        \in Call
    BY <2>1
  <2> QED
    BY <1>1, <1>5, <1>6, <1>12, <2>2 DEF Settle, AllReappeared, StartPolling, PollsDone,
       AllTriggered, Steps
<1>13. CASE NotReappeared
  <2>1. call' \in Call
    BY <1>1, <1>13 DEF NotReappeared, Call
  <2> QED
    BY <1>1, <1>13, <2>1 DEF NotReappeared, Steps
<1>14. CASE PollAgain \/ SequenceDone \/ AllStarted
  <2>1. CASE PollAgain
    <3>1. call' \in Call
      BY <1>1, <2>1 DEF PollAgain, Call
    <3> QED
      BY <1>1, <2>1, <3>1 DEF PollAgain
  <2>2. CASE SequenceDone
    <3>1. PICK f \in [Device -> Clock], b \in BOOLEAN :
            call' = [call EXCEPT !.ticks = f, !.result = b]
      <4>1. PICK f \in [Device -> Clock] :
              call' = [call EXCEPT !.ticks = f, !.result = Outcome(f)]
        BY <2>2 DEF SequenceDone
      <4>2. Outcome(f) \in BOOLEAN
        BY DEF Outcome
      <4> QED
        BY <4>1, <4>2
    <3>2. call' \in Call
      BY <1>1, <3>1 DEF Call
    <3> QED
      BY <1>1, <2>2, <3>2 DEF SequenceDone, Steps
  <2>3. CASE AllStarted
    <3>1. PICK f \in [Device -> Clock] :
            Through("starting", "triggering", [call EXCEPT !.todo = call.started, !.old = f])
      BY <2>3 DEF AllStarted
    <3>2. [call EXCEPT !.todo = call.started, !.old = f] \in Call
      BY <1>1, <1>3 DEF Call
    <3> QED
      BY <1>5, <3>1, <3>2 DEF Steps
  <2> QED
    BY <1>14, <2>1, <2>2, <2>3
<1>15. CASE Announce
  BY <1>1, <1>15 DEF Announce, Steps
<1>16. CASE Return
  <2>1. CASE Over
    BY <1>2, <2>1
  <2>2. CASE ~Over
    <3>1. call.attempts > 1 /\ call' = [call EXCEPT !.attempts = call.attempts - 1]
          /\ step' = "asking" /\ UNCHANGED <<arch, devId, chip, whole>>
      BY <1>16, <2>2 DEF Return
    <3>2. call.attempts - 1 \in 0 .. MaxAttempts
      BY <1>1, <3>1 DEF Call
    <3> QED
      BY <1>1, <3>1, <3>2 DEF Call, Steps
  <2> QED
    BY <2>1, <2>2
<1>17. ASSUME NEW d \in Device,
              \/ ResetIoctl(d) \/ RestoreIoctl(d) \/ Reappeared(d) \/ TriggerReset(d)
       PROVE  ResetTypeOK'
  BY <1>1, <1>7, <1>17 DEF ResetIoctl, RestoreIoctl, Reappeared, TriggerReset, Handle,
     HandleNumber, Chips
<1>18. ASSUME NEW d \in Device, ArcStarts(d) PROVE ResetTypeOK'
  <2>1. call' \in Call
    BY <1>1, <1>18 DEF ArcStarts, WithoutNumber, Call
  <2> QED
    BY <1>1, <1>18, <2>1 DEF ArcStarts, HandleNumber
<1> QED
  BY <1>8, <1>9, <1>10, <1>11, <1>12, <1>13, <1>14, <1>15, <1>16, <1>17, <1>18 DEF Resetter

-----------------------------------------------------------------------------
(* Control: which step follows which                                       *)

LEMMA ResetterControl ==
  ASSUME TypeOK, NoteInv, ArchInv, Numbered, Resetter
  PROVE  NoteInv' /\ ArchInv' /\ Numbered'
<1>1. ResetTypeOK /\ CommTypeOK
  BY TypeParts
<1>2. UNCHANGED <<arch, devId>>
  BY DEF Resetter, AskAny, Ask, Begin, NoDevices, ChooseSequence, Settle, NotReappeared, AllReappeared,
     StartPolling, PollAgain, PollsDone, AllStarted, AllTriggered, SequenceDone, Throws,
     Announce, Return, ResetterDies, ResetIoctl, RestoreIoctl, Reappeared, ArcStarts,
     TriggerReset, Over, Through, Handle, HandleNumber
<1>3. Numbered'
  BY <1>2 DEF Numbered, Present
<1>4. NoteInv'
  <2> USE DEF NoteInv, UnderWay, Sequence, commVars, noteVars
  <2>1. resets \in Nat /\ note \in {"none", "pre", "post"}
    BY <1>1 DEF CommTypeOK
  <2>2. ASSUME UNCHANGED commVars, step' = "idle", note = "none" PROVE NoteInv'
    BY <2>2
  <2>3. CASE AskAny \/ NoDevices \/ Throws
    BY <2>1, <2>3 DEF AskAny, Ask, NoDevices, Throws, Over
  <2>4. CASE Begin
    BY <2>1, <2>4 DEF Begin, BeginNote
  <2>5. CASE ChooseSequence \/ NotReappeared \/ PollAgain \/ SequenceDone
    BY <2>1, <2>5 DEF ChooseSequence, NotReappeared, PollAgain, SequenceDone
  <2>6. CASE Settle \/ AllReappeared \/ StartPolling \/ PollsDone \/ AllStarted \/ AllTriggered
    BY <2>1, <2>6 DEF Settle, AllReappeared, StartPolling, PollsDone, AllStarted, AllTriggered,
       Through
  <2>7. CASE Announce
    BY <2>1, <2>7 DEF Announce, BeginNote
  <2>8. CASE Return
    BY <2>1, <2>8 DEF Return, Over
  <2>9. CASE ResetterDies
    BY <2>9 DEF ResetterDies, Over
  <2>10. ASSUME NEW d \in Device, \/ ResetIoctl(d) \/ RestoreIoctl(d) \/ Reappeared(d)
                                  \/ ArcStarts(d) \/ TriggerReset(d)
         PROVE  NoteInv'
    BY <2>10 DEF ResetIoctl, RestoreIoctl, Reappeared, ArcStarts, TriggerReset, Handle,
       HandleNumber
  <2> QED
    BY <2>3, <2>4, <2>5, <2>6, <2>7, <2>8, <2>9, <2>10 DEF Resetter
<1>5. ArchInv'
  <2> USE <1>2 DEF ArchInv, Sequence
  <2>1. call \in Call /\ arch \in {"agnostic", "wormhole", "blackhole"}
    BY <1>1, ResetAssumption DEF ResetTypeOK
  <2>2. CASE AskAny
    <3>1. PICK ds \in SUBSET Device, ks \in SUBSET Number, n \in {0, MaxAttempts} :
            Ask(ds, ks, n) /\ (ds = {} \/ ks = {})
      BY <2>2 DEF AskAny
    <3>2. call'.names = ds /\ call'.numbers = ks /\ step' = "asking"
      BY <2>1, <3>1 DEF Ask, Call
    <3> QED
      BY <3>1, <3>2
  <2>3. ASSUME Over PROVE ArchInv'
    BY <2>3 DEF Over, NoCall, Fresh
  <2>4. CASE NoDevices \/ Throws \/ ResetterDies
    BY <2>3, <2>4 DEF NoDevices, Throws, ResetterDies
  <2>5. ASSUME call'.result = call.result \/ step' \in {"asking", "announcing", "announced"},
               call'.names = call.names, call'.numbers = call.numbers, step' # "idle",
               step' \in Sequence \cup {"notifying"} => step \in Sequence \cup {"notifying"},
               /\ step' = "awaiting" => arch = "agnostic"
               /\ step' = "polling" => arch = "blackhole"
               /\ step' \in {"starting", "triggering"} => arch = "wormhole"
               /\ step' = "resetting" => arch # "wormhole"
        PROVE  ArchInv'
    BY <2>5
  <2>6. CASE Begin
    <3>1. call'.names = call.names /\ call'.numbers = call.numbers /\ ~call'.result
          /\ step' = "notifying"
      BY <2>1, <2>6 DEF Begin, NoCall
    <3> QED
      BY <3>1
  <2>7. CASE ChooseSequence
    <3>1. PICK ks : call' = [call EXCEPT !.known = Present, !.ids = ks]
      BY <2>7 DEF ChooseSequence
    <3>2. call'.result = call.result /\ call'.names = call.names /\ call'.numbers = call.numbers
      BY <2>1, <3>1 DEF Call
    <3> QED
      BY <2>5, <2>7, <3>2 DEF ChooseSequence
  <2>8. CASE NotReappeared \/ PollAgain
    <3>1. call'.result = call.result /\ call'.names = call.names /\ call'.numbers = call.numbers
      BY <2>1, <2>8 DEF NotReappeared, PollAgain, Call
    <3> QED
      BY <2>5, <2>8, <3>1 DEF NotReappeared, PollAgain
  <2>9. CASE SequenceDone
    <3>1. PICK f, b : call' = [call EXCEPT !.ticks = f, !.result = b]
      BY <2>9 DEF SequenceDone
    <3>2. call'.names = call.names /\ call'.numbers = call.numbers /\ step' = "announcing"
      BY <2>1, <2>9, <3>1 DEF Call, SequenceDone
    <3> QED
      BY <2>5, <3>2
  <2>10. CASE Announce \/ (Return /\ ~Over)
    <3>1. /\ call'.names = call.names /\ call'.numbers = call.numbers
          /\ step' \in {"asking", "announced"}
      BY <2>1, <2>10 DEF Announce, Return, Call
    <3> QED
      BY <2>5, <3>1
  <2>11. CASE Settle \/ AllReappeared \/ StartPolling \/ PollsDone \/ AllStarted \/ AllTriggered
    <3>1. call'.result = call.result /\ call'.names = call.names /\ call'.numbers = call.numbers
      <4>1. CASE AllStarted
        BY <2>1, <4>1 DEF AllStarted, Through, Call
      <4>2. CASE Settle \/ AllReappeared \/ StartPolling \/ PollsDone \/ AllTriggered
        BY <2>1, <4>2 DEF Settle, AllReappeared, StartPolling, PollsDone, AllTriggered, Through,
           ToTargets, Call
      <4> QED
        BY <2>11, <4>1, <4>2
    <3> QED
      BY <2>5, <2>11, <3>1 DEF Settle, AllReappeared, StartPolling, PollsDone, AllStarted,
         AllTriggered, Through
  <2>12. ASSUME NEW d \in Device, \/ ResetIoctl(d) \/ RestoreIoctl(d) \/ Reappeared(d)
                                  \/ ArcStarts(d) \/ TriggerReset(d)
         PROVE  ArchInv'
    <3>1. /\ call'.result = call.result /\ UNCHANGED step /\ step \in Sequence
          /\ call'.names = call.names /\ call'.numbers = call.numbers
      BY <2>1, <2>12 DEF ResetIoctl, RestoreIoctl, Reappeared, ArcStarts, TriggerReset, Handle,
         HandleNumber, Without, WithoutNumber, Call
    <3> QED
      BY <2>5, <3>1
  <2> QED
    BY <2>2, <2>3, <2>4, <2>6, <2>7, <2>8, <2>9, <2>10, <2>11, <2>12 DEF Resetter
<1> QED
  BY <1>3, <1>4, <1>5

\* The devices do not disturb the control state of the reset; numbers stay distinct.
LEMMA HardwareControl ==
  ASSUME TypeOK, NoteInv, ArchInv, Numbered, Hardware
  PROVE  NoteInv' /\ ArchInv' /\ Numbered'
<1>1. ResetTypeOK
  BY TypeParts
<1>2. PICK d \in Device : ResetCompletes(d) \/ LeavesBus(d) \/ Disappears(d) \/ ComesBack(d)
  BY DEF Hardware
<1>3. UNCHANGED <<commVars, arch, step, call>>
  BY <1>2 DEF ResetCompletes, LeavesBus, Disappears, ComesBack
<1>a. step = "idle" => \A e \in Device : chip'[e] = "working"
  BY <1>1, <1>2 DEF ResetCompletes, LeavesBus, Disappears, ComesBack, Completed, ArchInv,
     ResetTypeOK
<1>4. NoteInv' /\ ArchInv'
  BY <1>3, <1>a DEF NoteInv, ArchInv, commVars, noteVars
<1>5. Numbered'
  <2>1. CASE UNCHANGED devId \/ devId' = [devId EXCEPT ![d] = Gone]
    BY <1>1, <2>1 DEF Numbered, Present, ResetTypeOK
  <2>2. CASE ComesBack(d)
    <3>1. PICK m \in Id : m = Min(FreeIds) /\ m # Gone /\ \A e \in Present : devId[e] # m
      BY <2>2, FreeNumber DEF ComesBack
    <3>2. devId' = [devId EXCEPT ![d] = m]
      BY <2>2, <3>1 DEF ComesBack
    <3> QED
      BY <1>1, <3>1, <3>2 DEF Numbered, Present, ResetTypeOK
  <2> QED
    BY <1>2, <2>1, <2>2 DEF ResetCompletes, LeavesBus, Disappears
<1> QED
  BY <1>4, <1>5

-----------------------------------------------------------------------------
(* What a reset does to the devices                                        *)

SaidInv == WholeInv /\ SuccessIsReal /\ ClockIsEvidence /\ OthersUntouched

\* The devices behind the target numbers are among the ones asked for, and all of them when
\* none is gone.
LEMMA TargetsAimed ==
  ASSUME ResetTypeOK, NumberInv
  PROVE  /\ TargetDevices \subseteq call.aimed /\ call.aimed \subseteq Device
         /\ (\A d \in Device : devId[d] # Gone) => TargetDevices = call.aimed
BY DEF NumberInv, TargetDevices, Present, ResetTypeOK, Call

\* Once a reset is over, nothing is left to say about it.
LEMMA SaidOver == ASSUME Over PROVE SaidInv'
BY DEF Over, SaidInv, WholeInv, SuccessIsReal, ClockIsEvidence, OthersUntouched, UnderWay, Sequence,
   Fresh

(* The call begins: with all devices present, all numbers are taken.       *)
LEMMA SaidBegin == ASSUME ResetTypeOK, ArchInv, Numbered, Begin PROVE SaidInv'
<1> DEFINE ds == {d \in Present : devId[d] \in Resolve}
<1>1. /\ call'.aimed = ds /\ call'.targets = Resolve /\ call'.ids = {}
      /\ call'.names = call.names
      /\ call'.started = {} /\ chip' = Fresh /\ whole' = (Present = Device)
      /\ step' = "notifying" /\ UNCHANGED <<arch, devId>>
  BY DEF Begin, NoCall
<1>2. ds \subseteq Present /\ Present \subseteq Device
  BY DEF Present
<1>a. \A d \in Present : d \in ds <=> devId[d] \in Resolve
  OBVIOUS
<1> HIDE DEF ds
<1>3. ASSUME Present = Device PROVE NumberInv'
  <2>1. devId \in [Device -> Id] /\ \A d, e \in Device : devId[d] = devId[e] => d = e
    BY <1>3 DEF Numbered, Present, ResetTypeOK
  <2>2. \A k \in Id : \E d \in Device : devId[d] = k
    BY <2>1, AllNumbersTaken DEF Id
  <2>3. \A d \in Device : devId[d] # Gone
    BY <1>3 DEF Present
  <2>4. \A d \in Device \ ds : devId[d] \notin call'.targets
    BY <1>1, <1>3, <1>a
  <2>5. \A d \in ds : devId[d] \in call'.targets
    BY <1>1, <1>2, <1>a
  <2>6. \A k \in Id \ call'.targets : \E d \in Device \ ds : devId[d] = k
    BY <1>1, <1>2, <1>a, <2>2
  <2>7. ASSUME call.names # {} PROVE ds \subseteq call.names
    <3>1. call.names \subseteq Device /\ call.numbers = {}
      BY <2>7 DEF ArchInv, ResetTypeOK, Call
    <3>2. Chosen = NumbersOf(call.names) /\ Chosen # {}
      BY <1>3, <2>7, <3>1 DEF Chosen, NumbersOf
    <3>3. Resolve = NumbersOf(call.names)
      BY <3>2 DEF Resolve
    <3> QED
      BY <1>2, <1>3, <1>a, <2>1, <3>1, <3>3 DEF NumbersOf
  <2> QED
    BY <1>1, <1>2, <2>3, <2>4, <2>5, <2>6, <2>7 DEF NumberInv
<1>4. PhaseInv'
  BY <1>1 DEF PhaseInv, Fresh
<1>5. OthersUntouched' /\ SuccessIsReal' /\ ClockIsEvidence'
  BY <1>1 DEF OthersUntouched, SuccessIsReal, ClockIsEvidence, Fresh
<1> QED
  BY <1>1, <1>3, <1>4, <1>5 DEF SaidInv, WholeInv

(* Steps that keep devices, targets and aims.                              *)
LEMMA SaidKeeps ==
  ASSUME SaidInv, UNCHANGED <<arch, devId, chip, whole>>,
         call'.aimed = call.aimed, call'.targets = call.targets,
         call'.names = call.names \/ (step' \notin UnderWay /\ \A d \in Device : chip[d] = "working"),
         step' \in UnderWay => step \in UnderWay,
         whole /\ step \in UnderWay /\ NumberInv /\ PhaseInv /\ step' \in UnderWay => PhaseInv',
         SuccessIsReal', ClockIsEvidence'
  PROVE  SaidInv'
<1>1. NumberInv /\ step' \in UnderWay => NumberInv'
  BY DEF NumberInv
<1>2. OthersUntouched'
  BY DEF SaidInv, OthersUntouched
<1> QED
  BY <1>1, <1>2 DEF SaidInv, WholeInv

(* The call is asked for, announced, and may be tried again.               *)
LEMMA SaidAround ==
  ASSUME ResetTypeOK, ArchInv, SaidInv, AskAny \/ Announce \/ (Return /\ ~Over)
  PROVE  SaidInv'
<1>1. /\ UNCHANGED <<arch, devId, chip, whole>> /\ step' \in {"asking", "announced"}
      /\ step' = "announced" => step = "announcing" /\ UNCHANGED call
  BY DEF AskAny, Ask, Announce, Return
<1>2. call'.aimed = call.aimed /\ call'.targets = call.targets
  BY DEF AskAny, Ask, Announce, Return, ResetTypeOK, Call
<1>a. call'.names = call.names \/ (step' = "asking" /\ \A d \in Device : chip[d] = "working")
  BY DEF AskAny, Ask, Announce, Return, ResetTypeOK, Call, ArchInv
<1>3. PhaseInv /\ step' = "announced" => PhaseInv'
  BY <1>1 DEF PhaseInv
<1>4. SuccessIsReal' /\ ClockIsEvidence'
  BY <1>1 DEF SuccessIsReal, ClockIsEvidence
<1> QED
  BY <1>1, <1>2, <1>3, <1>4, <1>a, SaidKeeps DEF UnderWay, Sequence

\* With every device on the bus the numbers of the targets are those of the devices asked for.
LEMMA NumbersThere ==
  ASSUME ResetTypeOK, NumberInv, \A d \in Device : devId[d] # Gone
  PROVE  \A d \in call.aimed : devId[d] \in NumbersOf(TargetDevices)
BY TargetsAimed DEF NumbersOf

\* The numbers looked up are targets.
LEMMA NumbersAreTargets == NumbersOf(TargetDevices) \subseteq call.targets
BY DEF NumbersOf, TargetDevices

(* From loop to loop.                                                      *)
LEMMA SaidChoose == ASSUME ResetTypeOK, ArchInv, SaidInv, ChooseSequence PROVE SaidInv'
<1>1. PICK ks :
        /\ UNCHANGED <<arch, devId, chip, whole>> /\ step = "notifying"
        /\ step' \in {"resetting", "starting", "announcing"}
        /\ call' = [call EXCEPT !.known = Present, !.ids = ks]
        /\ step' = "starting" => ks = call.targets
        /\ step' = "resetting" => ks = NumbersOf(TargetDevices)
        /\ step' = "announcing" => ks = {}
  BY DEF ChooseSequence
<1>2. /\ call'.aimed = call.aimed /\ call'.targets = call.targets /\ call'.known = Present
      /\ call'.ids = ks /\ call'.started = call.started /\ ~call'.result
      /\ call'.names = call.names
  BY <1>1 DEF ResetTypeOK, Call, ArchInv
<1>3. ASSUME NumberInv, PhaseInv PROVE PhaseInv'
  <2>1. /\ \A d \in Device : chip[d] = "working" /\ devId[d] # Gone
        /\ call.started \subseteq call.aimed /\ call.aimed \subseteq Device
    BY <1>1, <1>3, TargetsAimed DEF NumberInv, PhaseInv
  <2>2. Present = Device
    BY <2>1 DEF Present
  <2>3. ks \subseteq call.targets
    BY <1>1, NumbersAreTargets
  <2>4. step' # "announcing" => \A d \in call.aimed : devId[d] \in ks
    BY <1>1, <1>3, <2>1, NumbersThere DEF NumberInv
  <2> QED
    BY <1>1, <1>2, <2>1, <2>2, <2>3, <2>4 DEF PhaseInv
<1>4. SuccessIsReal' /\ ClockIsEvidence'
  BY <1>2 DEF SuccessIsReal, ClockIsEvidence
<1> QED
  BY <1>1, <1>2, <1>3, <1>4, SaidKeeps DEF UnderWay, Sequence

\* What the step from one phase of a sequence to the next changes.
LEMMA ThroughIs ==
  ASSUME NEW here, NEW next, NEW c, Through(here, next, c)
  PROVE  /\ UNCHANGED <<arch, devId, chip, whole>> /\ step = here /\ step' = next
         /\ call.todo = {} /\ call.ids = {} /\ call' = c
BY DEF Through

\* The local variables with which the ioctls of a list begin.
LEMMA ToTargetsIs ==
  ASSUME ResetTypeOK
  PROVE  /\ ToTargets.ids = NumbersOf(TargetDevices) /\ ToTargets.todo = call.todo
         /\ ToTargets.aimed = call.aimed /\ ToTargets.targets = call.targets
         /\ ToTargets.known = call.known /\ ToTargets.started = call.started
         /\ ToTargets.allSet = call.allSet /\ ToTargets.prompt = call.prompt
         /\ ToTargets.names = call.names
BY DEF ToTargets, ResetTypeOK, Call

\* The steps between two phases keep what is known about the devices.
LEMMA SaidThrough ==
  ASSUME ResetTypeOK, ArchInv, SaidInv,
         \/ Settle \/ AllReappeared \/ StartPolling \/ PollsDone \/ AllStarted \/ AllTriggered
  PROVE  SaidInv'
<1>1. PICK here \in Sequence, next \in Sequence : \E c : Through(here, next, c)
  BY DEF Settle, AllReappeared, StartPolling, PollsDone, AllStarted, AllTriggered, Sequence
<1>2. /\ UNCHANGED <<arch, devId, chip, whole>>
      /\ step \in UnderWay /\ step' \in Sequence
  BY <1>1, ThroughIs DEF UnderWay
<1>a. /\ call'.aimed = call.aimed /\ call'.targets = call.targets /\ call'.names = call.names
      /\ call'.started = call.started /\ call'.allSet = call.allSet /\ call'.known = call.known
      /\ Settle \/ call'.prompt = call.prompt
  <2>1. CASE AllReappeared \/ PollsDone \/ AllTriggered
    <3>1. call' = ToTargets
      BY <2>1 DEF AllReappeared, PollsDone, AllTriggered, Through
    <3> QED
      BY <3>1, ToTargetsIs
  <2>2. CASE StartPolling
    BY <2>2 DEF StartPolling, Through
  <2>3. CASE AllStarted
    <3>1. PICK f : call' = [call EXCEPT !.todo = call.started, !.old = f]
      BY <2>3 DEF AllStarted, Through
    <3> QED
      BY <3>1 DEF ResetTypeOK, Call
  <2>4. CASE Settle
    <3>1. PICK b : call' = [call EXCEPT !.todo = call.known, !.prompt = b]
      BY <2>4 DEF Settle, Through
    <3> QED
      BY <2>4, <3>1 DEF ResetTypeOK, Call
  <2> QED
    BY <2>1, <2>2, <2>3, <2>4
<1>3. SuccessIsReal' /\ ClockIsEvidence'
  BY <1>2 DEF SuccessIsReal, ClockIsEvidence, Sequence
<1>4. ASSUME NumberInv, PhaseInv PROVE PhaseInv'
  <2>0. TargetDevices \subseteq call.aimed /\ call.aimed \subseteq Device
    BY <1>4, TargetsAimed
  <2>1. CASE Settle
    <3>1. /\ step = "resetting" /\ step' = "awaiting" /\ call.ids = {} /\ arch = "agnostic"
          /\ call' = [call EXCEPT !.todo = call.known,
                                  !.prompt = \A d \in Present : chip[d] # "resetting"]
      BY <2>1 DEF Settle, Through
    <3>2. /\ call'.todo = call.known /\ call'.ids = {}
          /\ call'.prompt => \A d \in Present : chip[d] # "resetting"
      BY <3>1 DEF ResetTypeOK, Call
    <3>3. \A d \in call.aimed : chip[d] \in {"resetting", "reset"}
      BY <1>4, <3>1 DEF PhaseInv
    <3>4. call.known = Device
      BY <1>4, <3>1 DEF PhaseInv
    <3> QED
      BY <1>2, <1>4, <1>a, <2>0, <3>1, <3>2, <3>3, <3>4 DEF PhaseInv, Present
  <2>2. CASE AllReappeared
    <3>1. /\ step = "awaiting" /\ step' = "restoring" /\ call.todo = {}
          /\ call' = ToTargets /\ arch = "agnostic"
      BY <2>2 DEF AllReappeared, Through, ArchInv
    <3>2. call'.ids = NumbersOf(TargetDevices) /\ call'.ids \subseteq call.targets
      BY <3>1, ToTargetsIs, NumbersAreTargets
    <3>3. ASSUME call.prompt
          PROVE  \A d \in call.aimed : chip[d] = "reset" /\ devId[d] \in call'.ids
      <4>1. \A d \in Device : devId[d] # Gone
        BY <1>4, <3>1, <3>3 DEF PhaseInv
      <4>2. \A d \in call.aimed : devId[d] \in call'.ids
        BY <1>4, <3>2, <4>1, NumbersThere
      <4>3. \A d \in call.aimed : chip[d] = "reset"
        BY <1>4, <2>0, <3>1, <3>3, <4>1 DEF PhaseInv
      <4> QED
        BY <4>2, <4>3
    <3> QED
      BY <1>2, <1>4, <1>a, <2>2, <3>1, <3>2, <3>3 DEF PhaseInv, Told, Settle, Through
  <2>3. CASE StartPolling
    BY <1>4, <2>3 DEF StartPolling, PhaseInv, Through
  <2>4. CASE PollsDone
    <3>1. /\ step = "polling" /\ step' = "restoring" /\ arch = "blackhole"
          /\ call' = ToTargets /\ (call.allSet => BitsSet)
      BY <2>4 DEF PollsDone, ArchInv, Through
    <3>2. \A d \in Device : devId[d] # Gone
      BY <1>4, <3>1 DEF NumberInv
    <3>3. TargetDevices = call.aimed /\ \A d \in call.aimed : devId[d] \in NumbersOf(TargetDevices)
      BY <1>4, <3>2, TargetsAimed, NumbersThere
    <3>4. call'.ids = NumbersOf(TargetDevices) /\ call'.ids \subseteq call.targets
      BY <3>1, ToTargetsIs, NumbersAreTargets
    <3> QED
      BY <1>2, <1>4, <1>a, <3>1, <3>3, <3>4 DEF PhaseInv, BitsSet, Told
  <2>5. CASE AllStarted
    <3>1. PICK f : /\ step = "starting" /\ step' = "triggering" /\ call.ids = {}
                   /\ call' = [call EXCEPT !.todo = call.started, !.old = f]
      BY <2>5 DEF AllStarted, Through
    <3>2. call'.todo = call.started /\ call'.ids = {}
      BY <3>1 DEF ResetTypeOK, Call
    <3>3. call.aimed = call.started
      BY <1>4, <3>1 DEF PhaseInv
    <3> QED
      BY <1>2, <1>4, <1>a, <3>1, <3>2, <3>3 DEF PhaseInv
  <2>6. CASE AllTriggered
    <3>1. /\ step = "triggering" /\ step' = "restoring" /\ arch = "wormhole"
          /\ call' = ToTargets
      BY <2>6 DEF AllTriggered, ArchInv, Through
    <3>2. call'.ids \subseteq call.targets
      BY <3>1, ToTargetsIs, NumbersAreTargets
    <3> QED
      BY <1>2, <1>4, <1>a, <3>1, <3>2 DEF PhaseInv, Told
  <2> QED
    BY <2>1, <2>2, <2>3, <2>4, <2>5, <2>6
<1> QED
  BY <1>2, <1>3, <1>4, <1>a, SaidKeeps

\* A clock that ran and did not wrap shows a larger value.
LEMMA ClockRan ==
  ASSUME NEW o \in Clock, NEW t \in Clock, o + t < Wrap, t # 0
  PROVE  o < (0 + o + t) % Wrap /\ o < (o + t) % Wrap
<1>1. Wrap \in Nat /\ o \in Nat /\ t \in Nat
  BY ResetAssumption DEF Clock
<1>2. \A x \in Nat : x < Wrap => x % Wrap = x
  BY <1>1
<1> QED
  BY <1>1, <1>2

(* Ends of loops that are not followed by another, and polls.              *)
LEMMA SaidEnd ==
  ASSUME ResetTypeOK, ArchInv, SaidInv, NotReappeared \/ PollAgain \/ SequenceDone
  PROVE  SaidInv'
<1>1. CASE NotReappeared
  <2>1. /\ UNCHANGED <<arch, devId, chip, whole>> /\ step = "awaiting" /\ step' = "announcing"
        /\ call'.aimed = call.aimed /\ call'.targets = call.targets /\ call'.todo = {}
        /\ call'.started = call.started /\ ~call'.result /\ call'.ids = call.ids
        /\ call'.names = call.names
    BY <1>1 DEF NotReappeared, ResetTypeOK, Call, ArchInv, Sequence
  <2>2. SuccessIsReal' /\ ClockIsEvidence'
    BY <2>1 DEF SuccessIsReal, ClockIsEvidence
  <2>3. PhaseInv => PhaseInv'
    BY <2>1 DEF PhaseInv
  <2> QED
    BY <2>1, <2>2, <2>3, SaidKeeps DEF UnderWay, Sequence
<1>2. CASE PollAgain
  <2>1. /\ UNCHANGED <<arch, devId, chip, whole, step>> /\ step = "polling"
        /\ call'.aimed = call.aimed /\ call'.targets = call.targets /\ call'.todo = call.todo
        /\ call'.started = call.started /\ call'.ids = call.ids /\ call'.names = call.names
    BY <1>2 DEF PollAgain, ResetTypeOK, Call
  <2>2. SuccessIsReal' /\ ClockIsEvidence'
    BY <2>1 DEF SuccessIsReal, ClockIsEvidence
  <2>3. PhaseInv => PhaseInv'
    BY <2>1 DEF PhaseInv
  <2> QED
    BY <2>1, <2>2, <2>3, SaidKeeps DEF UnderWay, Sequence
<1>3. CASE SequenceDone
  <2>0. PICK f \in [Device -> Clock], b \in BOOLEAN :
          call' = [call EXCEPT !.ticks = f, !.result = b] /\ b = Outcome(f)
    <3>1. PICK f \in [Device -> Clock] : call' = [call EXCEPT !.ticks = f, !.result = Outcome(f)]
      BY <1>3 DEF SequenceDone
    <3>2. Outcome(f) \in BOOLEAN
      BY DEF Outcome
    <3> QED
      BY <3>1, <3>2
  <2>1. /\ UNCHANGED <<arch, devId, chip, whole>> /\ step = "restoring" /\ step' = "announcing"
        /\ call.ids = {}
    BY <1>3 DEF SequenceDone
  <2>a. /\ call'.result = b /\ call'.ticks = f /\ call'.old = call.old
        /\ call'.aimed = call.aimed /\ call'.targets = call.targets /\ call'.todo = call.todo
        /\ call'.started = call.started /\ call'.prompt = call.prompt
        /\ call'.ids = call.ids /\ call'.names = call.names
    BY <2>0 DEF ResetTypeOK, Call
  <2>2. PhaseInv => PhaseInv'
    BY <2>1, <2>a DEF PhaseInv
  <2>3. SuccessIsReal'
    <3> SUFFICES ASSUME whole, b, arch # "wormhole", call.prompt
                 PROVE  \A d \in call.aimed : chip[d] = "restored"
      BY <2>1, <2>a DEF SuccessIsReal
    <3>1. PhaseInv
      BY <2>1 DEF SaidInv, WholeInv, UnderWay, Sequence
    <3>2. Told
      BY <2>0, ResetAssumption DEF Told, Outcome, ResetTypeOK
    <3> QED
      BY <2>1, <3>1, <3>2 DEF PhaseInv
  <2>4. ClockIsEvidence'
    <3> SUFFICES ASSUME whole, b, arch = "wormhole", NEW d \in call.aimed, ~Finished(d),
                        f[d] # 0, call.old[d] + f[d] < Wrap
                 PROVE  FALSE
      <4>1. \A d \in call.aimed : call.old[d] \in Clock /\ f[d] \in Clock
        BY DEF ResetTypeOK, Call
      <4>2. \A d \in call.aimed : ~(call.old[d] + f[d] >= Wrap) => call.old[d] + f[d] < Wrap
        BY <4>1, ResetAssumption DEF Clock
      <4>3. \A d \in Device : Finished(d)' <=> Finished(d)
        BY <2>1 DEF Finished
      <4>4. call.aimed \subseteq Device
        BY DEF ResetTypeOK, Call
      <4> QED
        BY <2>1, <2>a, <4>1, <4>2, <4>3, <4>4 DEF ClockIsEvidence
    <3>1. PhaseInv
      BY <2>1 DEF SaidInv, WholeInv, UnderWay, Sequence
    <3>2. d \in call.started /\ d \in Device
      BY <2>1, <3>1 DEF PhaseInv, ResetTypeOK, Call
    <3>3. RefclkReset(d, f[d])
      BY <2>0, <3>2 DEF Outcome
    <3>4. ~(call.old[d] < (call.old[d] + f[d]) % Wrap)
      BY <3>3 DEF RefclkReset, RefclkNow
    <3>5. call.old[d] \in Clock /\ f[d] \in Clock
      BY <3>2 DEF ResetTypeOK, Call
    <3> QED
      BY <3>4, <3>5, ClockRan
  <2> QED
    BY <2>1, <2>2, <2>3, <2>4, <2>a, SaidKeeps DEF UnderWay, Sequence
<1> QED
  BY <1>1, <1>2, <1>3

(* One device of a loop.                                                   *)
LEMMA SaidLook ==
  ASSUME ResetTypeOK, Numbered, ArchInv, SaidInv, NEW d \in Device, Reappeared(d) \/ ArcStarts(d)
  PROVE  SaidInv'
<1>1. CASE Reappeared(d)
  <2>1. /\ UNCHANGED <<arch, devId, chip, whole, step>> /\ step = "awaiting" /\ devId[d] # Gone
        /\ call'.aimed = call.aimed /\ call'.targets = call.targets /\ call'.ids = call.ids
        /\ call'.todo = call.todo \ {d} /\ call'.started = call.started
        /\ call'.names = call.names /\ call'.prompt = call.prompt
    BY <1>1 DEF Reappeared, Handle, Without, ResetTypeOK, Call
  <2>2. SuccessIsReal' /\ ClockIsEvidence'
    BY <2>1 DEF SuccessIsReal, ClockIsEvidence
  <2>3. PhaseInv => PhaseInv'
    BY <2>1 DEF PhaseInv
  <2> QED
    BY <2>1, <2>2, <2>3, SaidKeeps
<1>2. CASE ArcStarts(d)
  <2>1. /\ UNCHANGED <<arch, devId, chip, whole, step>> /\ step = "starting"
        /\ d \in Present /\ devId[d] \in call.ids
        /\ call'.aimed = call.aimed /\ call'.targets = call.targets
        /\ call'.ids = call.ids \ {devId[d]} /\ call'.started = call.started \cup {d}
        /\ call'.names = call.names
    BY <1>2 DEF ArcStarts, HandleNumber, WithoutNumber, ResetTypeOK, Call
  <2>2. SuccessIsReal' /\ ClockIsEvidence'
    BY <2>1 DEF SuccessIsReal, ClockIsEvidence
  <2>3. ASSUME NumberInv, PhaseInv PROVE PhaseInv'
    <3>1. d \in call.aimed /\ call.ids \subseteq call.targets
      BY <2>1, <2>3 DEF NumberInv, PhaseInv
    <3>2. \A e \in call.aimed : devId[e] # Gone
      BY <2>1, <2>3 DEF NumberInv, ArchInv, ResetTypeOK, Call
    <3>3. \A e \in call.aimed : e # d => devId[e] # devId[d]
      BY <2>1, <3>1, <3>2 DEF Numbered, Present, ResetTypeOK, Call
    <3>4. \A e \in call.aimed : e \in call'.started \/ devId'[e] \in call'.ids
      BY <2>1, <2>3, <3>1, <3>3 DEF PhaseInv
    <3> QED
      BY <2>1, <2>3, <3>1, <3>4 DEF PhaseInv
  <2> QED
    BY <2>1, <2>2, <2>3, SaidKeeps
<1> QED
  BY <1>1, <1>2

\* The ioctls and triggers on a device keep what is known about the devices.
LEMMA SaidTouch ==
  ASSUME ResetTypeOK, Numbered, ArchInv, SaidInv, NEW d \in Device,
         ResetIoctl(d) \/ RestoreIoctl(d) \/ TriggerReset(d)
  PROVE  SaidInv'
<1>1. PICK x \in Chips, ks \in SUBSET call.ids, ds \in SUBSET call.todo :
        /\ UNCHANGED <<arch, devId, whole, step>>
        /\ chip' = [chip EXCEPT ![d] = x] /\ call' = [call EXCEPT !.ids = ks, !.todo = ds]
        /\ step \in {"resetting", "restoring", "triggering"}
        /\ step = "restoring" =>
             x = IF chip[d] \in {"reset", "restored", "late"} THEN "restored" ELSE "early"
        /\ step # "restoring" => x = "resetting"
        /\ step = "triggering" => d \in call.todo
        /\ step # "triggering" => d \in Present /\ devId[d] \in call.ids
        /\ step # "triggering" => ks = call.ids \ {devId[d]}
  <2>1. CASE TriggerReset(d)
    <3>1. call' = [call EXCEPT !.ids = call.ids, !.todo = call.todo \ {d}]
      BY <2>1 DEF TriggerReset, Handle, Without, ResetTypeOK, Call
    <3> QED
      BY <2>1, <3>1 DEF TriggerReset, Handle, Chips
  <2>2. CASE ResetIoctl(d) \/ RestoreIoctl(d)
    <3>1. call' = [call EXCEPT !.ids = call.ids \ {devId[d]}, !.todo = call.todo]
      BY <2>2 DEF ResetIoctl, RestoreIoctl, HandleNumber, WithoutNumber, ResetTypeOK, Call
    <3> QED
      BY <2>2, <3>1 DEF ResetIoctl, RestoreIoctl, HandleNumber, Chips
  <2> QED
    BY <2>1, <2>2
<1>2. /\ call'.aimed = call.aimed /\ call'.targets = call.targets
      /\ call'.ids = ks /\ call'.todo = ds /\ call'.started = call.started
      /\ call'.known = call.known /\ call'.allSet = call.allSet /\ call'.names = call.names
      /\ call'.prompt = call.prompt
  BY <1>1 DEF ResetTypeOK, Call
<1>3. \A e \in Device : chip'[e] = IF e = d THEN x ELSE chip[e]
  BY <1>1 DEF ResetTypeOK
<1>a. UNCHANGED <<arch, devId, whole, step>>
  BY <1>1
<1>b. /\ call'.aimed = call.aimed /\ call'.targets = call.targets /\ call'.known = call.known
      /\ call'.ids = ks /\ call'.todo = ds /\ call'.started = call.started
  BY <1>2
<1>4. SuccessIsReal' /\ ClockIsEvidence'
  BY <1>1 DEF SuccessIsReal, ClockIsEvidence
<1>5. ASSUME whole PROVE NumberInv' /\ PhaseInv' /\ d \in call.aimed
                         /\ (call.names # {} => d \in call.names)
  <2>1. NumberInv /\ PhaseInv
    BY <1>1, <1>5 DEF SaidInv, WholeInv, UnderWay, Sequence
  <2>2. d \in call.aimed /\ call.aimed \subseteq Device
    BY <1>1, <2>1, TargetsAimed DEF PhaseInv, NumberInv
  <2>3. devId[d] # Gone
    BY <1>1, <2>1, <2>2 DEF NumberInv, ArchInv, Present
  <2>a. \A e \in Device : e # d => devId[e] # devId[d]
    BY <2>3 DEF Numbered, Present
  <2>4. NumberInv'
    BY <1>1, <1>2, <1>3, <2>1, <2>2, <2>3 DEF NumberInv
  <2>5. ks \subseteq call.targets
    BY <2>1 DEF PhaseInv
  <2>6. ASSUME step = "resetting" PROVE PhaseInv'
    <3>1. /\ call.known = Device
          /\ \A e \in call.aimed : chip[e] \in {"working", "resetting", "reset"}
          /\ \A e \in call.aimed : chip[e] = "working" => devId[e] \in call.ids
          /\ call.started \subseteq call.aimed
      BY <2>1, <2>6 DEF PhaseInv
    <3>2. \A e \in call.aimed : chip'[e] = "working" => devId[e] \in ks
      BY <1>1, <1>3, <2>2, <2>6, <2>a, <3>1
    <3>3. \A e \in call.aimed : chip'[e] \in {"working", "resetting", "reset"}
      BY <1>1, <1>3, <2>2, <2>6, <3>1
    <3> QED
      BY <1>a, <1>b, <2>5, <2>6, <3>1, <3>2, <3>3 DEF PhaseInv
  <2>7. ASSUME step = "restoring" PROVE PhaseInv'
    <3>1. call.started \subseteq call.aimed /\ (arch = "wormhole" => call.aimed = call.started)
      BY <2>1, <2>7 DEF PhaseInv
    <3>2. ASSUME Told PROVE /\ \A e \in call.aimed : chip'[e] \in {"reset", "restored"}
                            /\ \A e \in call.aimed : chip'[e] = "reset" => devId[e] \in ks
      <4>1. /\ \A e \in call.aimed : chip[e] \in {"reset", "restored"}
            /\ \A e \in call.aimed : chip[e] = "reset" => devId[e] \in call.ids
        BY <2>1, <2>7, <3>2 DEF PhaseInv
      <4>2. x = "restored"
        BY <1>1, <2>2, <2>7, <4>1
      <4> QED
        BY <1>1, <1>3, <2>2, <2>7, <2>a, <4>1, <4>2
    <3>3. Told' => Told
      BY <1>1, <1>2 DEF Told
    <3> QED
      BY <1>a, <1>b, <2>5, <2>7, <3>1, <3>2, <3>3 DEF PhaseInv
  <2>8. ASSUME step = "triggering" PROVE PhaseInv'
    <3>1. ds \subseteq call.started /\ call.started \subseteq call.aimed
          /\ (arch = "wormhole" => call.aimed = call.started)
      BY <2>1, <2>8 DEF PhaseInv
    <3> QED
      BY <1>a, <1>b, <2>5, <2>8, <3>1 DEF PhaseInv
  <2> QED
    BY <1>1, <2>1, <2>2, <2>4, <2>6, <2>7, <2>8 DEF NumberInv
<1>6. OthersUntouched'
  BY <1>1, <1>2, <1>3, <1>5 DEF SaidInv, OthersUntouched
<1> QED
  BY <1>1, <1>4, <1>5, <1>6 DEF SaidInv, WholeInv

(* The devices: one that comes back finds a target number, the others are  *)
(* taken by devices the call leaves alone.                                 *)
LEMMA SaidHardware ==
  ASSUME TypeOK, ResetTypeOK, ArchInv, SaidInv, Hardware
  PROVE  SaidInv'
<1>1. PICK d \in Device : ResetCompletes(d) \/ LeavesBus(d) \/ Disappears(d) \/ ComesBack(d)
  BY DEF Hardware
<1>2. UNCHANGED <<arch, step, call>>
  BY <1>1 DEF ResetCompletes, LeavesBus, Disappears, ComesBack
<1>3. call.aimed \subseteq Device /\ call.started \subseteq Device
  BY DEF ResetTypeOK, Call
<1>4. CASE Disappears(d)
  BY <1>4 DEF Disappears, SaidInv, WholeInv, SuccessIsReal, ClockIsEvidence, OthersUntouched
<1>5. CASE ~Disappears(d)
  <2>1. /\ UNCHANGED whole
        /\ \A e \in Device : e # d => chip'[e] = chip[e] /\ devId'[e] = devId[e]
        /\ \/ chip'[d] = chip[d]
           \/ chip[d] = "resetting" /\ chip'[d] = "reset"
           \/ chip[d] = "early" /\ chip'[d] = "late"
    BY <1>1, <1>5 DEF ResetCompletes, LeavesBus, ComesBack, Completed, ResetTypeOK
  <2>2. SuccessIsReal'
    BY <1>2, <1>3, <2>1 DEF SaidInv, SuccessIsReal
  <2>a. ClockIsEvidence'
    <3>1. \A e \in Device : Finished(e) => Finished(e)'
      BY <2>1 DEF Finished
    <3> QED
      BY <1>2, <1>3, <2>1, <3>1 DEF SaidInv, ClockIsEvidence
  <2>3. OthersUntouched'
    BY <1>2, <2>1 DEF SaidInv, OthersUntouched
  <2>4. ASSUME whole, step \in UnderWay PROVE NumberInv' /\ PhaseInv'
    <3>1. NumberInv /\ PhaseInv /\ OthersUntouched
      BY <2>4 DEF SaidInv, WholeInv
    <3>2. d \in call.aimed /\ chip[d] \in {"resetting", "early"}
      <4>1. chip[d] \in {"resetting", "early"}
        BY <1>1, <1>5, <3>1 DEF ResetCompletes, LeavesBus, ComesBack, NumberInv
      <4> QED
        BY <2>4, <3>1, <4>1 DEF OthersUntouched
    <3>a. \A e \in Device \ call.aimed : devId'[e] = devId[e]
      BY <2>1, <3>2
    <3>b. \A k \in Id \ call.targets : \E e \in Device \ call.aimed : devId'[e] = k
      BY <3>1, <3>a DEF NumberInv
    <3>c. \A e \in Device \ call.aimed : devId'[e] # Gone /\ devId'[e] \notin call.targets
      BY <3>1, <3>a DEF NumberInv
    <3>d. call.names # {} => call.aimed \subseteq call.names
      BY <3>1 DEF NumberInv
    <3>3. step # "notifying" /\ ~(step = "restoring" /\ Told)
      BY <3>1, <3>2 DEF PhaseInv
    <3>4. /\ chip'[d] \in {"resetting", "early", "reset", "late"}
          /\ chip'[d] = "late" => chip[d] = "early"
          /\ chip[d] = "resetting" => chip'[d] \in {"resetting", "reset"}
      BY <2>1, <3>2
    <3>e. ASSUME (step = "awaiting" /\ call.prompt) =>
                   /\ chip'[d] = "resetting" => devId'[d] = Gone
                   /\ devId'[d] = Gone => d \in call.todo,
                 arch = "wormhole" => UNCHANGED devId
          PROVE  PhaseInv'
      <4>1. Told' <=> Told
        BY <1>2 DEF Told
      <4>2. step = "resetting" => /\ \A e \in call.aimed : chip'[e] \in {"working", "resetting", "reset"}
                                 /\ \A e \in call.aimed : chip'[e] = "working" => devId'[e] \in call.ids
        BY <1>3, <2>1, <3>1, <3>2, <3>4 DEF PhaseInv
      <4>3. step = "awaiting" /\ call.prompt =>
              /\ \A e \in call.aimed : chip'[e] \in {"resetting", "reset"}
              /\ \A e \in Device : chip'[e] = "resetting" => devId'[e] = Gone
              /\ \A e \in Device : devId'[e] = Gone => e \in call.todo
        BY <1>3, <2>1, <3>1, <3>2, <3>4, <3>e DEF PhaseInv
      <4>4. step = "starting" => \A e \in call.aimed : e \in call.started \/ devId'[e] \in call.ids
        BY <3>1, <3>e DEF PhaseInv, ArchInv
      <4> QED
        BY <1>2, <3>1, <3>3, <4>1, <4>2, <4>3, <4>4 DEF PhaseInv
    <3>5. CASE ResetCompletes(d)
      <4>1. UNCHANGED devId /\ chip'[d] \in {"reset", "late"} /\ devId[d] # Gone
        BY <3>5 DEF ResetCompletes, ResetTypeOK, Completed
      <4>3. NumberInv'
        BY <1>2, <2>1, <3>1, <4>1 DEF NumberInv
      <4>4. PhaseInv'
        BY <3>e, <4>1
      <4> QED
        BY <4>3, <4>4
    <3>6. CASE LeavesBus(d)
      <4>1. UNCHANGED chip /\ devId'[d] = Gone /\ devId[d] # Gone /\ arch = "agnostic"
        BY <3>6 DEF LeavesBus, ResetTypeOK
      <4>2. ~(step = "awaiting" /\ call.prompt)
        BY <3>1, <3>2, <4>1 DEF PhaseInv
      <4>3. NumberInv'
        <5>1. \A e \in call.aimed : devId'[e] # Gone => devId'[e] \in call.targets
          BY <1>3, <2>1, <3>1, <4>1 DEF NumberInv
        <5>2. \A e \in Device : devId'[e] = Gone => chip'[e] \in {"resetting", "early"} /\ arch' = "agnostic"
          BY <1>2, <2>1, <3>1, <3>2, <4>1 DEF NumberInv
        <5> QED
          BY <1>2, <3>b, <3>c, <3>d, <5>1, <5>2 DEF NumberInv
      <4>4. PhaseInv'
        BY <3>e, <4>1, <4>2
      <4> QED
        BY <4>3, <4>4
    <3>7. CASE ComesBack(d)
      <4>1. PICK m \in Id : m = Min(FreeIds) /\ m # Gone /\ \A e \in Present : devId[e] # m
        BY <3>7, FreeNumber DEF ComesBack
      <4>2. devId'[d] = m /\ devId[d] = Gone /\ chip'[d] \in {"reset", "late"} /\ arch = "agnostic"
        BY <3>1, <3>2, <3>7, <4>1 DEF ComesBack, ResetTypeOK, NumberInv, Completed
      <4>3. m \in call.targets
        BY <3>1, <4>1 DEF NumberInv, Present
      <4>4. NumberInv'
        <5>1. \A e \in call.aimed : devId'[e] # Gone => devId'[e] \in call.targets
          BY <1>3, <2>1, <3>1, <4>2, <4>3 DEF NumberInv
        <5>2. \A e \in Device : devId'[e] = Gone => chip'[e] \in {"resetting", "early"} /\ arch' = "agnostic"
          BY <1>2, <2>1, <3>1, <4>1, <4>2 DEF NumberInv
        <5> QED
          BY <1>2, <3>b, <3>c, <3>d, <5>1, <5>2 DEF NumberInv
      <4>5. PhaseInv'
        BY <3>e, <4>1, <4>2
      <4> QED
        BY <4>4, <4>5
    <3> QED
      BY <1>1, <1>5, <3>5, <3>6, <3>7
  <2> QED
    BY <1>2, <2>1, <2>2, <2>3, <2>4, <2>a DEF SaidInv, WholeInv
<1> QED
  BY <1>4, <1>5

-----------------------------------------------------------------------------
(* The theorems                                                            *)

LEMMA ResetInit == Init => ResetInv
<1> SUFFICES ASSUME Init PROVE ResetInv
  OBVIOUS
<1>1. CommTypeOK
  <2>1. <<>> \in Seq(Connection) /\ <<>> \in Seq(Message)
    BY EmptySeq
  <2> QED
    BY <2>1 DEF Init, CommInit, CommTypeOK
<1>2. ResetTypeOK
  BY NoCallIs DEF Init, ResetTypeOK, Steps
<1>3. Numbered
  BY DEF Init, Numbered, Present
<1>4. NoteInv /\ ArchInv /\ WholeInv /\ SuccessIsReal /\ ClockIsEvidence /\ OthersUntouched
  BY DEF Init, CommInit, NoteInv, ArchInv, WholeInv, SuccessIsReal, ClockIsEvidence, OthersUntouched,
     UnderWay, Sequence, Fresh, NoCall
<1> QED
  BY <1>1, <1>2, <1>3, <1>4, TypeParts DEF ResetInv

\* Every step of the resetting process keeps what is known about the devices.
LEMMA ResetterSaid ==
  ASSUME ResetTypeOK, Numbered, ArchInv, SaidInv, Resetter
  PROVE  SaidInv'
<1>1. CASE Begin
  BY <1>1, SaidBegin
<1>2. CASE NoDevices \/ Throws \/ ResetterDies \/ (Return /\ Over)
  BY <1>2, SaidOver DEF NoDevices, Throws, ResetterDies
<1>3. CASE AskAny \/ Announce \/ (Return /\ ~Over)
  BY <1>3, SaidAround
<1>4. CASE ChooseSequence
  BY <1>4, SaidChoose
<1>5. CASE \/ Settle \/ AllReappeared \/ StartPolling \/ PollsDone \/ AllStarted \/ AllTriggered
  BY <1>5, SaidThrough
<1>6. CASE NotReappeared \/ PollAgain \/ SequenceDone
  BY <1>6, SaidEnd
<1>7. ASSUME NEW d \in Device, \/ ResetIoctl(d) \/ RestoreIoctl(d) \/ Reappeared(d)
                               \/ ArcStarts(d) \/ TriggerReset(d)
      PROVE  SaidInv'
  BY <1>7, SaidLook, SaidTouch
<1> QED
  BY <1>1, <1>2, <1>3, <1>4, <1>5, <1>6, <1>7 DEF Resetter

(* What a step of the resetting process does to the notifications.         *)
LEMMA ResetterComm ==
  ASSUME TypeOK, NoteInv, Resetter
  PROVE  /\ CommTypeOK'
         /\ \/ ResetterDies
            \/ /\ UNCHANGED <<monitor, starts, path, conns, heard>> /\ Frontier <= Frontier'
               /\ note = "none" \/ UNCHANGED <<note, toVisit>>
<1>1. CommTypeOK /\ resets \in Nat /\ note \in {"none", "pre", "post"}
  BY TypeParts DEF CommTypeOK
<1>2. CASE ResetterDies
  BY <1>1, <1>2, DiesTypes
<1>3. CASE Begin \/ Announce
  <2>1. /\ UNCHANGED <<monitorVars, path, conns, heard>> /\ note = "none" /\ toVisit' = Client
        /\ \/ step = "asking" /\ note' = "pre" /\ resets' = resets + 1 /\ resets < MaxResets
           \/ step = "announcing" /\ note' = "post" /\ resets' = resets
    BY <1>3 DEF Begin, Announce, BeginNote
  <2>2. CommTypeOK'
    BY <1>1, <2>1 DEF CommTypeOK, monitorVars
  <2>3. Frontier <= Frontier'
    BY <1>1, <2>1 DEF Frontier, Sequence
  <2> QED
    BY <2>1, <2>2, <2>3 DEF monitorVars
<1>4. ASSUME UNCHANGED commVars,
             \/ note = "none" /\ step' \notin Sequence \cup {"notifying", "announcing"}
             \/ step \in Sequence \cup {"notifying", "announcing"} \/ UNCHANGED step
      PROVE  /\ CommTypeOK' /\ UNCHANGED <<monitor, starts, path, conns, heard>>
             /\ Frontier <= Frontier' /\ UNCHANGED <<note, toVisit>>
  <2>1. CommTypeOK'
    BY <1>1, <1>4 DEF CommTypeOK, commVars, monitorVars, noteVars
  <2>2. Frontier <= Frontier'
    BY <1>1, <1>4 DEF Frontier, commVars, noteVars
  <2> QED
    BY <1>4, <2>1, <2>2 DEF commVars, monitorVars, noteVars
<1>5. CASE AskAny \/ NoDevices \/ Return
  <2>1. UNCHANGED commVars /\ note = "none" /\ step' \in {"idle", "asking"}
    BY <1>1, <1>5 DEF AskAny, Ask, NoDevices, Return, Over, NoteInv
  <2> QED
    BY <1>4, <2>1 DEF Sequence
<1>6. CASE Throws \/ ChooseSequence \/ NotReappeared \/ PollAgain \/ SequenceDone
  BY <1>4, <1>6 DEF Throws, ChooseSequence, NotReappeared, PollAgain, SequenceDone, Sequence
<1>7. CASE \/ Settle \/ AllReappeared \/ StartPolling \/ PollsDone \/ AllStarted \/ AllTriggered
  BY <1>4, <1>7 DEF Settle, AllReappeared, StartPolling, PollsDone, AllStarted, AllTriggered,
     Through, Sequence
<1>8. ASSUME NEW d \in Device, \/ ResetIoctl(d) \/ RestoreIoctl(d) \/ Reappeared(d)
                               \/ ArcStarts(d) \/ TriggerReset(d)
      PROVE  UNCHANGED <<commVars, step>>
  BY <1>8 DEF ResetIoctl, RestoreIoctl, Reappeared, ArcStarts, TriggerReset, Handle, HandleNumber
<1> QED
  BY <1>2, <1>3, <1>4, <1>5, <1>6, <1>7, <1>8 DEF Resetter

(* The step of the invariant.                                              *)
LEMMA ResetNext == ResetInv /\ [Next]_vars => ResetInv'
<1> SUFFICES ASSUME ResetInv, [Next]_vars PROVE ResetInv'
  OBVIOUS
<1>1. TypeOK /\ CommTypeOK /\ ResetTypeOK /\ Numbered /\ NoteInv /\ ArchInv /\ SaidInv
  BY TypeParts DEF ResetInv, SaidInv
<1>2. CASE Resetter
  <2>1. CommTypeOK' /\ ResetTypeOK'
    BY <1>1, <1>2, ResetterComm, ResetterTypes
  <2>2. NoteInv' /\ ArchInv' /\ Numbered' /\ SaidInv'
    BY <1>1, <1>2, ResetterControl, ResetterSaid
  <2> QED
    BY <2>1, <2>2 DEF ResetInv, SaidInv, TypeOK, ResetTypeOK, Chips, Steps
<1>3. CASE Hardware
  <2>1. CommTypeOK' /\ ResetTypeOK'
    <3>1. UNCHANGED commVars /\ ResetTypeOK'
      BY <1>1, <1>3, HardwareTypes
    <3> QED
      BY <1>1, <3>1 DEF CommTypeOK, commVars, monitorVars, noteVars
  <2>2. NoteInv' /\ ArchInv' /\ Numbered' /\ SaidInv'
    BY <1>1, <1>3, HardwareControl, SaidHardware
  <2> QED
    BY <2>1, <2>2 DEF ResetInv, SaidInv, TypeOK, ResetTypeOK, Chips, Steps
<1>4. ASSUME UNCHANGED resetVars, CommTypeOK', NoteInv' PROVE ResetInv'
  BY <1>1, <1>4 DEF ResetInv, TypeOK, resetVars, Numbered, Present, ArchInv, SaidInv, WholeInv,
     NumberInv, PhaseInv, Told, SuccessIsReal, ClockIsEvidence, Finished, OthersUntouched
<1>5. CASE NotifierNext /\ UNCHANGED resetVars
  <2>1. CommTypeOK'
    BY <1>1, <1>5, NotifierTypes
  <2>2. UNCHANGED resets /\ (UNCHANGED note \/ note' = "none")
    BY <1>5 DEF NotifierNext, SendAll, Visit
  <2>3. NoteInv'
    BY <1>1, <1>5, <2>2 DEF NoteInv, resetVars
  <2> QED
    BY <1>4, <1>5, <2>1, <2>3
<1>6. ASSUME NEW c \in Client, ClientNext(c), UNCHANGED resetVars PROVE ResetInv'
  <2>1. CommTypeOK' /\ UNCHANGED noteVars
    BY <1>1, <1>6, ClientTypes, ClientFrame
  <2>2. NoteInv'
    BY <1>1, <1>6, <2>1 DEF NoteInv, resetVars, noteVars
  <2> QED
    BY <1>4, <1>6, <2>1, <2>2
<1>7. CASE UNCHANGED vars
  <2>1. CommTypeOK' /\ NoteInv' /\ UNCHANGED resetVars
    BY <1>1, <1>7 DEF vars, CommTypeOK, NoteInv, commVars, monitorVars, noteVars, resetVars
  <2> QED
    BY <1>4, <2>1
<1> QED
  BY <1>2, <1>3, <1>5, <1>6, <1>7 DEF Next

(* warm_reset, for any set of devices: when it reports success, every      *)
(* device it set out to reset has finished its reset and was restored, and *)
(* it touches no other device, although devices leave the bus and come     *)
(* back under other numbers while it runs.                                 *)
THEOREM ResetsSound == Spec => []ResetsWhatItSays
<1>1. ResetInv => ResetsWhatItSays
  BY DEF ResetInv, ResetsWhatItSays
<1> QED
  BY <1>1, ResetInit, ResetNext, PTL DEF Spec

\* Before the first reset every line is empty.
LEMMA LineInit == Init => LineInv
<1> SUFFICES ASSUME Init, NEW c \in Client PROVE ClientAt(c)
  BY DEF LineInv
<1>1. heard[c] = <<>> /\ \A g \in Gen : conns[c][g] = <<>> /\ monitor[c][g] = "none"
  BY DEF Init, CommInit
<1>2. <<>> \in Seq(Connection) /\ Len(<<>>) = 0
  BY EmptySeq
<1>3. Heard(heard[c], Frontier)
  BY <1>1, <1>2 DEF Heard
<1>4. ASSUME NEW g \in Gen PROVE LineAt(c, g) /\ ThreadAt(c, g)
  <2>1. LineAt(c, g)
    BY <1>1, <1>2, EmptyLine DEF LineAt
  <2>2. ThreadAt(c, g)
    BY <1>1 DEF ThreadAt, Alive, Listening
  <2> QED
    BY <2>1, <2>2
<1> QED
  BY <1>3, <1>4 DEF ClientAt

\* Every step keeps every line, when stopped monitors are restarted patiently.
LEMMA LineNext == ASSUME Patient PROVE ResetInv /\ LineInv /\ [Next]_vars => LineInv'
<1> SUFFICES ASSUME ResetInv, LineInv, [Next]_vars PROVE LineInv'
  OBVIOUS
<1>1. TypeOK /\ CommTypeOK /\ NoteInv
  BY TypeParts DEF ResetInv
<1>2. CASE Resetter
  BY <1>1, <1>2, ResetterComm, DiesLines, StayLines
<1>3. ASSUME UNCHANGED commVars, UNCHANGED step PROVE LineInv'
  BY <1>3 DEF LineInv, ClientAt, LineAt, ThreadAt, Frontier, commVars, monitorVars, noteVars
<1>4. CASE Hardware
  BY <1>3, <1>4 DEF Hardware, ResetCompletes, LeavesBus, Disappears, ComesBack
<1>5. CASE NotifierNext /\ UNCHANGED resetVars
  BY <1>1, <1>5, VisitLines, SendLines DEF NotifierNext, resetVars
<1>6. CASE (\E c \in Client : ClientNext(c)) /\ UNCHANGED resetVars
  BY <1>1, <1>6, ClientLines DEF resetVars
<1>7. CASE UNCHANGED vars
  BY <1>3, <1>7 DEF vars, resetVars
<1> QED
  BY <1>2, <1>4, <1>5, <1>6, <1>7 DEF Next

(* Monitor and Notifier, for any number of clients, resets and restarts of *)
(* monitors: a notifier finds every monitor that runs, and the callbacks   *)
(* get the notifications in the order of the resets, pre-reset first and   *)
(* none twice, when a client starts its monitor again only after the       *)
(* thread it stopped has ended.                                            *)
THEOREM NotificationsInOrder == ASSUME Patient PROVE Spec => []MonitorHearsInOrder
<1>1. ResetInv /\ LineInv => MonitorHearsInOrder
  <2> SUFFICES ASSUME ResetInv, LineInv, NEW c \in Client
               PROVE  /\ keep[c] /\ starts[c] > 0 /\ Working(c, starts[c]) => path[c] = starts[c]
                      /\ \A j \in DOMAIN heard[c] : \A i \in 1 .. j - 1 :
                           \/ heard[c][i][2] < heard[c][j][2]
                           \/ /\ heard[c][i][2] = heard[c][j][2]
                              /\ heard[c][i][1] = "pre" /\ heard[c][j][1] = "post"
    BY DEF MonitorHearsInOrder, Reachable, NotificationOrder
  <2>1. CommTypeOK /\ ClientAt(c)
    BY TypeParts DEF ResetInv, LineInv
  <2>2. starts[c] > 0 /\ Working(c, starts[c]) => path[c] = starts[c]
    <3>1. starts[c] \in 0 .. MaxStarts
      BY <2>1 DEF CommTypeOK
    <3>2. starts[c] > 0 => starts[c] \in Gen
      BY <3>1 DEF Gen
    <3> QED
      BY <2>1, <3>2 DEF ClientAt, ThreadAt, Working, At, Listening
  <2>3. heard[c] \in Seq(Message) /\ MaxResets \in Nat
    BY <2>1 DEF CommTypeOK
  <2>4. PICK n \in Nat : n = Len(heard[c]) /\ DOMAIN heard[c] = 1 .. n
    BY <2>3, LenProperties
  <2>5. ASSUME NEW j \in 1 .. n, NEW i \in 1 .. j - 1
        PROVE  \/ heard[c][i][2] < heard[c][j][2]
               \/ /\ heard[c][i][2] = heard[c][j][2]
                  /\ heard[c][i][1] = "pre" /\ heard[c][j][1] = "post"
    <3>1. i \in 1 .. n /\ i < j
      OBVIOUS
    <3>2. heard[c][i] \in Message /\ heard[c][j] \in Message
      BY <2>3, <2>4, <3>1, ElementOfSeq
    <3>3. Key(heard[c][i]) < Key(heard[c][j])
      BY <2>1, <2>4, <3>1 DEF ClientAt, Heard
    <3> QED
      BY <2>3, <3>2, <3>3, KeyIs
  <2> QED
    BY <2>2, <2>4, <2>5
<1> QED
  BY <1>1, ResetInit, ResetNext, LineInit, LineNext, PTL DEF Spec
=============================================================================
