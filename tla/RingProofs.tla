----------------------------- MODULE RingProofs -----------------------------
(***************************************************************************)
(* Facts about rings with double-wrapping pointers, for every Size: what   *)
(* the pointer arithmetic computes, that a push writes to a free slot, and *)
(* that push and pop are Append and Tail on the contents.                  *)
(***************************************************************************)
EXTENDS Ring, SequenceTheorems, TLAPS

USE SizeAssumption

(* x % k stays below k.                                                    *)
LEMMA ModRange == \A k \in Nat \ {0} : \A x \in Int : x % k \in 0 .. k - 1
BY SMT

(* x % k is x itself below k.                                              *)
LEMMA ModBelow == \A k \in Nat \ {0} : \A x \in 0 .. k - 1 : x % k = x
BY SMT

(* x % k for the values a slot computation meets.                          *)
ModCases(x, k) ==
  /\ x \in 0 .. k - 1 => x % k = x
  /\ x \in k .. 2 * k - 1 => x % k = x - k
  /\ x \in 2 * k .. 3 * k - 1 => x % k = x - 2 * k
  /\ x \in 3 * k .. 4 * k - 1 => x % k = x - 3 * k

\* The modulo by cases, for the range of numbers the pointers reach.
LEMMA ModSmall == ASSUME NEW k \in Nat \ {0}, NEW x \in Int PROVE ModCases(x, k)
BY SMT DEF ModCases

\* Adding twice the size to a pointer does not change its slot.
LEMMA ModTwice ==
  ASSUME NEW k \in Nat \ {0}, NEW x \in 0 .. 2 * k - 1 PROVE (x + 2 * k) % k = x % k
<1>1. ModCases(x, k) /\ ModCases(x + 2 * k, k)
  BY ModSmall
<1> QED
  BY <1>1 DEF ModCases

-----------------------------------------------------------------------------
(* A pointer advances by one and wraps at twice the size.                  *)
LEMMA AdvanceIs ==
  ASSUME NEW p \in Pointer
  PROVE  /\ Advance(p) \in Pointer
         /\ Advance(p) = IF p = 2 * Size - 1 THEN 0 ELSE p + 1
<1> DEFINE k == 2 * Size
<1>1. k \in Nat \ {0} /\ p \in 0 .. k - 1
  BY DEF Pointer
<1> HIDE DEF k
<1>2. (p + 1) % k = IF p = k - 1 THEN 0 ELSE p + 1
  BY <1>1, SMT
<1> QED
  BY <1>1, <1>2 DEF Pointer, Advance, k

(* The number of occupied entries, by cases.                               *)
LEMMA OccupiedIs ==
  ASSUME NEW w \in Pointer, NEW r \in Pointer
  PROVE  Occupied(w, r) = IF w >= r THEN w - r ELSE w - r + 2 * Size
<1> DEFINE k == 2 * Size
<1>1. k \in Nat \ {0} /\ w \in 0 .. k - 1 /\ r \in 0 .. k - 1
  BY DEF Pointer
<1> HIDE DEF k
<1>2. CASE w >= r
  <2>1. (w - r) % k = w - r
    BY <1>1, <1>2, SMT
  <2> QED
    BY <2>1, <1>2 DEF Occupied, k
<1>3. CASE w < r
  <2>1. (w - r) % k = w - r + k
    BY <1>1, <1>3, SMT
  <2> QED
    BY <2>1, <1>1, <1>3 DEF Occupied, k
<1> QED
  BY <1>1, <1>2, <1>3

(* A push adds an entry, a pop removes one.                                *)
LEMMA PushOccupies ==
  ASSUME NEW w \in Pointer, NEW r \in Pointer, Occupied(w, r) <= Size
  PROVE  /\ Occupied(w, r) \in 0 .. Size
         /\ Occupied(w, r) < Size => Occupied(Advance(w), r) = Occupied(w, r) + 1
         /\ w # r => Occupied(w, Advance(r)) = Occupied(w, r) - 1
         /\ w = r <=> Occupied(w, r) = 0
<1>1. /\ Advance(w) \in Pointer /\ Advance(w) = IF w = 2 * Size - 1 THEN 0 ELSE w + 1
      /\ Advance(r) \in Pointer /\ Advance(r) = IF r = 2 * Size - 1 THEN 0 ELSE r + 1
  BY AdvanceIs
<1>2. Occupied(w, r) = IF w >= r THEN w - r ELSE w - r + 2 * Size
  BY OccupiedIs
<1>3. Occupied(Advance(w), r)
        = IF Advance(w) >= r THEN Advance(w) - r ELSE Advance(w) - r + 2 * Size
  BY <1>1, OccupiedIs
<1>4. Occupied(w, Advance(r))
        = IF w >= Advance(r) THEN w - Advance(r) ELSE w - Advance(r) + 2 * Size
  BY <1>1, OccupiedIs
<1> QED
  BY <1>1, <1>2, <1>3, <1>4 DEF Pointer

(* While the ring is not full, the slot under the write pointer holds no   *)
(* unread entry: it is the one after the last.                             *)
LEMMA FreeSlot ==
  ASSUME NEW w \in Pointer, NEW r \in Pointer, Occupied(w, r) < Size
  PROVE  /\ (r + Occupied(w, r)) % Size = w % Size
         /\ w % Size \in Slot
         /\ \A i \in 1 .. Occupied(w, r) : (r + i - 1) % Size # w % Size
<1> DEFINE n == Occupied(w, r)
<1>1. n \in 0 .. Size - 1 /\ (w = r + n \/ w + 2 * Size = r + n)
  BY OccupiedIs DEF Pointer
<1> HIDE DEF n
<1>2. (r + n) % Size = w % Size
  <2>1. (w + 2 * Size) % Size = w % Size
    BY ModTwice DEF Pointer
  <2> QED
    BY <1>1, <2>1
<1>3. w % Size \in Slot
  BY ModRange DEF Pointer, Slot
<1>4. ASSUME NEW i \in 1 .. n PROVE (r + i - 1) % Size # w % Size
  <2>1. r + i - 1 < r + n /\ r + n < r + i - 1 + Size
    BY <1>1 DEF Pointer
  <2>2. ModCases(r + i - 1, Size) /\ ModCases(r + n, Size)
    BY <1>1, ModSmall DEF Pointer
  <2>3. r + i - 1 \in 0 .. 3 * Size - 1 /\ r + n \in 0 .. 3 * Size - 1
    BY <1>1, <2>1 DEF Pointer
  <2>4. (r + i - 1) % Size # (r + n) % Size
    BY <2>1, <2>2, <2>3 DEF ModCases
  <2> QED
    BY <1>2, <2>4
<1> QED
  BY <1>2, <1>3, <1>4 DEF n

-----------------------------------------------------------------------------
(* A function on 1 .. n is a sequence of length n.                         *)
LEMMA FunctionIsSeq ==
  ASSUME NEW E, NEW n \in Nat, NEW f \in [1 .. n -> E]
  PROVE  f \in Seq(E) /\ Len(f) = n
<1>1. f \in Seq(E)
  BY SeqDef
<1>2. Len(f) \in Nat /\ 1 .. Len(f) = 1 .. n
  BY <1>1, LenProperties
<1> QED
  BY <1>1, <1>2

(* Append and Tail in terms of such functions.                             *)
LEMMA FunctionAppend ==
  ASSUME NEW E, NEW n \in Nat, NEW f \in [1 .. n -> E], NEW g \in [1 .. n + 1 -> E],
         \A i \in 1 .. n : g[i] = f[i]
  PROVE  g = Append(f, g[n + 1])
<1>1. f \in Seq(E) /\ Len(f) = n /\ g \in Seq(E) /\ Len(g) = n + 1
  BY FunctionIsSeq
<1>2. g[n + 1] \in E
  OBVIOUS
<1> DEFINE h == Append(f, g[n + 1])
<1>3. h \in Seq(E) /\ Len(h) = n + 1 /\ (\A i \in 1 .. n : h[i] = f[i]) /\ h[n + 1] = g[n + 1]
  BY <1>1, <1>2, AppendProperties
<1> HIDE DEF h
<1>4. \A i \in 1 .. Len(g) : g[i] = h[i]
  BY <1>1, <1>3
<1>5. g = h
  BY <1>1, <1>3, <1>4, SeqEqual
<1> QED
  BY <1>5 DEF h

\* A function on 1 .. n - 1 that is another one shifted by one is its Tail.
LEMMA FunctionTail ==
  ASSUME NEW E, NEW n \in Nat \ {0}, NEW f \in [1 .. n -> E], NEW g \in [1 .. n - 1 -> E],
         \A i \in 1 .. n - 1 : g[i] = f[i + 1]
  PROVE  f # <<>> /\ g = Tail(f)
<1>1. f \in Seq(E) /\ Len(f) = n /\ g \in Seq(E) /\ Len(g) = n - 1
  BY FunctionIsSeq
<1>2. f # <<>>
  BY <1>1
<1> DEFINE h == Tail(f)
<1>3. h \in Seq(E) /\ Len(h) = n - 1 /\ \A i \in 1 .. n - 1 : h[i] = f[i + 1]
  BY <1>1, <1>2, HeadTailProperties
<1> HIDE DEF h
<1>4. \A i \in 1 .. Len(g) : g[i] = h[i]
  BY <1>1, <1>3
<1>5. g = h
  BY <1>1, <1>3, <1>4, SeqEqual
<1> QED
  BY <1>2, <1>5 DEF h

(* The entries a pointer r is followed by.                                 *)
From(e, r, n) == [i \in 1 .. n |-> e[(r + i - 1) % Size]]

\* The entries from a pointer on, as a function on 1 .. n.
LEMMA FromIs ==
  ASSUME NEW E, NEW e \in [Slot -> E], NEW r \in Pointer, NEW n \in Nat
  PROVE  From(e, r, n) \in [1 .. n -> E]
<1>1. ASSUME NEW i \in 1 .. n PROVE (r + i - 1) % Size \in Slot
  <2>1. r + i - 1 \in Int
    BY DEF Pointer
  <2> QED
    BY <2>1, ModRange DEF Slot
<1> QED
  BY <1>1 DEF From

(* The contents are a sequence as long as the ring is occupied.            *)
LEMMA ContentsIs ==
  ASSUME NEW E, NEW e \in [Slot -> E], NEW w \in Pointer, NEW r \in Pointer,
         Occupied(w, r) <= Size
  PROVE  Contents(e, w, r) \in Seq(E) /\ Len(Contents(e, w, r)) = Occupied(w, r)
<1>1. Occupied(w, r) \in Nat
  BY PushOccupies
<1>2. From(e, r, Occupied(w, r)) \in [1 .. Occupied(w, r) -> E]
  BY <1>1, FromIs
<1> QED
  BY <1>1, <1>2, FunctionIsSeq DEF Contents, From

(* Equal pointers: an empty ring.                                          *)
LEMMA EmptyContents ==
  ASSUME NEW E, NEW e \in [Slot -> E], NEW r \in Pointer PROVE Contents(e, r, r) = <<>>
<1>1. Occupied(r, r) = 0
  BY OccupiedIs DEF Pointer
<1>2. Contents(e, r, r) \in Seq(E) /\ Len(Contents(e, r, r)) = 0
  BY <1>1, ContentsIs
<1> QED
  BY <1>2, EmptySeq

(* Writing the slot under the write pointer does not touch the contents.   *)
LEMMA WriteContents ==
  ASSUME NEW E, NEW e \in [Slot -> E], NEW f \in [Slot -> E],
         NEW w \in Pointer, NEW r \in Pointer, Occupied(w, r) < Size,
         \A s \in Slot : s # w % Size => f[s] = e[s]
  PROVE  Contents(f, w, r) = Contents(e, w, r)
<1> DEFINE n == Occupied(w, r)
<1>1. n \in Nat
  BY OccupiedIs DEF Pointer
<1>2. \A i \in 1 .. n : (r + i - 1) % Size # w % Size
  BY FreeSlot
<1> HIDE DEF n
<1>3. \A i \in 1 .. n : (r + i - 1) % Size \in Slot
  <2> TAKE i \in 1 .. n
  <2>1. r + i - 1 \in Int
    BY <1>1 DEF Pointer
  <2> QED
    BY <2>1, ModRange DEF Slot
<1>4. \A i \in 1 .. n : f[(r + i - 1) % Size] = e[(r + i - 1) % Size]
  BY <1>2, <1>3
<1> QED
  BY <1>4 DEF Contents, n

(* A ring that is not full holds fewer than Size entries.                  *)
LEMMA RoomContents ==
  ASSUME NEW E, NEW e \in [Slot -> E], NEW w \in Pointer, NEW r \in Pointer,
         Occupied(w, r) < Size
  PROVE  Len(Contents(e, w, r)) < Size
<1>1. Occupied(w, r) \in Int /\ Occupied(w, r) <= Size
  BY OccupiedIs DEF Pointer
<1>2. Len(Contents(e, w, r)) = Occupied(w, r)
  BY <1>1, ContentsIs
<1> QED
  BY <1>2

(* Advancing the write pointer appends the entry it pointed at.            *)
LEMMA PushContents ==
  ASSUME NEW E, NEW e \in [Slot -> E], NEW w \in Pointer, NEW r \in Pointer,
         Occupied(w, r) < Size
  PROVE  Contents(e, Advance(w), r) = Append(Contents(e, w, r), e[w % Size])
<1> DEFINE n == Occupied(w, r)
<1>1. n \in Nat /\ Occupied(w, r) <= Size
  BY OccupiedIs DEF Pointer
<1>2. Occupied(Advance(w), r) = n + 1
  BY <1>1, PushOccupies
<1>3. (r + n) % Size = w % Size
  BY FreeSlot
<1> HIDE DEF n
<1>4. From(e, r, n) \in [1 .. n -> E] /\ From(e, r, n + 1) \in [1 .. n + 1 -> E]
  <2>1. n \in Nat /\ n + 1 \in Nat
    BY <1>1
  <2>2. From(e, r, n) \in [1 .. n -> E]
    BY <2>1, FromIs
  <2>3. From(e, r, n + 1) \in [1 .. n + 1 -> E]
    BY <2>1, FromIs
  <2> QED
    BY <2>2, <2>3
<1>5. \A i \in 1 .. n : From(e, r, n + 1)[i] = From(e, r, n)[i]
  BY <1>1 DEF From
<1>6. From(e, r, n + 1)[n + 1] = e[w % Size]
  <2>1. r + (n + 1) - 1 = r + n
    BY <1>1 DEF Pointer
  <2> QED
    BY <1>1, <1>3, <2>1 DEF From
<1>7. From(e, r, n + 1) = Append(From(e, r, n), e[w % Size])
  BY <1>1, <1>4, <1>5, <1>6, FunctionAppend
<1> QED
  BY <1>2, <1>7 DEF n, Contents, From

(* Advancing the read pointer removes the oldest entry, the one it pointed *)
(* at.                                                                     *)
LEMMA PopContents ==
  ASSUME NEW E, NEW e \in [Slot -> E], NEW w \in Pointer, NEW r \in Pointer,
         w # r, Occupied(w, r) <= Size
  PROVE  /\ Contents(e, w, r) # <<>>
         /\ Contents(e, w, Advance(r)) = Tail(Contents(e, w, r))
<1> DEFINE n == Occupied(w, r)
<1>1. n \in 1 .. Size /\ Occupied(w, Advance(r)) = n - 1
  BY PushOccupies
<1> HIDE DEF n
<1>2. Advance(r) \in Pointer /\ Advance(r) = IF r = 2 * Size - 1 THEN 0 ELSE r + 1
  BY AdvanceIs
<1>3. ASSUME NEW i \in 1 .. n - 1
      PROVE (Advance(r) + i - 1) % Size = (r + (i + 1) - 1) % Size
  <2>1. CASE r # 2 * Size - 1
    <3>1. Advance(r) + i - 1 = r + (i + 1) - 1
      BY <1>1, <1>2, <2>1 DEF Pointer
    <3> QED
      BY <3>1
  <2>2. CASE r = 2 * Size - 1
    <3>1. i - 1 \in 0 .. 2 * Size - 1 /\ Advance(r) + i - 1 = i - 1
      BY <1>1, <1>2, <2>2
    <3>2. r + (i + 1) - 1 = i - 1 + 2 * Size
      BY <1>1, <2>2
    <3>3. (i - 1 + 2 * Size) % Size = (i - 1) % Size
      BY <3>1, ModTwice
    <3> QED
      BY <3>1, <3>2, <3>3
  <2> QED
    BY <2>1, <2>2
<1>4. From(e, r, n) \in [1 .. n -> E] /\ From(e, Advance(r), n - 1) \in [1 .. n - 1 -> E]
  <2>1. n \in Nat /\ n - 1 \in Nat
    BY <1>1
  <2>2. From(e, r, n) \in [1 .. n -> E]
    BY <2>1, FromIs
  <2>3. From(e, Advance(r), n - 1) \in [1 .. n - 1 -> E]
    BY <1>2, <2>1, FromIs
  <2> QED
    BY <2>2, <2>3
<1>5. \A i \in 1 .. n - 1 : From(e, Advance(r), n - 1)[i] = From(e, r, n)[i + 1]
  BY <1>1, <1>3 DEF From
<1>6. From(e, r, n) # <<>> /\ From(e, Advance(r), n - 1) = Tail(From(e, r, n))
  BY <1>1, <1>4, <1>5, FunctionTail
<1> QED
  BY <1>1, <1>6 DEF n, Contents, From

(* The oldest entry is the one under the read pointer.                     *)
LEMMA FirstContents ==
  ASSUME NEW E, NEW e \in [Slot -> E], NEW w \in Pointer, NEW r \in Pointer,
         w # r, Occupied(w, r) <= Size
  PROVE  Contents(e, w, r)[1] = e[r % Size]
<1>1. 1 \in 1 .. Occupied(w, r)
  BY PushOccupies
<1>2. r + 1 - 1 = r
  BY DEF Pointer
<1> QED
  BY <1>1, <1>2 DEF Contents
=============================================================================
