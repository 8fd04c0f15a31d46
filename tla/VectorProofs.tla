---------------------------- MODULE VectorProofs ----------------------------
(***************************************************************************)
(* For every set of elements, every capacity and every bound: a vector     *)
(* stays inside its buffer, and it is a growable sequence.                 *)
(***************************************************************************)
EXTENDS Vector, SequenceTheorems, TLAPS

USE VectorAssumption

(* A buffer made by vector_realloc_ (vector.cpp:141-160): its length, and   *)
(* the elements it has kept.                                               *)
LEMMA ResizedProperties ==
    ASSUME BufferOK, NEW n \in 0 .. size, NEW c \in Nat
    PROVE  /\ Resized(n, c) \in Seq(Elems \cup {None})
           /\ Len(Resized(n, c)) = c
           /\ \A i \in 1..c : Resized(n, c)[i] = IF i <= n THEN cells[i] ELSE None
<1>1. \A i \in 1..c : (IF i <= n THEN cells[i] ELSE None) \in Elems \cup {None}
  <2>. SUFFICES ASSUME NEW i \in 1..c, i <= n
                PROVE  cells[i] \in Elems \cup {None}
    OBVIOUS
  <2>1. i \in 1 .. Len(cells)
    BY DEF BufferOK
  <2>. QED
    BY <2>1, ElementOfSeq DEF BufferOK
<1>2. Resized(n, c) \in [1..c -> Elems \cup {None}]
  BY <1>1 DEF Resized
<1>. QED
  BY <1>2 DEF Resized

(* The buffer after a push that had to make it larger.                     *)
LEMMA GrownProperties ==
    ASSUME BufferOK, NEW v \in Elems, Full, buffer = "live", Grown(v)
    PROVE  /\ cells' \in Seq(Elems \cup {None})
           /\ Len(cells') = capacity'
           /\ capacity' = 2 * capacity /\ capacity > 0
           /\ \A i \in 1..size : cells'[i] = cells[i]
           /\ cells'[size + 1] = v
<1>. DEFINE larger == Resized(size, 2 * capacity)
<1>1. capacity \in Nat \ {0} /\ size = capacity
  BY DEF BufferOK, Full
<1>2. /\ larger \in Seq(Elems \cup {None})
      /\ Len(larger) = 2 * capacity
      /\ \A i \in 1 .. 2 * capacity :
            larger[i] = IF i <= size THEN cells[i] ELSE None
  <2>. size \in 0..size /\ 2 * capacity \in Nat
    BY <1>1
  <2>. QED
    BY ResizedProperties
<1>3. /\ capacity' = 2 * capacity
      /\ cells' = [larger EXCEPT ![size + 1] = v]
  <2>1. capacity * 2 = 2 * capacity
    BY <1>1
  <2>. QED
    BY <2>1 DEF Grown, Allocated, CAPACITY_EXP
<1>. HIDE DEF larger
<1>4. size + 1 \in 1 .. Len(larger) /\ v \in Elems \cup {None}
  BY <1>1, <1>2
<1>5. /\ cells' \in Seq(Elems \cup {None})
      /\ Len(cells') = Len(larger)
      /\ \A j \in 1 .. Len(larger) : cells'[j] = IF j = size + 1 THEN v ELSE larger[j]
  BY <1>2, <1>3, <1>4, ExceptSeq
<1>. QED
  BY <1>1, <1>2, <1>3, <1>4, <1>5

(* Halving a buffer four times as large as its contents leaves them room.  *)
LEMMA ShrinkLeavesRoom ==
    ASSUME NEW c \in Nat, NEW n \in Nat \ {0}, c \div n >= 4
    PROVE  c \div 2 \in Nat /\ c \div 2 > 0 /\ n <= c \div 2
<1>1. c = (c \div n) * n + (c % n) /\ c % n \in 0 .. n - 1 /\ c \div n \in Nat
  BY Z3
<1>2. 4 * n <= (c \div n) * n
  <2>. DEFINE q == c \div n
  <2>1. q \in Nat /\ q >= 4
    BY <1>1
  <2>. HIDE DEF q
  <2>2. 4 * n <= q * n
    BY <2>1, Z3
  <2>. QED
    BY <2>2 DEF q
<1>3. c >= 4 * n
  <2>. DEFINE p == (c \div n) * n
  <2>. HIDE DEF p
  <2>. QED
    BY <1>1, <1>2 DEF p
<1>. QED
  BY <1>3

(* The buffer after vector_pop has made it smaller.                        *)
LEMMA ShrunkProperties ==
    ASSUME BufferOK, size > 1, Shrinks,
           capacity' = capacity \div CAPACITY_EXP,
           cells' = Resized(size - 1, capacity \div CAPACITY_EXP)
    PROVE  /\ cells' \in Seq(Elems \cup {None})
           /\ capacity' \in Nat /\ capacity' > 0
           /\ Len(cells') = capacity'
           /\ size - 1 <= capacity'
           /\ \A i \in 1 .. size - 1 : cells'[i] = cells[i]
<1>1. /\ size - 1 \in Nat \ {0} /\ size - 1 \in 0 .. size
      /\ capacity \in Nat /\ capacity \div (size - 1) >= 4
  BY DEF BufferOK, Shrinks, CAPACITY_SHRINK_SCALE
<1>2. /\ capacity' = capacity \div 2
      /\ capacity' \in Nat /\ capacity' > 0 /\ size - 1 <= capacity'
  BY <1>1, ShrinkLeavesRoom DEF CAPACITY_EXP
<1>3. cells' = Resized(size - 1, capacity')
  BY DEF CAPACITY_EXP
<1>4. /\ Resized(size - 1, capacity') \in Seq(Elems \cup {None})
      /\ Len(Resized(size - 1, capacity')) = capacity'
      /\ \A i \in 1 .. capacity' : Resized(size - 1, capacity')[i]
                                 = IF i <= size - 1 THEN cells[i] ELSE None
  BY <1>1, <1>2, ResizedProperties
<1>. QED
  BY <1>1, <1>2, <1>3, <1>4

(* vector_push never writes, and vector_at never reads, outside the buffer *)
(* (vector.cpp:75-134), whichever allocation fails.                        *)
THEOREM VectorBufferOK == Spec => []BufferOK
<1>1. Init => BufferOK
  BY DEF Init, BufferOK
<1>2. BufferOK /\ [Next]_vars => BufferOK'
  <2>. SUFFICES ASSUME BufferOK, [Next]_vars PROVE BufferOK'
    OBVIOUS
  <2>1. CASE Ctor
    <3>1. CASE Allocated(Capacity) /\ cells' = Resized(0, Capacity)
      <4>. 0 \in 0 .. size /\ Capacity \in Nat
        BY DEF BufferOK
      <4>1. /\ cells' \in Seq(Elems \cup {None})
            /\ Len(cells') = Capacity
        BY <3>1, ResizedProperties
      <4>. QED
        BY <2>1, <3>1, <4>1 DEF Ctor, BufferOK, Allocated, Return
    <3>2. CASE NotAllocated
      BY <2>1, <3>2 DEF Ctor, BufferOK, NotAllocated, Return
    <3>. QED
      BY <2>1, <3>1, <3>2 DEF Ctor
  <2>2. ASSUME NEW v \in Elems, Push(v) PROVE BufferOK'
    <3>1. CASE Crash
      BY <3>1 DEF Crash, BufferOK
    <3>2. CASE /\ Valid /\ buffer = "live" /\ ~Full
               /\ cells' = [cells EXCEPT ![size + 1] = v]
               /\ size' = size + 1
               /\ Return(None) /\ UNCHANGED <<buffer, capacity>>
      <4>1. size + 1 \in 1 .. Len(cells)
        BY <3>2 DEF BufferOK, Full
      <4>2. cells' \in Seq(Elems \cup {None}) /\ Len(cells') = Len(cells)
        BY <3>2, <4>1, ExceptSeq DEF BufferOK
      <4>. QED
        BY <3>2, <4>1, <4>2 DEF BufferOK, Return
    <3>3. CASE /\ Valid /\ buffer = "live" /\ Full
               /\ Grown(v) /\ size' = size + 1 /\ Return(None)
      <4>1. buffer' = "live"
        BY <3>3 DEF Grown, Allocated
      <4>2. /\ cells' \in Seq(Elems \cup {None}) /\ Len(cells') = capacity'
            /\ capacity' = 2 * capacity /\ capacity > 0
        BY <3>3, GrownProperties
      <4>. QED
        BY <3>3, <4>1, <4>2 DEF BufferOK, Return, Full
    <3>4. CASE /\ Valid /\ buffer = "live" /\ Full
               /\ NotAllocated /\ UNCHANGED size /\ Return(None)
      BY <3>4 DEF BufferOK, Return, NotAllocated
    <3>. QED
      BY <2>2, <3>1, <3>2, <3>3, <3>4 DEF Push
  <2>3. CASE Pop
    <3>1. CASE Crash
      BY <3>1 DEF Crash, BufferOK
    <3>2. CASE /\ Valid /\ size > 1 /\ size' = size - 1
               /\ Return(None) /\ UNCHANGED <<buffer, capacity, cells>>
      BY <3>2 DEF BufferOK, Return
    <3>3. CASE /\ size > 1 /\ Shrinks /\ size' = size - 1
               /\ Allocated(capacity \div CAPACITY_EXP)
               /\ cells' = Resized(size - 1, capacity \div CAPACITY_EXP)
               /\ Return(None)
      <4>1. buffer' = "live" /\ capacity' = capacity \div CAPACITY_EXP
        BY <3>3 DEF Allocated
      <4>2. /\ cells' \in Seq(Elems \cup {None}) /\ Len(cells') = capacity'
            /\ capacity' \in Nat /\ capacity' > 0 /\ size - 1 <= capacity'
        BY <3>3, <4>1, ShrunkProperties
      <4>. QED
        BY <3>3, <4>1, <4>2 DEF BufferOK, Return
    <3>4. CASE /\ size > 1 /\ buffer = "live" /\ size' = size - 1
               /\ NotAllocated /\ Return(None)
      BY <3>4 DEF BufferOK, Return, NotAllocated
    <3>. QED
      BY <2>3, <3>1, <3>2, <3>3, <3>4 DEF Pop
  <2>4. ASSUME NEW i \in 0 .. MaxSize, At(i) PROVE BufferOK'
    <3>1. CASE Crash
      BY <3>1 DEF Crash, BufferOK
    <3>2. CASE Return(None) /\ UNCHANGED <<buffer, size, capacity, cells>>
      BY <3>2 DEF Return, BufferOK
    <3>3. CASE /\ i < size /\ Return(cells[i + 1])
               /\ UNCHANGED <<buffer, size, capacity, cells>>
      <4>1. i + 1 \in 1 .. Len(cells)
        BY <3>3 DEF BufferOK
      <4>2. cells[i + 1] \in Elems \cup {None}
        BY <4>1, ElementOfSeq DEF BufferOK
      <4>. QED
        BY <3>3, <4>2 DEF Return, BufferOK
    <3>. QED
      BY <2>4, <3>1, <3>2, <3>3 DEF At
  <2>5. CASE Free
    BY <2>5 DEF Free, Return, BufferOK
  <2>6. CASE Dtor
    <3>1. CASE Crash
      BY <3>1 DEF Crash, BufferOK
    <3>2. CASE /\ buffer' = "null" /\ size' = 0 /\ capacity' = 0 /\ cells' = << >>
               /\ Return(None)
      <4>1. cells' \in Seq(Elems \cup {None}) /\ Len(cells') = 0
        BY <3>2, EmptySeq
      <4>. QED
        BY <3>2, <4>1 DEF Return, BufferOK
    <3>. QED
      BY <2>6, <3>1, <3>2 DEF Dtor
  <2>7. CASE Ended \/ UNCHANGED vars
    BY <2>7 DEF Ended, vars, BufferOK
  <2>. QED
    BY <2>1, <2>2, <2>3, <2>4, <2>5, <2>6, <2>7 DEF Next
<1>. QED
  BY <1>1, <1>2, PTL DEF Spec

-----------------------------------------------------------------------------
(* The elements a client sees, and what each operation does to them.       *)
Shown == SubSeq(cells, 1, size)

(* A prefix of a sequence. *)
LEMMA PrefixProperties ==
    ASSUME NEW T, NEW s \in Seq(T), NEW n \in 0 .. Len(s)
    PROVE  /\ SubSeq(s, 1, n) \in Seq(T)
           /\ Len(SubSeq(s, 1, n)) = n
           /\ \A i \in 1..n : SubSeq(s, 1, n)[i] = s[i]
<1>1. \A i \in 1..n : s[i] \in T
  BY ElementOfSeq
<1>. QED
  BY <1>1, SubSeqProperties

(* The elements a vector shows. *)
LEMMA ShownProperties ==
    ASSUME BufferOK
    PROVE  /\ Shown \in Seq(Elems \cup {None})
           /\ Len(Shown) = size
           /\ \A i \in 1..size : Shown[i] = cells[i]
BY PrefixProperties DEF BufferOK, Shown

(* The same after a step. *)
LEMMA ShownPrimeProperties ==
    ASSUME BufferOK'
    PROVE  /\ Shown' \in Seq(Elems \cup {None})
           /\ Len(Shown') = size'
           /\ \A i \in 1..size' : Shown'[i] = cells'[i]
<1>1. cells' \in Seq(Elems \cup {None}) /\ size' \in 0 .. Len(cells')
  BY DEF BufferOK
<1>2. Shown' = SubSeq(cells', 1, size')
  BY DEF Shown
<1>. QED
  BY <1>1, <1>2, PrefixProperties

(* A new buffer with the same elements shows the same sequence.            *)
LEMMA ShownAfterPush ==
    ASSUME BufferOK, BufferOK', NEW v \in Elems, size' = size + 1,
           \A i \in 1..size : cells'[i] = cells[i], cells'[size + 1] = v
    PROVE  Shown' = Append(Shown, v)
<1>1. /\ Shown' \in Seq(Elems \cup {None}) /\ Len(Shown') = size + 1
      /\ \A i \in 1 .. size + 1 : Shown'[i] = cells'[i]
  BY ShownPrimeProperties
<1>2. /\ Append(Shown, v) \in Seq(Elems \cup {None})
      /\ Len(Append(Shown, v)) = size + 1
      /\ \A i \in 1..size : Append(Shown, v)[i] = cells[i]
      /\ Append(Shown, v)[size + 1] = v
  BY ShownProperties, AppendProperties
<1>3. size \in Nat
  BY DEF BufferOK
<1>4. \A i \in 1 .. size + 1 : Shown'[i] = Append(Shown, v)[i]
  BY <1>1, <1>2, <1>3
<1>. QED
  BY <1>1, <1>2, <1>4, SeqEqual

(* Dropping the last cell drops the last element. *)
LEMMA ShownAfterPop ==
    ASSUME BufferOK, BufferOK', size > 1, size' = size - 1,
           \A i \in 1 .. size - 1 : cells'[i] = cells[i]
    PROVE  Shown' = SubSeq(Shown, 1, Len(Shown) - 1)
<1>1. /\ Shown' \in Seq(Elems \cup {None}) /\ Len(Shown') = size - 1
      /\ \A i \in 1 .. size - 1 : Shown'[i] = cells'[i]
  BY ShownPrimeProperties
<1>2. /\ size \in Nat /\ Len(Shown) = size
      /\ \A i \in 1..size : Shown[i] = cells[i] /\ Shown[i] \in Elems \cup {None}
  BY ShownProperties, ElementOfSeq DEF BufferOK
<1>3. /\ SubSeq(Shown, 1, size - 1) \in Seq(Elems \cup {None})
      /\ Len(SubSeq(Shown, 1, size - 1)) = size - 1
      /\ \A i \in 1 .. size - 1 : SubSeq(Shown, 1, size - 1)[i] = Shown[i]
  BY <1>2, SubSeqProperties
<1>4. \A i \in 1 .. size - 1 : Shown'[i] = SubSeq(Shown, 1, size - 1)[i]
  BY <1>1, <1>2, <1>3
<1>. QED
  BY <1>1, <1>2, <1>3, <1>4, SeqEqual

(* An empty vector shows nothing. *)
LEMMA ShownEmpty == size = 0 => Shown = << >>
  BY SubSeqEmpty DEF Shown

(* One step of the vector is a step of the sequence, or none.              *)
LEMMA StepRefines ==
    ASSUME BufferOK, BufferOK', [Next]_vars
    PROVE  [Sequence!Next]_(Sequence!vars)
<1>. USE DEF Phase
<1>0. /\ size \in Nat /\ size <= capacity /\ Len(Shown) = size /\ alive \in BOOLEAN
      /\ buffer \in {"null", "live", "freed"}
  BY ShownProperties DEF BufferOK
<1>a. ASSUME Crash PROVE Shown' = Shown /\ out' = out /\ Phase' = "dead"
  BY <1>a DEF Crash, Shown
<1>1. CASE Ctor
  <2>1. Shown = << >> /\ Shown' = << >>
    <3>1. size = 0
      BY <1>0, <1>1 DEF Ctor, BufferOK
    <3>2. size' = 0
      BY <1>1 DEF Ctor
    <3>. QED
      BY <3>1, <3>2, SubSeqEmpty DEF Shown
  <2>2. Phase = "raw" /\ Phase' \in {"raw", "open"} /\ out' = None
    BY <1>1 DEF Ctor, Allocated, NotAllocated, Return
  <2>. QED
    BY <2>1, <2>2 DEF Sequence!Next, Sequence!Open, Shown
<1>2. ASSUME NEW v \in Elems, Push(v) PROVE [Sequence!Next]_(Sequence!vars)
  <2>1. CASE (~Valid \/ buffer = "freed") /\ Crash
    <3>1. Phase \in {"raw", "broken"}
      BY <1>0, <1>2, <2>1 DEF Valid, Push
    <3>. QED
      BY <1>a, <2>1, <3>1 DEF Sequence!Next, Sequence!Die, Shown
  <2>2. CASE /\ Valid /\ buffer = "live" /\ ~Full
             /\ cells' = [cells EXCEPT ![size + 1] = v]
             /\ size' = size + 1
             /\ Return(None) /\ UNCHANGED <<buffer, capacity>>
    <3>1. size + 1 \in 1 .. Len(cells)
      BY <2>2 DEF BufferOK, Full
    <3>2. cells'[size + 1] = v /\ \A i \in 1..size : cells'[i] = cells[i]
      BY <2>2, <3>1, ExceptSeq DEF BufferOK
    <3>3. Shown' = Append(Shown, v)
      BY <2>2, <3>2, ShownAfterPush
    <3>4. Phase = "open" /\ Phase' = "open" /\ out' = None /\ Len(Shown) < MaxSize
      BY <1>0, <1>2, <2>2 DEF Push, Return
    <3>. QED
      BY <3>3, <3>4 DEF Sequence!Next, Sequence!Push, Shown
  <2>3. CASE /\ Valid /\ buffer = "live" /\ Full
             /\ Grown(v) /\ size' = size + 1 /\ Return(None)
    <3>1. cells'[size + 1] = v /\ \A i \in 1..size : cells'[i] = cells[i]
      BY <2>3, GrownProperties
    <3>2. Shown' = Append(Shown, v)
      BY <2>3, <3>1, ShownAfterPush
    <3>3. Phase = "open" /\ Phase' = "open" /\ out' = None /\ Len(Shown) < MaxSize
      BY <1>0, <1>2, <2>3 DEF Push, Return, Grown, Allocated
    <3>. QED
      BY <3>2, <3>3 DEF Sequence!Next, Sequence!Push, Shown
  <2>4. CASE /\ Valid /\ buffer = "live" /\ Full
             /\ NotAllocated /\ UNCHANGED size /\ Return(None)
    <3>1. Shown' = Shown
      BY <2>4 DEF NotAllocated, Shown
    <3>2. Phase = "open" /\ Phase' = "broken" /\ out' = None /\ Len(Shown) < MaxSize
      BY <1>0, <1>2, <2>4 DEF Push, Return, NotAllocated
    <3>. QED
      BY <3>1, <3>2 DEF Sequence!Next, Sequence!Push, Shown
  <2>. QED
    BY <1>2, <2>1, <2>2, <2>3, <2>4 DEF Push
<1>3. CASE Pop
  <2>1. CASE Crash
    <3>1. Phase \in {"raw", "broken"} \/ (Phase = "open" /\ Len(Shown) <= 1)
      BY <1>0, <1>3, <2>1 DEF Valid, Pop, Crash, Return
    <3>. QED
      BY <1>a, <2>1, <3>1 DEF Sequence!Next, Sequence!Die, Shown
  <2>2. CASE /\ Valid /\ size > 1 /\ size' = size - 1
             /\ Return(None) /\ UNCHANGED <<buffer, capacity, cells>>
    <3>1. Shown' = SubSeq(Shown, 1, Len(Shown) - 1)
      BY <2>2, ShownAfterPop
    <3>2. /\ Phase \in {"open", "broken"} /\ Phase' = Phase
          /\ out' = None /\ Len(Shown) > 1
      BY <1>0, <1>3, <2>2 DEF Pop, Return, Valid
    <3>. QED
      BY <3>1, <3>2 DEF Sequence!Next, Sequence!Pop, Shown
  <2>3. CASE /\ Valid /\ size > 1 /\ Shrinks /\ buffer = "live" /\ size' = size - 1
             /\ Allocated(capacity \div CAPACITY_EXP)
             /\ cells' = Resized(size - 1, capacity \div CAPACITY_EXP)
             /\ Return(None)
    <3>1. \A i \in 1 .. size - 1 : cells'[i] = cells[i]
      BY <2>3, ShrunkProperties DEF Allocated
    <3>2. Shown' = SubSeq(Shown, 1, Len(Shown) - 1)
      BY <2>3, <3>1, ShownAfterPop
    <3>3. /\ Phase = "open" /\ Phase' = "open"
          /\ out' = None /\ Len(Shown) > 1
      BY <1>0, <1>3, <2>3 DEF Pop, Return, Allocated
    <3>. QED
      BY <3>2, <3>3 DEF Sequence!Next, Sequence!Pop, Shown
  <2>4. CASE /\ Valid /\ size > 1 /\ buffer = "live" /\ size' = size - 1
             /\ NotAllocated /\ Return(None)
    <3>1. Shown' = SubSeq(Shown, 1, Len(Shown) - 1)
      BY <2>4, ShownAfterPop DEF NotAllocated
    <3>2. /\ Phase = "open" /\ Phase' = "broken"
          /\ out' = None /\ Len(Shown) > 1
      BY <1>0, <1>3, <2>4 DEF Pop, Return, NotAllocated
    <3>. QED
      BY <3>1, <3>2 DEF Sequence!Next, Sequence!Pop, Shown
  <2>. QED
    BY <1>3, <2>1, <2>2, <2>3, <2>4 DEF Pop
<1>4. ASSUME NEW i \in 0 .. MaxSize, At(i) PROVE [Sequence!Next]_(Sequence!vars)
  <2>1. CASE (~Valid \/ (buffer = "freed" /\ i < size)) /\ Crash
    <3>1. Phase \in {"raw", "broken"}
      BY <1>0, <1>4, <2>1 DEF Valid, At
    <3>. QED
      BY <1>a, <2>1, <3>1 DEF Sequence!Next, Sequence!Die, Shown
  <2>2. CASE /\ Valid /\ i >= size
             /\ Return(None) /\ UNCHANGED <<buffer, size, capacity, cells>>
    <3>1. Shown' = Shown /\ Phase' = Phase /\ out' = None /\ ~(i < Len(Shown))
      BY <1>0, <2>2 DEF Return, Shown
    <3>2. Phase \in {"open", "broken"}
      BY <1>0, <1>4, <2>2 DEF At, Valid
    <3>. QED
      BY <1>0, <2>2, <3>1, <3>2 DEF Sequence!Next, Sequence!At, Sequence!AtPastEnd, Shown
  <2>3. CASE /\ Valid /\ buffer = "live" /\ i < size
             /\ Return(cells[i + 1]) /\ UNCHANGED <<buffer, size, capacity, cells>>
    <3>1. Shown' = Shown /\ Phase' = "open" /\ Phase = "open" /\ i < Len(Shown)
      BY <1>0, <1>4, <2>3 DEF At, Return, Shown
    <3>2. out' = Shown[i + 1]
      BY <1>0, <2>3, ShownProperties DEF Return
    <3>. QED
      BY <3>1, <3>2 DEF Sequence!Next, Sequence!At, Shown
  <2>. QED
    BY <1>4, <2>1, <2>2, <2>3 DEF At
<1>5. CASE Free
  <2>1. Shown' = << >> /\ Phase' = Phase /\ Phase # "dead" /\ out' = None
    BY <1>0, <1>5, SubSeqEmpty DEF Free, Return, Shown
  <2>. QED
    BY <2>1 DEF Sequence!Next, Sequence!Clear, Shown
<1>6. CASE Dtor
  <2>1. CASE buffer = "freed" /\ Crash
    <3>1. Phase = "broken"
      BY <1>6, <2>1 DEF Dtor
    <3>. QED
      BY <1>a, <2>1, <3>1 DEF Sequence!Next, Sequence!Die, Shown
  <2>2. CASE /\ buffer # "freed" /\ buffer' = "null" /\ size' = 0
             /\ capacity' = 0 /\ cells' = << >> /\ Return(None)
    <3>1. Shown' = << >> /\ Phase' = "raw" /\ out' = None
      BY <1>6, <2>2, SubSeqEmpty DEF Dtor, Return, Shown
    <3>2. Phase \in {"raw", "open"}
      BY <1>0, <1>6, <2>2 DEF Dtor
    <3>. QED
      BY <3>1, <3>2 DEF Sequence!Next, Sequence!Close, Shown
  <2>. QED
    BY <1>6, <2>1, <2>2 DEF Dtor
<1>7. CASE Ended \/ UNCHANGED vars
  <2>1. UNCHANGED <<buffer, size, cells, out, alive>>
    BY <1>7 DEF Ended, vars
  <2>2. Shown' = Shown /\ out' = out
    BY <2>1 DEF Shown
  <2>3. Phase' = Phase
    BY <2>1
  <2>. QED
    BY <2>2, <2>3 DEF Sequence!vars, Shown
<1>. QED
  BY <1>1, <1>2, <1>3, <1>4, <1>5, <1>6, <1>7 DEF Next

(* A vector is a growable sequence, whatever buffers its elements are      *)
(* moved through and whichever allocation fails (vector.cpp:53-172).       *)
THEOREM VectorRefinesSequence == Spec => RefinesSequence
<1>1. Init => Sequence!Init
  BY SubSeqEmpty DEF Init, Sequence!Init, Phase
<1>2. BufferOK /\ BufferOK' /\ [Next]_vars => [Sequence!Next]_(Sequence!vars)
  BY StepRefines
<1>. QED
  BY <1>1, <1>2, VectorBufferOK, PTL DEF Spec, RefinesSequence, Sequence!Spec
=============================================================================
