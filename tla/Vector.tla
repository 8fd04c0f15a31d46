------------------------------- MODULE Vector -------------------------------
(***************************************************************************)
(* The growing array behind every list of the compiler (the debug build of *)
(* src/src/common/vector.cpp): the tokens, the nodes to delete, the        *)
(* environments and their symbols.  Any allocation may fail.  An operation *)
(* that fails an assertion, divides by zero or touches freed memory ends   *)
(* the process.                                                            *)
(***************************************************************************)
EXTENDS Integers, Sequences

CONSTANTS Elems,      \* what is stored
          None,       \* NULL, and the contents of zeroed memory
          Capacity,   \* the capacity given to vector_ctor
          MaxSize     \* the bound on the number of elements

ASSUME VectorAssumption ==
    /\ None \notin Elems
    /\ Capacity \in Nat \ {0}
    /\ MaxSize \in Nat

VARIABLES buffer,     \* "null", "live", or "freed": a pointer to freed memory
          size, capacity,
          cells,      \* the contents of the buffer
          out,        \* what the last operation answered
          alive       \* has the process not ended?

vars == <<buffer, size, capacity, cells, out, alive>>

CAPACITY_EXP == 2
CAPACITY_SHRINK_SCALE == 4

(* _vector_validate; a dangling pointer is not NULL and passes. *)
Valid == buffer # "null" /\ size <= capacity

Crash == alive' = FALSE /\ UNCHANGED <<buffer, size, capacity, cells, out>>
Return(v) == out' = v /\ UNCHANGED alive

(* The first n of the cells in a buffer of c, zeroes after them. *)
Resized(n, c) == [i \in 1..c |-> IF i <= n THEN cells[i] ELSE None]

(* vector_realloc_ of a buffer that holds n elements to capacity c: when   *)
(* realloc fails, the old buffer is freed and stays in vec->buffer.        *)
Allocated(c) == buffer' = "live" /\ capacity' = c
NotAllocated ==
    /\ buffer' = IF buffer = "null" THEN "null" ELSE "freed"
    /\ UNCHANGED <<capacity, cells>>

(* vector_ctor: the callers give it a vector without a buffer. *)
Ctor ==
    /\ alive /\ buffer = "null"
    /\ size' = 0
    /\ \/ Allocated(Capacity) /\ cells' = Resized(0, Capacity)
       \/ NotAllocated
    /\ Return(None)

(* Mutant: the element count is not limited by the capacity.               *)
FullNever == FALSE

Full == size = capacity

(* Mutant: the elements are not kept when the buffer grows.                *)
GrownEmpty(v) ==
    /\ Allocated(capacity * CAPACITY_EXP)
    /\ cells' = [Resized(0, capacity * CAPACITY_EXP) EXCEPT ![size + 1] = v]

Grown(v) ==
    /\ Allocated(capacity * CAPACITY_EXP)
    /\ cells' = [Resized(size, capacity * CAPACITY_EXP) EXCEPT ![size + 1] = v]

(* vector_push. *)
Push(v) ==
    /\ alive /\ size < MaxSize
    /\ \/ (~Valid \/ buffer = "freed") /\ Crash
       \/ /\ Valid /\ buffer = "live" /\ ~Full
          /\ cells' = [cells EXCEPT ![size + 1] = v]
          /\ size' = size + 1
          /\ Return(None) /\ UNCHANGED <<buffer, capacity>>
       \/ /\ Valid /\ buffer = "live" /\ Full
          /\ \/ Grown(v) /\ size' = size + 1
             \/ NotAllocated /\ UNCHANGED size
          /\ Return(None)

(* vector_pop: the element's index is already outside when vector_at is     *)
(* asked for it, so the answer is NULL.  Nothing in the compiler calls it. *)
Shrinks == capacity \div (size - 1) >= CAPACITY_SHRINK_SCALE

Pop ==
    /\ alive
    /\ \/ (~Valid \/ size <= 1) /\ Crash
       \/ Valid /\ size > 1 /\ Shrinks /\ buffer = "freed" /\ Crash
       \/ /\ Valid /\ size > 1 /\ ~Shrinks
          /\ size' = size - 1
          /\ Return(None) /\ UNCHANGED <<buffer, capacity, cells>>
       \/ /\ Valid /\ size > 1 /\ Shrinks /\ buffer = "live"
          /\ size' = size - 1
          /\ \/ /\ Allocated(capacity \div CAPACITY_EXP)
                /\ cells' = Resized(size - 1, capacity \div CAPACITY_EXP)
             \/ NotAllocated
          /\ Return(None)

(* vector_at, and the read through the pointer it answers. *)
At(i) ==
    /\ alive
    /\ \/ (~Valid \/ (buffer = "freed" /\ i < size)) /\ Crash
       \/ /\ Valid /\ i >= size
          /\ Return(None) /\ UNCHANGED <<buffer, size, capacity, cells>>
       \/ /\ Valid /\ buffer = "live" /\ i < size
          /\ Return(cells[i + 1]) /\ UNCHANGED <<buffer, size, capacity, cells>>

(* vector_free: only the size. *)
Free ==
    /\ alive
    /\ size' = 0
    /\ Return(None) /\ UNCHANGED <<buffer, capacity, cells>>

(* vector_dtor. *)
Dtor ==
    /\ alive
    /\ \/ buffer = "freed" /\ Crash
       \/ /\ buffer # "freed"
          /\ buffer' = "null" /\ size' = 0 /\ capacity' = 0 /\ cells' = << >>
          /\ Return(None)

(* VECTOR_INITLIST *)
Init ==
    /\ buffer = "null" /\ size = 0 /\ capacity = 0 /\ cells = << >>
    /\ out = None
    /\ alive = TRUE

Ended == ~alive /\ UNCHANGED vars

Next ==
    \/ Ctor \/ Pop \/ Free \/ Dtor \/ Ended
    \/ \E v \in Elems : Push(v)
    \/ \E i \in 0 .. MaxSize : At(i)

Spec == Init /\ [][Next]_vars

-----------------------------------------------------------------------------
(* The buffer is as large as capacity says and no element is outside it:   *)
(* vector_push never writes past its end.                                  *)
BufferOK ==
    /\ buffer \in {"null", "live", "freed"}
    /\ size \in Nat /\ capacity \in Nat
    /\ cells \in Seq(Elems \cup {None}) /\ Len(cells) = capacity
    /\ size <= capacity
    /\ (buffer = "null") <=> (capacity = 0)
    /\ out \in Elems \cup {None}
    /\ alive \in BOOLEAN

(* A vector is a growable sequence: its first size cells, whatever         *)
(* buffers they have been moved through.                                   *)
Phase ==
    IF ~alive THEN "dead"
    ELSE IF buffer = "null" THEN "raw"
    ELSE IF buffer = "live" THEN "open" ELSE "broken"

Sequence == INSTANCE GrowableSequence
              WITH phase <- Phase, elems <- SubSeq(cells, 1, size)

RefinesSequence == Sequence!Spec
=============================================================================
