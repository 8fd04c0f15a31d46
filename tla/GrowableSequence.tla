-------------------------- MODULE GrowableSequence --------------------------
(***************************************************************************)
(* What the rest of the compiler may rely on in a Vector, with no buffer   *)
(* and no capacity: a sequence that is opened, read, extended at its end,  *)
(* emptied and closed, until an allocation fails.  Then the sequence is    *)
(* broken, and only emptying it is sure not to end the process.            *)
(***************************************************************************)
EXTENDS Integers, Sequences

CONSTANTS Elems,     \* what is stored
          None,      \* the answer that is no element (NULL)
          MaxSize    \* the bound on the number of elements

VARIABLES phase,     \* "raw", "open", "broken" or "dead"
          elems,     \* the elements, oldest first
          out        \* what the last operation answered

vars == <<phase, elems, out>>

Init == phase = "raw" /\ elems = << >> /\ out = None

Open ==
    /\ phase = "raw"
    /\ phase' \in {"raw", "open"}       \* "raw" if the allocation fails
    /\ out' = None
    /\ UNCHANGED elems

Push(v) ==
    /\ phase = "open" /\ Len(elems) < MaxSize
    /\ out' = None
    /\ \/ elems' = Append(elems, v) /\ UNCHANGED phase
       \/ phase' = "broken" /\ UNCHANGED elems

(* Taking the last element away may fail to make the store smaller, and   *)
(* a broken sequence may still be able to do without that.                 *)
Pop ==
    /\ phase \in {"open", "broken"} /\ Len(elems) > 1
    /\ elems' = SubSeq(elems, 1, Len(elems) - 1)
    /\ out' = None
    /\ phase' \in {phase, "broken"}

At(i) ==
    /\ phase = "open"
    /\ out' = IF i < Len(elems) THEN elems[i + 1] ELSE None
    /\ UNCHANGED <<phase, elems>>

AtPastEnd(i) ==
    /\ phase = "broken" /\ i >= Len(elems)
    /\ out' = None
    /\ UNCHANGED <<phase, elems>>

Clear ==
    /\ phase # "dead"
    /\ elems' = << >>
    /\ out' = None
    /\ UNCHANGED phase

Close ==
    /\ phase \in {"raw", "open"}
    /\ phase' = "raw" /\ elems' = << >> /\ out' = None

(* Not opened, or broken, or popping what is or becomes empty. *)
Die ==
    /\ phase \in {"raw", "broken"} \/ (phase = "open" /\ Len(elems) <= 1)
    /\ phase' = "dead"
    /\ UNCHANGED <<elems, out>>

Next ==
    \/ Open \/ Pop \/ Clear \/ Close \/ Die
    \/ \E v \in Elems : Push(v)
    \/ \E i \in 0 .. MaxSize : At(i) \/ AtPastEnd(i)

Spec == Init /\ [][Next]_vars
=============================================================================
