---------------------------- MODULE StackMachine ----------------------------
(***************************************************************************)
(* The stack machine the assembly is for.  It is not part of this          *)
(* repository: what an instruction does is read off the way translator.cpp *)
(* uses it.  Operators take the value pushed last as their right operand,  *)
(* conditional jumps compare two values in the same order, calls keep      *)
(* their return addresses apart from the operands, and the memory is zero  *)
(* at first.  A machine that cannot go on is in the state "fault".         *)
(*                                                                         *)
(* Besides its address an entry of returns keeps the stack pointer, the    *)
(* cells up to it and the height of the operand stack at the call.  The    *)
(* machine does not read them; they are history, for the properties.       *)
(***************************************************************************)
EXTENDS Integers, Sequences

CONSTANTS Memory,    \* a bound: the cells are 0 .. Memory - 1
          Typed      \* what a user may type

VARIABLES code,      \* the program
          pc,        \* the index of the instruction that comes next
          operands,  \* the operand stack
          returns,   \* the return stack
          ram, regs, \* the memory, and the registers SP, A0 and T0
          read,      \* what IN has read so far
          printed,   \* what OUT has printed so far
          power      \* "off", "on", "halted" or "fault"

Cells == 0 .. Memory - 1

Now == code[pc]
Height == Len(operands)
First == operands[Height - 1]
Second == operands[Height]
Under(k) == SubSeq(operands, 1, Height - k)
Address == regs[Now.reg] + Now.n
Targets == {i \in 1..Len(code) : code[i].op = "label" /\ code[i].label = Now.label}
Target == CHOOSE i \in Targets : TRUE

Binary == {"ADD", "SUB", "MUL", "DIV", "POW"}
Conditional == {"JE", "JNE", "JA", "JB", "JAE", "JBE"}

Arity(op) ==
    IF op \in Binary \cup Conditional THEN 2
    ELSE IF op \in {"POPR", "POPM", "SQR", "OUT"} THEN 1
    ELSE 0

(* What the next instruction needs is there. *)
Fits ==
    /\ pc \in 1..Len(code)
    /\ Height >= Arity(Now.op)
    /\ Now.op \in {"PUSHM", "POPM"} => Address \in Cells
    /\ Now.op \in Conditional \cup {"JMP", "CALL"} => Targets # {}
    /\ Now.op = "DIV" => Second # 0
    /\ Now.op = "POW" => Second >= 0
    /\ Now.op = "SQR" => Second >= 0
    /\ Now.op = "RET" => returns # << >>

At(ops) == power = "on" /\ Fits /\ Now.op \in ops

(* Truncation towards zero, as machines divide. *)
Quotient(a, b) ==
    LET magnitude(n) == IF n < 0 THEN -n ELSE n
        q == magnitude(a) \div magnitude(b)
    IN  IF (a < 0) = (b < 0) THEN q ELSE -q

Root(a) == CHOOSE r \in 0..a : r * r <= a /\ (r + 1) * (r + 1) > a

Computed(op, a, b) ==
    CASE op = "ADD" -> a + b [] op = "SUB" -> a - b [] op = "MUL" -> a * b
      [] op = "DIV" -> Quotient(a, b) [] op = "POW" -> a ^ b

Taken(op, a, b) ==
    CASE op = "JE" -> a = b [] op = "JNE" -> a # b [] op = "JA" -> a > b
      [] op = "JB" -> a < b [] op = "JAE" -> a >= b [] op = "JBE" -> a <= b

Continue(stack) ==
    /\ pc' = pc + 1
    /\ operands' = stack
    /\ UNCHANGED <<code, power>>

Silent == UNCHANGED <<read, printed>>
Storage == <<ram, regs>>

PUSH ==
    /\ At({"PUSH", "PUSHR", "PUSHM"})
    /\ LET value == CASE Now.op = "PUSH" -> Now.n
                      [] Now.op = "PUSHR" -> regs[Now.reg]
                      [] Now.op = "PUSHM" -> ram[Address]
       IN  Continue(Append(operands, value))
    /\ UNCHANGED <<returns, Storage>> /\ Silent

POPR ==
    /\ At({"POPR"})
    /\ regs' = [regs EXCEPT ![Now.reg] = Second]
    /\ Continue(Under(1))
    /\ UNCHANGED <<returns, ram>> /\ Silent

POPM ==
    /\ At({"POPM"})
    /\ ram' = [ram EXCEPT ![Address] = Second]
    /\ Continue(Under(1))
    /\ UNCHANGED <<returns, regs>> /\ Silent

Calculate ==
    /\ At(Binary \cup {"SQR"})
    /\ IF Now.op = "SQR"
       THEN Continue(Append(Under(1), Root(Second)))
       ELSE Continue(Append(Under(2), Computed(Now.op, First, Second)))
    /\ UNCHANGED <<returns, Storage>> /\ Silent

IN_ ==
    /\ At({"IN"})
    /\ \E n \in Typed : read' = Append(read, n) /\ Continue(Append(operands, n))
    /\ UNCHANGED <<returns, Storage, printed>>

OUT ==
    /\ At({"OUT"})
    /\ printed' = Append(printed, Second)
    /\ Continue(Under(1))
    /\ UNCHANGED <<returns, Storage, read>>

JUMP ==
    /\ At(Conditional \cup {"JMP"})
    /\ pc' = IF Now.op = "JMP" \/ Taken(Now.op, First, Second) THEN Target ELSE pc + 1
    /\ operands' = Under(Arity(Now.op))
    /\ UNCHANGED <<code, returns, Storage, power>> /\ Silent

CALL ==
    /\ At({"CALL"})
    /\ returns' = Append(returns,
                    [pc |-> pc + 1, sp |-> regs["SP"], height |-> Height,
                     cells |-> [a \in Cells \cap 0..regs["SP"] |-> ram[a]]])
    /\ pc' = Target
    /\ UNCHANGED <<code, operands, Storage, power>> /\ Silent

RET ==
    /\ At({"RET"})
    /\ pc' = returns[Len(returns)].pc
    /\ returns' = SubSeq(returns, 1, Len(returns) - 1)
    /\ UNCHANGED <<code, operands, Storage, power>> /\ Silent

(* DRAW shows the memory; a label is no instruction. *)
Skip ==
    /\ At({"DRAW", "label"})
    /\ Continue(operands)
    /\ UNCHANGED <<returns, Storage>> /\ Silent

HLT ==
    /\ At({"HLT"})
    /\ power' = "halted"
    /\ UNCHANGED <<code, pc, operands, returns, Storage>> /\ Silent

Fault ==
    /\ power = "on" /\ ~Fits
    /\ power' = "fault"
    /\ UNCHANGED <<code, pc, operands, returns, Storage>> /\ Silent

Init ==
    /\ code = << >> /\ pc = 1
    /\ operands = << >> /\ returns = << >>
    /\ ram = [a \in Cells |-> 0]
    /\ regs = [r \in {"SP", "A0", "T0"} |-> 0]
    /\ read = << >> /\ printed = << >>
    /\ power = "off"

(* The machine is started with a program. *)
Load(program) ==
    /\ power = "off"
    /\ code' = program /\ power' = "on"
    /\ UNCHANGED <<pc, operands, returns, Storage>> /\ Silent

Step ==
    \/ PUSH \/ POPR \/ POPM \/ Calculate \/ IN_ \/ OUT
    \/ JUMP \/ CALL \/ RET \/ Skip \/ HLT \/ Fault

(* The stack pointer stays in the memory, and every call left something to  *)
(* return to.                                                              *)
TypeOK ==
    /\ power \in {"off", "on", "halted", "fault"}
    /\ power = "on" => pc \in 1 .. Len(code) + 1
    /\ regs["SP"] \in Cells
    /\ \A i \in 1..Len(returns) : returns[i].pc \in 2 .. Len(code) + 1
=============================================================================
