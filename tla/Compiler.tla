------------------------------ MODULE Compiler ------------------------------
(***************************************************************************)
(* From a text to what its program does: the front end writes the tree,    *)
(* the back end reads it and emits assembly (backend_main.cpp; by default  *)
(* it reads the front end's file), and the machine runs it.                *)
(***************************************************************************)
EXTENDS TreeFile

CONSTANTS Value, Memory, Typed

VARIABLES asm, pending, label_id, emitted,
          code, pc, operands, returns, ram, regs, read, printed, power

Asm == INSTANCE Translator WITH nodes <- r_nodes, envs <- r_envs, root <- r_root
Machine == INSTANCE StackMachine

translatorVars == <<asm, pending, label_id, emitted>>
machineVars == <<code, pc, operands, returns, ram, regs, read, printed, power>>
compilerVars == <<allVars, translatorVars, machineVars>>

CompilerInit == TreeInit /\ Asm!Init /\ Machine!Init

FrontEnd == Analyze /\ UNCHANGED <<translatorVars, machineVars>>

(* The file is whole here; TreeFile is about files that are not. *)
WriteWhole ==
    /\ WriteTree
    /\ file' = File!NodeText(nodes, envs)[nodes[root].left]
    /\ UNCHANGED <<translatorVars, machineVars>>

ReadBack == ReadTree /\ UNCHANGED <<translatorVars, machineVars>>

Reader == <<r_nodes, r_to_delete, r_freed, r_root, r_envs, r_current_env_id>>

Translate ==
    /\ outcome = "read" /\ Asm!Next
    /\ UNCHANGED <<vars, file, buf_pos, calls, outcome, Reader, machineVars>>

(* What an assertion has cut short is not run. *)
Start == emitted = "all" /\ Machine!Load(asm) /\ UNCHANGED <<allVars, translatorVars>>

Execute == Machine!Step /\ UNCHANGED <<allVars, translatorVars>>

CompilerNext == FrontEnd \/ WriteWhole \/ ReadBack \/ Translate \/ Start \/ Execute

CompilerSpec == CompilerInit /\ [][CompilerNext]_compilerVars /\ WF_compilerVars(CompilerNext)

-----------------------------------------------------------------------------
(* Properties. *)

(* The machine never leaves its program or its memory for the stack pointer.*)
MachineTypeOK == Machine!TypeOK

(* No place is labelled twice and every jump has a place to go to, however *)
(* loops, conditions and comparisons are nested.                           *)
LabelsResolve == power = "off" => Asm!LabelsResolve

(* Every function that is called is there, once, under the name that the   *)
(* call gives it: the reader has kept the names, and the translator comes  *)
(* to each declaration.                                                    *)
CallsResolve ==
    emitted = "all" /\ power = "off" =>
        LET places == {i \in 1..Len(asm) : asm[i].op = "label"}
            functions == {i \in places : ~Asm!IsNumbered(asm[i].label)}
        IN  /\ \A i, j \in functions : asm[i].label = asm[j].label => i = j
            /\ \A i \in 1..Len(asm) : asm[i].op = "CALL" =>
                  \E j \in functions : asm[j].label = asm[i].label

(* Every frame has the size of the first function's, so that a function of *)
(* more variables reaches below its own, this far at most.                 *)
Overshoot ==
    Max({Asm!FrameSize(r_envs[i]) : i \in 1..Len(r_envs)}) - Asm!FrameSize(r_envs[1])

(* A | or a & has no instructions, and what comes after one finds no value *)
(* or another one's.                                                       *)
OperatorsEmitted == \A v \in 1..Len(r_nodes) : r_nodes[v].tok \notin {"|", "&"}

(* A function that returns has put back the stack pointer, has taken from  *)
(* the operand stack what it has put there, and has left every cell of the *)
(* functions that wait for it as it was, but for those a function of more  *)
(* variables than the first one reaches below its own: however deep the    *)
(* recursion, these never get more.  (Of programs without | and &.)        *)
CallerUndisturbed == [][
    OperatorsEmitted /\ Len(returns') < Len(returns) =>
        LET call == returns[Len(returns)] IN
        /\ regs'["SP"] = call.sp
        /\ Len(operands') = call.height
        /\ \A a \in DOMAIN call.cells :
              a <= call.sp - Overshoot => ram'[a] = call.cells[a] ]_<<returns, regs, operands, ram>>

(* A program that is run comes to an end: the machine is never without an  *)
(* operand, a cell or a place to go to, and no loop is entered or kept for *)
(* good.  Only a division by zero, or a | or a &, stops it before.         *)
Halts == power = "on" ~>
    power = "halted" \/ (power = "fault" /\ (Machine!Now.op = "DIV" \/ ~OperatorsEmitted))

(* The children without which a node has no translation. *)
Needed(tok) ==
    CASE tok \in DOMAIN Asm!Arithmetic \cup DOMAIN Asm!Comparisons \cup {"else"} -> {"left", "right"}
      [] tok \in {"@", "in"} -> {"left"}
      [] tok \in {"if", ","} -> {"right"}
      [] OTHER -> {}

(* What is below a | or a &, which the translator passes over. *)
PassedOver ==
    LET below[v \in 0..Len(r_nodes)] == \E p \in 1 .. v - 1 :
            /\ v \in {r_nodes[p].left, r_nodes[p].right}
            /\ r_nodes[p].tok \in {"|", "&"} \/ below[p]
    IN  {v \in 1..Len(r_nodes) : below[v]}

(* The front end accepts operators without operands, an if without a body, *)
(* an in without a name and a list of arguments that ends in a comma.      *)
(* Nobody looks for these before half of the assembly is written.  The     *)
(* translator comes to every one of them that is not below a | or a &, and *)
(* then what it has written is never taken for a program; and nothing else *)
(* stops it.                                                               *)
GapsStop ==
    emitted # "no" =>
        (emitted = "aborted" <=>
            \E v \in (1..Len(r_nodes)) \ PassedOver :
                \E side \in Needed(r_nodes[v].tok) : r_nodes[v][side] = NULL)
=============================================================================
