----------------------------- MODULE Translator -----------------------------
(***************************************************************************)
(* What src/src/backend/translator.cpp writes for a syntax tree.           *)
(*                                                                         *)
(* The tree (nodes, envs, root) is the one fread_infix has made and does   *)
(* not change.  What an emit_ function does for a node is a sequence of    *)
(* items: instructions it writes, and Emit(v) where it calls emit_node_ on *)
(* the node v.  What the active functions still have to do, the innermost  *)
(* first, is the sequence pending.  Spaces and empty lines are left out.   *)
(***************************************************************************)
EXTENDS SymbolTable

CONSTANTS Names,   \* the identifiers
          Value    \* of a numeric literal, a function from their texts

VARIABLES nodes, envs, root,   \* tr->astree
          asm,                 \* the file, as the instructions written
          pending,             \* what is still to be done
          label_id,            \* tr->label_id
          emitted              \* "no", "all", or "aborted"

NULL == 0

-----------------------------------------------------------------------------
(* Instructions, of one shape.  A label is its first word, a name and a     *)
(* number; an address is a register and an offset; only a call of an emit_ *)
(* function has a node.                                                    *)
NoLabel == <<"", "", 0>>
Ins(op) == [op |-> op, reg |-> "", n |-> 0, label |-> NoLabel, node |-> NULL]

Push(n) == [Ins("PUSH") EXCEPT !.n = n]
PushR(reg) == [Ins("PUSHR") EXCEPT !.reg = reg]
PopR(reg) == [Ins("POPR") EXCEPT !.reg = reg]
PushM(reg, n) == [Ins("PUSHM") EXCEPT !.reg = reg, !.n = n]
PopM(reg, n) == [Ins("POPM") EXCEPT !.reg = reg, !.n = n]
Jump(op, label) == [Ins(op) EXCEPT !.label = label]
Place(label) == [Ins("label") EXCEPT !.label = label]

(* Mutant: a missing operand counts as 0.                                  *)
EmitPresent(v) == IF v = 0 THEN Push(0) ELSE [Ins("emit") EXCEPT !.node = v]

(* Not instructions: a call of emit_node_, and what is left of the loop of  *)
(* emit_call_ over the arguments, the next of which goes to the cell.      *)
Emit(v) == [Ins("emit") EXCEPT !.node = v]
Arguments(v, cell) == [Ins("arguments") EXCEPT !.node = v, !.n = cell]

Numbered(what, lid) == <<what, "", lid>>
Branch(what, cmd, lid) == <<what, cmd, lid>>

(* Mutant: nothing is written to the buffer.                               *)
FuncNameless(str) == <<"func", "", 0>>

(* get_func_name_ *)
FuncName(str) == <<"func", str, 0>>

-----------------------------------------------------------------------------
(* The cells of a function: all its symbols but the first, its own name.   *)
FrameSize(env) == Len(env) - 1

(* The cell of the symbol id, as it is addressed from SP: [SP-(id-1)]. *)
Offset(id) == 1 - id

Arithmetic == [tok \in {"+", "-", "*", "/", "^"} |->
    CASE tok = "+" -> "ADD" [] tok = "-" -> "SUB" [] tok = "*" -> "MUL"
      [] tok = "/" -> "DIV" [] tok = "^" -> "POW"]

Comparisons == [tok \in {"==", "!=", ">", "<", ">=", "<="} |->
    CASE tok = "==" -> "JE" [] tok = "!=" -> "JNE" [] tok = ">" -> "JA"
      [] tok = "<" -> "JB" [] tok = ">=" -> "JAE" [] tok = "<=" -> "JBE"]

Operators == DOMAIN Arithmetic \cup DOMAIN Comparisons \cup {"|", "&", "=", "@"}
Keywords == {"while", "if", "else", "defun", "return", "in", "out", "ramset"}
Separators == {"(", ")", ",", ";", "{", "}"}

(* emit_comparasion_operator_ *)
Comparison(node, cmd, lid) ==
    << Emit(node.left), Emit(node.right), Ins("SUB"), Push(0),
       Jump(cmd, Branch("true", cmd, lid)),
       Push(0), Jump("JMP", Branch("false", cmd, lid)),
       Place(Branch("true", cmd, lid)),
       Push(1),
       Place(Branch("false", cmd, lid)) >>

(* Mutant: nothing is pushed to compare the condition with.                *)
WhileUncompared(node, lid) ==
    << Place(Numbered("beginwhile", lid)),
       Emit(node.left), Jump("JE", Numbered("endwhile", lid)),
       Emit(node.right),
       Jump("JMP", Numbered("beginwhile", lid)),
       Place(Numbered("endwhile", lid)) >>

(* emit_while_ *)
While(node, lid) ==
    << Place(Numbered("beginwhile", lid)),
       Emit(node.left), Push(0), Jump("JE", Numbered("endwhile", lid)),
       Emit(node.right),
       Jump("JMP", Numbered("beginwhile", lid)),
       Place(Numbered("endwhile", lid)) >>

(* emit_if_: an else-part comes with its if-part, a missing body is        *)
(* dereferenced.                                                           *)
If(node, lid) ==
    IF node.right = NULL THEN << Emit(node.left), Push(0), Emit(NULL) >>
    ELSE IF nodes[node.right].tok = "else"
    THEN << Emit(node.left), Push(0), Jump("JE", Numbered("else", lid)),
            Emit(nodes[node.right].left),
            Jump("JMP", Numbered("endif", lid)),
            Place(Numbered("else", lid)),
            Emit(nodes[node.right].right),
            Place(Numbered("endif", lid)) >>
    ELSE << Emit(node.left), Push(0), Jump("JE", Numbered("endif", lid)),
            Emit(node.right),
            Place(Numbered("endif", lid)) >>

(* Mutant: SP is left where it is.                                         *)
ReturnBare(node) == << Emit(node.left), PopR("A0"), Ins("RET") >>

(* emit_return_: the token of a return has scope 0, and so environment 0   *)
(* gives the size of the frame.                                            *)
Return(node) ==
    << Emit(node.left), PopR("A0"),
       PushR("SP"), Push(FrameSize(envs[node.scope + 1])), Ins("SUB"), PopR("SP"),
       Ins("RET") >>

(* Mutant: the frame is taken from the other side of SP.                   *)
FunctionSubtracts(node) ==
    << Place(FuncName(node.tok)),
       PushR("SP"), Push(FrameSize(envs[node.scope + 1])), Ins("SUB"), PopR("SP"),
       Emit(node.right) >>

(* emit_function_: the parameters are not emitted.                         *)
Function_(node) ==
    << Place(FuncName(node.tok)),
       Push(FrameSize(envs[node.scope + 1])), PushR("SP"), Ins("ADD"), PopR("SP"),
       Emit(node.right) >>

(* emit_variable_, emit_assignment_ and emit_in_, which dereferences a name *)
(* that is missing.                                                        *)
Variable_(node) == << PushM("SP", Offset(node.inner)) >>
Assignment(node) == << Emit(node.right), PopM("SP", Offset(nodes[node.left].inner)) >>
In(node) ==
    << Ins("IN"),
       IF node.left = NULL THEN Emit(NULL) ELSE PopM("SP", Offset(nodes[node.left].inner)) >>

(* emit_identifier_ *)
Identifier(node) ==
    IF SymbolAt(envs[node.scope + 1], node.inner).type = "FUNC"
    THEN Function_(node)
    ELSE Variable_(node)

RAM_STACK_SIZE == 20

(* emit_ramset_ *)
Ramset(node) ==
    <<Emit(node.left), PopR("T0"), Emit(node.right), PopM("T0", RAM_STACK_SIZE)>>

(* Mutant: argcnt is not counted.                                          *)
ArgumentTextUncounted(v, cell) ==
    IF v = NULL THEN << >>
    ELSE IF nodes[v].tok \in Separators
    THEN << Emit(nodes[v].right), PopM("SP", cell), Arguments(nodes[v].left, cell) >>
    ELSE << Emit(v), PopM("SP", cell) >>

(* A turn of the loop of emit_call_: the arguments are a list that nests    *)
(* to the left, so that the last one comes first.                          *)
ArgumentText(v, cell) ==
    IF v = NULL THEN << >>
    ELSE IF nodes[v].tok \in Separators
    THEN << Emit(nodes[v].right), PopM("SP", cell), Arguments(nodes[v].left, cell - 1) >>
    ELSE << Emit(v), PopM("SP", cell) >>

(* emit_call_: the scope of the node is 0, as a return's.                  *)
Call(node) ==
    << Arguments(node.right, FrameSize(envs[node.scope + 1])),
       Jump("CALL", FuncName(nodes[node.left].tok)), PushR("A0") >>

-----------------------------------------------------------------------------
Present(v, w) ==
    IF v = NULL THEN (IF w = NULL THEN << >> ELSE <<Emit(w)>>)
    ELSE (IF w = NULL THEN <<Emit(v)>> ELSE <<Emit(v), Emit(w)>>)

(* emit_operator_: | and & leave nothing.                                  *)
OperatorText(node) ==
    CASE node.tok \in DOMAIN Arithmetic ->
            <<Emit(node.left), Emit(node.right), Ins(Arithmetic[node.tok])>>
      [] node.tok \in DOMAIN Comparisons ->
            Comparison(node, Comparisons[node.tok], label_id)
      [] node.tok = "=" -> Assignment(node)
      [] node.tok = "@" -> <<Emit(node.left), Ins("SQR")>>
      [] OTHER -> << >>

(* emit_keyword_: defun and an else by itself leave nothing.               *)
KeywordText(node) ==
    CASE node.tok = "while" -> While(node, label_id)
      [] node.tok = "if" -> If(node, label_id)
      [] node.tok = "return" -> Return(node)
      [] node.tok = "in" -> In(node)
      [] node.tok = "out" -> <<Emit(node.left), Ins("OUT")>>
      [] node.tok = "ramset" -> Ramset(node)
      [] OTHER -> << >>

(* emit_node_: the text of the node v.                                     *)
Text(v) ==
    LET node == nodes[v]
    IN  CASE node.tok \in Separators -> Present(node.left, node.right)
          [] node.tok \in Names -> Identifier(node)
          [] node.tok \in DOMAIN Value -> <<Push(Value[node.tok])>>
          [] node.tok = "call" -> Call(node)
          [] node.tok \in Operators -> OperatorText(node)
          [] node.tok \in Keywords -> KeywordText(node)
          [] OTHER -> << >>

Labelled == DOMAIN Comparisons \cup {"while", "if"}

(* Mutant: label_id stays what it is.                                      *)
NextLabelIdSame(tok) == label_id

(* get_new_label_id_: tr->label_id after a node has had its label. *)
NextLabelId(tok) == IF tok \in Labelled THEN label_id + 1 ELSE label_id

-----------------------------------------------------------------------------
Tree == <<nodes, envs, root>>
vars == <<Tree, asm, pending, label_id, emitted>>
Translating == emitted = "no" /\ pending # << >>
Calls(item) == item.op \in {"emit", "arguments"}

(* What emit_program writes itself, and its call of emit_node_. *)
Prologue ==
    << Jump("CALL", FuncName("main")), PushR("A0"), Ins("DRAW"), Ins("HLT"), Emit(root) >>

Init == asm = << >> /\ pending = << >> /\ label_id = 0 /\ emitted = "no"

EmitProgram ==
    /\ emitted = "no" /\ asm = << >> /\ pending = << >>
    /\ pending' = Prologue
    /\ UNCHANGED <<Tree, asm, label_id, emitted>>

EmitNode ==
    /\ Translating /\ Head(pending).op = "emit" /\ Head(pending).node # NULL
    /\ LET v == Head(pending).node IN
        /\ pending' = Text(v) \o Tail(pending)
        /\ label_id' = NextLabelId(nodes[v].tok)
    /\ UNCHANGED <<Tree, asm, emitted>>

EmitArgument ==
    /\ Translating /\ Head(pending).op = "arguments"
    /\ pending' = ArgumentText(Head(pending).node, Head(pending).n) \o Tail(pending)
    /\ UNCHANGED <<Tree, asm, label_id, emitted>>

WriteInstruction ==
    /\ Translating /\ ~Calls(Head(pending))
    /\ asm' = Append(asm, Head(pending))
    /\ pending' = Tail(pending)
    /\ UNCHANGED <<Tree, label_id, emitted>>

(* emit_node_ asserts that there is a node; an if without a body and an in  *)
(* without a name, whose children are looked at first, end the process as  *)
(* well.                                                                   *)
AssertionFails ==
    /\ Translating /\ Head(pending) = Emit(NULL)
    /\ emitted' = "aborted"
    /\ UNCHANGED <<Tree, asm, pending, label_id>>

Close ==
    /\ emitted = "no" /\ asm # << >> /\ pending = << >>
    /\ emitted' = "all"
    /\ UNCHANGED <<Tree, asm, pending, label_id>>

Next ==
    \/ EmitProgram \/ EmitNode \/ EmitArgument \/ WriteInstruction
    \/ AssertionFails \/ Close

Spec == Init /\ [][Next]_vars

-----------------------------------------------------------------------------
(* Properties. *)

(* The labels that have a number of their own; the others name functions.  *)
IsNumbered(label) == label # NoLabel /\ label[1] # "func"

(* No place is labelled twice and every jump has a place to go to, however *)
(* loops, conditions and comparisons are nested in one another: they all   *)
(* take their numbers from one counter, before the code below them does.   *)
LabelsResolve ==
    emitted = "all" =>
        LET places == {i \in 1..Len(asm) : asm[i].op = "label" /\ IsNumbered(asm[i].label)}
        IN  /\ \A i, j \in places : asm[i].label = asm[j].label => i = j
            /\ \A i \in 1..Len(asm) : IsNumbered(asm[i].label) =>
                  \E j \in places : asm[j].label = asm[i].label
=============================================================================
