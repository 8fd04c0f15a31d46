------------------------------ MODULE Grammar ------------------------------
(***************************************************************************)
(* The language of src/README.md ("Grammar") read backwards: the text of a *)
(* syntax tree.  The model checker compares the trees the syntax analyzer  *)
(* builds with the trees the texts come from; nothing here is part of the  *)
(* program.  Where README.md is incomplete the code decides: OP_POWER's     *)
(* operands are OP_SQRT's, OP_SQRT ends in PRIMARY, and ramset takes two   *)
(* expressions.  The code also decides where README.md says something else *)
(* of the tree: lists nest to the left and not to the right (README.md:61, *)
(* 67), and a return has one child and not two (69).                       *)
(*                                                                         *)
(* A tree is Nil or <<token, left, right>>.                                *)
(***************************************************************************)
EXTENDS Integers, Sequences

Nil == << >>
Leaf(tok) == <<tok, Nil, Nil>>

(* The binary operators, the loosest first. *)
Precedence ==
    << {"|"}, {"&"}, {"==", "!="}, {"<", ">", "<=", ">="},
       {"+", "-"}, {"*", "/"}, {"^"} >>
BinaryOperators == UNION {Precedence[k] : k \in 1..7}

SqrtLevel == 8
PrimaryLevel == 9

LevelOf(tree) ==
    IF tree[1] = "@" THEN SqrtLevel
    ELSE IF tree[1] \in BinaryOperators
         THEN CHOOSE k \in 1..7 : tree[1] \in Precedence[k]
         ELSE PrimaryLevel

(* The shapes an expression and a list are built from. *)
Binary(op, a, b) == <<op, a, b>>
Sqrt(a) == <<"@", a, Nil>>
CallOf(f, args) == <<"call", Leaf(f), args>>

RECURSIVE ListOf(_)
ListOf(items) ==     \* "," nodes, as the code nests them: to the left
    IF items = << >> THEN Nil
    ELSE IF Len(items) = 1 THEN items[1]
    ELSE <<",", ListOf(SubSeq(items, 1, Len(items) - 1)), items[Len(items)]>>

RECURSIVE BlockOf(_)
BlockOf(statements) ==
    IF statements = << >> THEN Nil
    ELSE <<";", Head(statements), BlockOf(Tail(statements))>>

RECURSIVE ProgramOf(_)
ProgramOf(functions) ==
    IF Len(functions) = 1 THEN functions[1]
    ELSE <<"{", ProgramOf(SubSeq(functions, 1, Len(functions) - 1)),
                functions[Len(functions)]>>

Assign(name, e) == <<"=", Leaf(name), e>>
FunctionOf(name, params, block) == <<name, ListOf(params), block>>

-----------------------------------------------------------------------------
(* Expressions, where the grammar asks for level k: parentheses around      *)
(* whatever binds more loosely.                                            *)
RECURSIVE ExprText(_, _)
ExprText(e, k) ==
    LET level == LevelOf(e)
    IN  IF e = Nil THEN << >>
        ELSE IF level < k THEN <<"(">> \o ExprText(e, 1) \o <<")">>
        ELSE IF e[1] = "," THEN ExprText(e[2], 1) \o <<",">> \o ExprText(e[3], 1)
        ELSE IF e[1] = "call" THEN <<e[2][1], "(">> \o ExprText(e[3], 1) \o <<")">>
        ELSE IF e[1] = "@" THEN <<"@">> \o ExprText(e[2], SqrtLevel)
        ELSE IF level < SqrtLevel
             THEN ExprText(e[2], level) \o <<e[1]>> \o ExprText(e[3], level + 1)
             ELSE <<e[1]>>

RECURSIVE BlockText(_), StatementsText(_), StatementText(_)
BlockText(block) == <<"{">> \o StatementsText(block) \o <<"}">>

StatementsText(block) ==
    IF block = Nil THEN << >>
    ELSE StatementText(block[2]) \o StatementsText(block[3])

StatementText(s) ==
    CASE s[1] = "while" -> <<"while">> \o ExprText(s[2], 1) \o BlockText(s[3])
      [] s[1] = "if" /\ s[3][1] # "else" ->
            <<"if">> \o ExprText(s[2], 1) \o BlockText(s[3])
      [] s[1] = "if" /\ s[3][1] = "else" ->
            <<"if">> \o ExprText(s[2], 1) \o BlockText(s[3][2])
                     \o <<"else">> \o BlockText(s[3][3])
      [] s[1] \in {"in", "out", "return"} ->
            <<s[1]>> \o ExprText(s[2], 1) \o <<";">>
      [] s[1] = "=" -> ExprText(s[2], 1) \o <<"=">> \o ExprText(s[3], 1) \o <<";">>
      [] s[1] = "ramset" ->
            <<"ramset">> \o ExprText(s[2], 1) \o <<",">> \o ExprText(s[3], 1) \o <<";">>

RECURSIVE FunctionsText(_)
FunctionsText(p) ==
    IF p[1] = "{" THEN FunctionsText(p[2]) \o FunctionsText(p[3])
    ELSE <<"defun", p[1], "(">> \o ExprText(p[2], 1) \o <<")">> \o BlockText(p[3])

ProgramText(p) == FunctionsText(p) \o <<"EOF">>
=============================================================================
