--------------------------- MODULE SyntaxAnalyzer ---------------------------
(***************************************************************************)
(* The recursive descent of src/src/frontend/syntax_analyzer.cpp.          *)
(*                                                                         *)
(* The C++ functions call one another; the model makes their call stack a  *)
(* variable.  A frame is one activation: where it stands (at) and its      *)
(* locals.  One step runs a function from its entry, or from the return of *)
(* the function it called, up to its next call or its own return.  Leaving *)
(* pos where a failed attempt moved it, and the order in which statements  *)
(* are attempted, are therefore the code's own.                            *)
(*                                                                         *)
(* Nodes are numbered in the order of their allocation and a number is not *)
(* used again after free(), as under the address sanitizer this program is *)
(* built with; allocation succeeds.  Parent pointers are left out: nothing *)
(* in the front end reads them.  Token texts stand for the tokens.         *)
(***************************************************************************)
EXTENDS SymbolTable

CONSTANTS Names,    \* the identifiers
          Nums,     \* the numeric literals
          Inputs    \* the token sequences the lexer may hand over

VARIABLES tokens,          \* lex->tokens
          pos,             \* analyzer->pos, counted from 0
          stack,           \* the activations, the running one last
          ret,             \* what the last callee returned to the running one
          nodes,           \* every node allocated so far
          to_delete,       \* analyzer->to_delete
          freed,           \* the nodes given to free()
          envs,            \* astree->envs
          current_env_id,  \* astree->current_env_id, NoEnv while current_env is NULL
          logged,          \* has LOG_SYNTAX_ERR_ been used?
          root,            \* astree->root
          status           \* of the run

heap == <<nodes, to_delete, freed>>
tables == <<envs, current_env_id>>
vars == <<tokens, pos, stack, ret, heap, tables, logged, root, status>>

NULL == 0
NoEnv == -1
Terminator == "EOF"

(* The operators of get_or_ (1) down to get_pow_ (7).  get_argument_list_   *)
(* is the same loop, over commas, one level above them (0).                *)
Levels == [k \in 0..7 |->
    CASE k = 0 -> {","}
      [] k = 1 -> {"|"}
      [] k = 2 -> {"&"}
      [] k = 3 -> {"==", "!="}
      [] k = 4 -> {"<", ">", "<=", ">="}
      [] k = 5 -> {"+", "-"}
      [] k = 6 -> {"*", "/"}
      [] k = 7 -> {"^"}]

Keywords == {"while", "if", "else", "defun", "return", "in", "out", "ramset"}
Separators == {"(", ")", ",", ";", "{", "}"}
BinaryOperators == UNION {Levels[k] : k \in 1..7}
Tokens == Names \cup Nums \cup Keywords \cup Separators \cup BinaryOperators
            \cup {"=", "@", Terminator}

(* The texts that stand for the other tokens, those of nodes included: an   *)
(* identifier or a number that is spelt like one of them has another name. *)
Reserved == Keywords \cup Separators \cup BinaryOperators
              \cup {"=", "@", Terminator, "call", "FAKE"}

ASSUME InputsAssumption ==
    /\ (Names \cup Nums) \cap Reserved = {}
    /\ Names \cap Nums = {}
    /\ Inputs \subseteq Seq(Tokens)
    /\ \A input \in Inputs : Len(input) > 0 /\ input[Len(input)] = Terminator

(* The node tokens that are not input tokens: TYPE_CALL and TYPE_FAKE.     *)
NodeTokens == Tokens \cup {"call", "FAKE"}

(* A token copied from the input, or built in the code, has both ids 0.    *)
Node(tok, left, right) ==
    [tok |-> tok, left |-> left, right |-> right, scope |-> 0, inner |-> 0]

-----------------------------------------------------------------------------
(* Activations.  l and r are the function's local node pointers, tok the   *)
(* operator it has just seen, n a number it keeps: the level of an         *)
(* operator, the statement being attempted, a saved pos, an environment id.*)
Frame(at) == [at |-> at, l |-> NULL, r |-> NULL, tok |-> Terminator, n |-> 0]

Operator(k) == [Frame("operator") EXCEPT !.n = k]
Operand(k) == IF k = 7 THEN Frame("sqrt") ELSE Operator(k + 1)
Expr == Operator(1)
ArgumentList == Operator(0)
Identifier == Frame("identifier")
Block == Frame("block")
Sentence == Frame("statement")

(* What get_statement_ attempts, in its order.                             *)
Alternatives ==
    << Frame("while"), Frame("if"), Frame("return"), Frame("assignment"),
       Frame("in"), Frame("out"), Frame("ramset"), Expr >>

Top == stack[Len(stack)]
Callers == SubSeq(stack, 1, Len(stack) - 1)
Cur == tokens[pos + 1]

Running == status = "running" /\ stack # << >>

(* Every function begins with SYNTAX_ANANLYZER_ASSERT_OK_ and every        *)
(* function that goes on after a call reads the current token.             *)
At(label) == Running /\ pos < Len(tokens) /\ Top.at = label

(* The running function continues as f after callee has returned. *)
Goto(f, callee, p) ==
    /\ stack' = Callers \o <<f, callee>>
    /\ pos' = p
    /\ ret' = NULL
    /\ UNCHANGED <<tokens, status, root>>

Call(at, callee, p) == Goto([Top EXCEPT !.at = at], callee, p)

Return(v, p) ==
    /\ stack' = Callers
    /\ pos' = p
    /\ ret' = v
    /\ UNCHANGED <<tokens, status, root>>

Quiet == UNCHANGED <<heap, tables, logged>>

(* LOG_SYNTAX_ERR_(...); return NULL *)
FailAt(p) == Return(NULL, p) /\ logged' = TRUE /\ UNCHANGED <<heap, tables>>
Fail == FailAt(pos)

(* A NULL pointer is dereferenced or an assertion fails: the process ends. *)
Abort ==
    /\ status' = "aborted"
    /\ UNCHANGED <<tokens, pos, stack, ret, heap, tables, logged, root>>

(* Mutant: the node does not join to_delete.                               *)
NewNodeUntracked(ns, tok, left, right) ==
    /\ nodes' = Append(ns, Node(tok, left, right))
    /\ UNCHANGED <<to_delete, freed, tables, logged>>

(* new_node: node tok(left, right) joins the nodes, which are otherwise ns. *)
NewNode(ns, tok, left, right) ==
    /\ nodes' = Append(ns, Node(tok, left, right))
    /\ to_delete' = Append(to_delete, Len(nodes) + 1)
    /\ UNCHANGED <<freed, tables, logged>>

ReturnNode(tok, left, right, p) ==
    NewNode(nodes, tok, left, right) /\ Return(Len(nodes) + 1, p)

(* The identifier node v, with the ids of symbol id of environment e. *)
Bind(v, e, id) == [nodes EXCEPT ![v].scope = e, ![v].inner = id]

Env == envs[current_env_id + 1]
AddToEnv(sym) == envs' = [envs EXCEPT ![current_env_id + 1] = AddSymbol(@, sym)]

(* The three ways in which most functions begin and go on. *)
Leads(label, token, next, callee) ==
    /\ At(label)
    /\ \/ Cur = token /\ Call(next, callee, pos + 1)
       \/ Cur # token /\ Return(NULL, pos)
    /\ Quiet

Then(label, next, callee) ==
    /\ At(label)
    /\ \/ ret = NULL /\ Fail
       \/ ret # NULL /\ Goto([Top EXCEPT !.at = next, !.l = ret], callee, pos) /\ Quiet

Yields(label, tok) ==
    /\ At(label)
    /\ \/ ret = NULL /\ Fail
       \/ ret # NULL /\ ReturnNode(tok, ret, NULL, pos)
-----------------------------------------------------------------------------
(* get_general_, and perform_recursive_descent around it. *)
GetGeneral == At("general") /\ Call("general_end", Frame("program"), pos) /\ Quiet

(* The whole input is a program: a FAKE node becomes the root.  It is not   *)
(* made by new_node and does not join to_delete.                           *)
Accept ==
    /\ At("general_end")
    /\ Cur = Terminator /\ ret # NULL
    /\ nodes' = Append(nodes, Node("FAKE", ret, NULL))
    /\ root' = Len(nodes) + 1
    /\ status' = "accepted"
    /\ stack' = Callers /\ ret' = NULL
    /\ UNCHANGED <<tokens, pos, to_delete, freed, tables, logged>>

(* Every node in to_delete is freed; one that is freed already ends the     *)
(* process there.                                                          *)
FreedTwice == \E i, j \in 1..Len(to_delete) :
    \/ to_delete[i] \in freed
    \/ i # j /\ to_delete[i] = to_delete[j]

Reject ==
    /\ At("general_end")
    /\ Cur # Terminator \/ ret = NULL
    /\ logged' = (logged \/ Cur # Terminator)
    /\ freed' = freed \cup {to_delete[i] : i \in 1..Len(to_delete)}
    /\ status' = IF FreedTwice THEN "aborted" ELSE "rejected"
    /\ stack' = Callers /\ ret' = NULL
    /\ UNCHANGED <<tokens, pos, nodes, to_delete, tables, root>>

(* get_program_: declarations until one fails, joined by "{" nodes. *)
GetProgram ==
    At("program") /\ Call("program_first", Frame("func_decl"), pos) /\ Quiet

ProgramFirst ==
    /\ At("program_first")
    /\ \/ ret = NULL /\ Return(NULL, pos)
       \/ /\ ret # NULL
          /\ Goto([Top EXCEPT !.at = "program_next", !.l = ret], Frame("func_decl"), pos)
    /\ Quiet

ProgramNext ==
    /\ At("program_next")
    /\ \/ ret = NULL /\ Return(Top.l, pos) /\ Quiet
       \/ /\ ret # NULL
          /\ NewNode(nodes, "{", Top.l, ret)
          /\ Goto([Top EXCEPT !.l = Len(nodes) + 1], Frame("func_decl"), pos)

(* get_func_decl_ *)
GetFuncDecl == Leads("func_decl", "defun", "func_decl_name", Identifier)

(* Mutant: the id is the new size of envs.                                 *)
AddEnviromentPastEnd == Len(envs) + 1

(* add_enviroment: the id of the environment about to join envs.           *)
AddEnviroment == Len(envs)

(* The name becomes symbol 0 of a new environment, the current one from    *)
(* here on, whether or not the declaration succeeds.                       *)
FuncSymbol(id) == Function(nodes[id].tok)

FuncDeclName ==
    /\ At("func_decl_name")
    /\ \/ ret = NULL /\ Fail
       \/ /\ ret # NULL
          /\ envs' = Append(envs, AddSymbol(CreateEnv, FuncSymbol(ret)))
          /\ current_env_id' = AddEnviroment
          /\ UNCHANGED heap
          /\ \/ /\ Cur = "("
                /\ Goto([Top EXCEPT !.at = "func_decl_params", !.l = ret, !.n = AddEnviroment],
                        Frame("parameter_list"), pos + 1)
                /\ UNCHANGED logged
             \/ Cur # "(" /\ Return(NULL, pos) /\ logged' = TRUE

FuncDeclParams ==
    /\ At("func_decl_params")
    /\ \/ Cur # ")" /\ Fail
       \/ /\ Cur = ")"
          /\ Goto([Top EXCEPT !.at = "func_decl_body", !.r = ret], Block, pos + 1)
          /\ Quiet

(* Mutant: the name keeps the ids get_identifier_ gave it.                 *)
FuncDeclBodyUnbound ==
    /\ At("func_decl_body")
    /\ \/ ret = NULL /\ Fail
       \/ /\ ret # NULL
          /\ nodes' = [nodes EXCEPT ![Top.l] = [@ EXCEPT !.left = Top.r, !.right = ret]]
          /\ Return(Top.l, pos)
          /\ UNCHANGED <<to_delete, freed, tables, logged>>

FuncDeclBody ==
    /\ At("func_decl_body")
    /\ \/ ret = NULL /\ Fail
       \/ /\ ret # NULL
          /\ nodes' = [nodes EXCEPT ![Top.l] =
                [@ EXCEPT !.scope = Top.n,
                          !.inner = AddedId(CreateEnv, FuncSymbol(Top.l)),
                          !.left = Top.r, !.right = ret]]
          /\ Return(Top.l, pos)
          /\ UNCHANGED <<to_delete, freed, tables, logged>>

(* get_parameter_list_: the parameter in ret is bound; a comma asks for     *)
(* another one, and dereferences what get_identifier_ answered.            *)
GetParameterList ==
    /\ At("parameter_list")
    /\ Call("parameter_list_first", Identifier, pos)
    /\ Quiet

Parameter == Variable(nodes[ret].tok)

ParameterListLoop(list) ==
    \/ /\ Cur = ","
       /\ Goto([Top EXCEPT !.at = "parameter_list_next", !.l = list],
               Identifier, pos + 1)
    \/ Cur # "," /\ Return(list, pos)

ParameterListFirst ==
    /\ At("parameter_list_first")
    /\ ParameterListLoop(ret)
    /\ IF ret = NULL
       THEN Quiet
       ELSE /\ AddToEnv(Parameter)
            /\ nodes' = Bind(ret, current_env_id, AddedId(Env, Parameter))
            /\ UNCHANGED <<to_delete, freed, current_env_id, logged>>

ParameterListNext ==
    /\ At("parameter_list_next")
    /\ \/ ret = NULL /\ Abort
       \/ /\ ret # NULL
          /\ AddToEnv(Parameter)
          /\ nodes' = Append(Bind(ret, current_env_id, AddedId(Env, Parameter)),
                             Node(",", Top.l, ret))
          /\ to_delete' = Append(to_delete, Len(nodes) + 1)
          /\ UNCHANGED <<freed, current_env_id, logged>>
          /\ ParameterListLoop(Len(nodes) + 1)

(* get_func_call_: an identifier that is not called is put back and freed. *)
(* It cannot answer NULL before "(": get_primary_ has taken a "(" itself.   *)
GetFuncCall ==
    /\ At("func_call")
    /\ Goto([Top EXCEPT !.at = "func_call_name", !.n = pos], Identifier, pos)
    /\ Quiet

(* Mutants: the freed identifier is returned; it is not freed.             *)
PutBackFreed ==
    /\ Return(ret, Top.n)
    /\ freed' = freed \cup ({ret} \ {NULL})
    /\ UNCHANGED <<nodes, to_delete, tables, logged>>
PutBackLeaking == Return(NULL, Top.n) /\ Quiet

PutBack ==
    /\ Return(NULL, Top.n)
    /\ freed' = freed \cup ({ret} \ {NULL})
    /\ UNCHANGED <<nodes, to_delete, tables, logged>>

(* Mutant: whether there is such a function is not asked.                  *)
FindEnviromentAlways(sym) == TRUE

(* find_enviroment: some environment up to the current one has the symbol. *)
FindEnviroment(sym) ==
    \E i \in 1 .. current_env_id + 1 : FindSymbol(envs[i], sym) # -1

FuncCallName ==
    /\ At("func_call_name")
    /\ \/ Cur # "(" /\ PutBack
       \/ Cur = "(" /\ ~FindEnviroment(FuncSymbol(ret)) /\ FailAt(pos + 1)
       \/ /\ Cur = "(" /\ FindEnviroment(FuncSymbol(ret))
          /\ Goto([Top EXCEPT !.at = "func_call_args", !.l = ret], ArgumentList, pos + 1)
          /\ Quiet

FuncCallArgs ==
    /\ At("func_call_args")
    /\ \/ Cur = ")" /\ ReturnNode("call", Top.l, ret, pos + 1)
       \/ Cur # ")" /\ Fail

-----------------------------------------------------------------------------
(* get_if_: the test after the body reads node_condition again, so a body  *)
(* that failed is kept as NULL.  get_else_ answers an ELSE node, which     *)
(* then takes the if-body as its left child.                               *)
GetIf == Leads("if", "if", "if_condition", Expr)
IfCondition == Then("if_condition", "if_body", Block)

IfBody ==
    /\ At("if_body")
    /\ Goto([Top EXCEPT !.at = "if_else", !.r = ret], Frame("else"), pos)
    /\ Quiet

(* Mutant: the condition, not the if-body, is hung on the ELSE node.       *)
IfElseCondition ==
    /\ At("if_else")
    /\ \/ ret = NULL /\ ReturnNode("if", Top.l, Top.r, pos)
       \/ /\ ret # NULL
          /\ NewNode([nodes EXCEPT ![ret].left = Top.l], "if", Top.l, ret)
          /\ Return(Len(nodes) + 1, pos)

IfElse ==
    /\ At("if_else")
    /\ \/ ret = NULL /\ ReturnNode("if", Top.l, Top.r, pos)
       \/ /\ ret # NULL
          /\ NewNode([nodes EXCEPT ![ret].left = Top.r], "if", Top.l, ret)
          /\ Return(Len(nodes) + 1, pos)

(* get_else_ *)
GetElse == Leads("else", "else", "else_body", Block)

ElseBody ==
    /\ At("else_body")
    /\ \/ ret = NULL /\ Fail
       \/ ret # NULL /\ ReturnNode("else", NULL, ret, pos)

(* get_while_ *)
GetWhile == Leads("while", "while", "while_condition", Expr)
WhileCondition == Then("while_condition", "while_body", Block)

WhileBody ==
    /\ At("while_body")
    /\ \/ ret = NULL /\ Fail
       \/ ret # NULL /\ ReturnNode("while", Top.l, ret, pos)

(* get_return_ *)
GetReturn == Leads("return", "return", "return_expr", Expr)
ReturnExpr == Yields("return_expr", "return")

(* get_block_: at least one statement, each hung on the right of the one    *)
(* before it; l is the first of them and r the last.                       *)
GetBlock == Leads("block", "{", "block_first", Sentence)

BlockLoop(first, last) ==
    \/ Cur = "}" /\ Return(first, pos + 1)
    \/ /\ Cur # "}"
       /\ Goto([Top EXCEPT !.at = "block_next", !.l = first, !.r = last],
               Sentence, pos)

BlockFirst ==
    /\ At("block_first")
    /\ \/ ret = NULL /\ Return(NULL, pos)
       \/ ret # NULL /\ BlockLoop(ret, ret)
    /\ Quiet

(* Mutant: the block goes on after a statement that failed.                *)
BlockNextUnchecked ==
    /\ At("block_next")
    /\ nodes' = [nodes EXCEPT ![Top.r].right = ret]
    /\ BlockLoop(Top.l, ret)
    /\ UNCHANGED <<to_delete, freed, tables, logged>>

BlockNext ==
    /\ At("block_next")
    /\ \/ ret = NULL /\ Fail
       \/ /\ ret # NULL
          /\ nodes' = [nodes EXCEPT ![Top.r].right = ret]
          /\ BlockLoop(Top.l, ret)
          /\ UNCHANGED <<to_delete, freed, tables, logged>>

(* get_statement_: the attempts in their order, each from wherever the one *)
(* before it left pos; then a semicolon, unless a while or an if was read. *)
GetStatement ==
    /\ At("statement")
    /\ Goto([Top EXCEPT !.at = "statement_next", !.n = 1], Alternatives[1], pos)
    /\ Quiet

SemicolNeeded == ~(ret # NULL /\ Top.n \in 1..2)

StatementNext ==
    /\ At("statement_next")
    /\ \/ /\ ret = NULL /\ Top.n < Len(Alternatives)
          /\ Goto([Top EXCEPT !.n = @ + 1], Alternatives[Top.n + 1], pos)
          /\ Quiet
       \/ /\ ret # NULL \/ Top.n = Len(Alternatives)
          /\ \/ ~SemicolNeeded /\ ReturnNode(";", ret, NULL, pos)
             \/ SemicolNeeded /\ Cur = ";" /\ ReturnNode(";", ret, NULL, pos + 1)
             \/ SemicolNeeded /\ Cur # ";" /\ Fail

(* get_assignment_: an identifier that no "=" follows stays consumed. *)
GetAssignment ==
    At("assignment") /\ Call("assignment_left", Identifier, pos) /\ Quiet

AssignmentLeft ==
    /\ At("assignment_left")
    /\ \/ Cur # "=" /\ Return(NULL, pos) /\ Quiet
       \/ Cur = "=" /\ ret = NULL /\ Fail
       \/ /\ Cur = "=" /\ ret # NULL
          /\ Goto([Top EXCEPT !.at = "assignment_right", !.l = ret], Expr, pos + 1)
          /\ Quiet

AssignmentRight ==
    LET sym == Variable(nodes[Top.l].tok) IN
    /\ At("assignment_right")
    /\ \/ ret = NULL /\ Fail
       \/ /\ ret # NULL
          /\ AddToEnv(sym)
          /\ nodes' = Append(Bind(Top.l, current_env_id, AddedId(Env, sym)),
                             Node("=", Top.l, ret))
          /\ to_delete' = Append(to_delete, Len(nodes) + 1)
          /\ UNCHANGED <<freed, current_env_id, logged>>
          /\ Return(Len(nodes) + 1, pos)

(* get_in_: the name is looked up through the node whether or not there is *)
(* one; find_symbol reads the name only when it meets a symbol of the type *)
(* asked for.  Its answer is never below -1.                               *)
GetIn == Leads("in", "in", "in_name", Identifier)

InName ==
    LET readsName == \E i \in 1..Len(Env) : Env[i].type = "VAR" IN
    /\ At("in_name")
    /\ \/ ret = NULL /\ readsName /\ Abort
       \/ (ret # NULL \/ ~readsName) /\ ReturnNode("in", ret, NULL, pos)

(* get_out_ *)
GetOut == Leads("out", "out", "out_expr", Expr)
OutExpr == Yields("out_expr", "out")

(* get_ramset_ *)
GetRamset == Leads("ramset", "ramset", "ramset_addr", Expr)

RamsetAddr ==
    /\ At("ramset_addr")
    /\ \/ (ret = NULL \/ Cur # ",") /\ Fail
       \/ /\ ret # NULL /\ Cur = ","
          /\ Goto([Top EXCEPT !.at = "ramset_value", !.l = ret], Expr, pos + 1)
          /\ Quiet

RamsetValue ==
    /\ At("ramset_value")
    /\ \/ ret = NULL /\ Fail
       \/ ret # NULL /\ ReturnNode("ramset", Top.l, ret, pos)

-----------------------------------------------------------------------------
(* OPERATOR_(...): left associative; neither operand need be there. *)
GetOperator ==
    /\ At("operator")
    /\ Goto([Top EXCEPT !.at = "operator_first"], Operand(Top.n), pos)
    /\ Quiet

(* Mutant: the right operand is read at the operator's own level.          *)
OperatorLoopRight(node) ==
    \/ /\ Cur \in Levels[Top.n]
       /\ Goto([Top EXCEPT !.at = "operator_next", !.l = node, !.tok = Cur],
               Operator(Top.n), pos + 1)
    \/ Cur \notin Levels[Top.n] /\ Return(node, pos)

OperatorLoop(node) ==
    \/ /\ Cur \in Levels[Top.n]
       /\ Goto([Top EXCEPT !.at = "operator_next", !.l = node, !.tok = Cur],
               Operand(Top.n), pos + 1)
    \/ Cur \notin Levels[Top.n] /\ Return(node, pos)

OperatorFirst == At("operator_first") /\ OperatorLoop(ret) /\ Quiet

OperatorNext ==
    /\ At("operator_next")
    /\ NewNode(nodes, Top.tok, Top.l, ret)
    /\ OperatorLoop(Len(nodes) + 1)

(* get_sqrt_: calls itself after "@", or returns what get_primary_ does. *)
GetSqrt ==
    /\ At("sqrt")
    /\ \/ Cur = "@" /\ Call("sqrt_operand", Frame("sqrt"), pos + 1)
       \/ /\ Cur # "@"
          /\ stack' = Callers \o <<Frame("primary")>>
          /\ UNCHANGED <<tokens, pos, ret, status, root>>
    /\ Quiet

SqrtOperand == At("sqrt_operand") /\ ReturnNode("@", ret, NULL, pos)

(* get_primary_: what follows a parenthesised expression is skipped, be it *)
(* ")" or not.                                                             *)
GetPrimary ==
    /\ At("primary")
    /\ \/ Cur = "(" /\ Call("primary_paren", Expr, pos + 1)
       \/ Cur # "(" /\ Call("primary_call", Frame("func_call"), pos)
    /\ Quiet

PrimaryParen == At("primary_paren") /\ Return(ret, pos + 1) /\ Quiet

PrimaryTry(label, next, callee) ==
    /\ At(label)
    /\ \/ ret # NULL /\ Return(ret, pos)
       \/ ret = NULL /\ Call(next, Frame(callee), pos)
    /\ Quiet

PrimaryCall == PrimaryTry("primary_call", "primary_num", "numeric_literal")
PrimaryNum == PrimaryTry("primary_num", "primary_id", "identifier")

PrimaryId ==
    LET id == FindSymbol(Env, Variable(nodes[ret].tok)) IN
    /\ At("primary_id")
    /\ \/ ret = NULL /\ Return(NULL, pos) /\ Quiet
       \/ /\ ret # NULL
          /\ UNCHANGED <<to_delete, tables>>
          /\ IF id < 0
             THEN /\ Return(NULL, pos)
                  /\ freed' = freed \cup {ret}
                  /\ logged' = TRUE
                  /\ UNCHANGED nodes
             ELSE /\ Return(ret, pos)
                  /\ nodes' = Bind(ret, current_env_id, id)
                  /\ UNCHANGED <<freed, logged>>

(* get_numeric_literal_ *)
GetNumericLiteral ==
    /\ At("numeric_literal")
    /\ \/ Cur \in Nums /\ ReturnNode(Cur, NULL, NULL, pos + 1)
       \/ Cur \notin Nums /\ Return(NULL, pos) /\ Quiet

(* get_identifier_: whatever the identifier is for, its name becomes a     *)
(* variable of the current environment, if there is one.                   *)
GetIdentifier ==
    /\ At("identifier")
    /\ \/ Cur \notin Names /\ Return(NULL, pos) /\ Quiet
       \/ /\ Cur \in Names
          /\ current_env_id = NoEnv
          /\ ReturnNode(Cur, NULL, NULL, pos + 1)
       \/ /\ Cur \in Names
          /\ current_env_id # NoEnv
          /\ nodes' = Append(nodes, [Node(Cur, NULL, NULL) EXCEPT
                                        !.scope = current_env_id,
                                        !.inner = AddedId(Env, Variable(Cur))])
          /\ AddToEnv(Variable(Cur))
          /\ to_delete' = Append(to_delete, Len(nodes) + 1)
          /\ UNCHANGED <<freed, current_env_id, logged>>
          /\ Return(Len(nodes) + 1, pos + 1)

(* verify_ answers INVALID_BUFPOS, or the token pointer is NULL. *)
InvalidBufPos == Running /\ pos >= Len(tokens) /\ Abort

-----------------------------------------------------------------------------
Init ==
    /\ tokens \in Inputs
    /\ pos = 0
    /\ stack = <<Frame("general")>>
    /\ ret = NULL
    /\ nodes = << >> /\ to_delete = << >> /\ freed = {}
    /\ envs = << >> /\ current_env_id = NoEnv
    /\ logged = FALSE
    /\ root = NULL
    /\ status = "running"

Declaration ==
    \/ GetGeneral \/ Accept \/ Reject
    \/ GetProgram \/ ProgramFirst \/ ProgramNext
    \/ GetFuncDecl \/ FuncDeclName \/ FuncDeclParams \/ FuncDeclBody
    \/ GetParameterList \/ ParameterListFirst \/ ParameterListNext

Statement ==
    \/ GetBlock \/ BlockFirst \/ BlockNext
    \/ GetStatement \/ StatementNext
    \/ GetIf \/ IfCondition \/ IfBody \/ IfElse \/ GetElse \/ ElseBody
    \/ GetWhile \/ WhileCondition \/ WhileBody
    \/ GetReturn \/ ReturnExpr
    \/ GetAssignment \/ AssignmentLeft \/ AssignmentRight
    \/ GetIn \/ InName \/ GetOut \/ OutExpr
    \/ GetRamset \/ RamsetAddr \/ RamsetValue

Expression ==
    \/ GetOperator \/ OperatorFirst \/ OperatorNext
    \/ GetSqrt \/ SqrtOperand
    \/ GetPrimary \/ PrimaryParen \/ PrimaryCall \/ PrimaryNum \/ PrimaryId
    \/ GetFuncCall \/ FuncCallName \/ FuncCallArgs
    \/ GetNumericLiteral \/ GetIdentifier

(* A finished run stays as it is. *)
Terminated == status # "running" /\ UNCHANGED vars

Next == Declaration \/ Statement \/ Expression \/ InvalidBufPos \/ Terminated

Spec == Init /\ [][Next]_vars /\ WF_vars(Next)

-----------------------------------------------------------------------------
(* Properties. *)

Refs == 0 .. Len(nodes)

(* Where an activation may stand: at its entry, which has the function's    *)
(* name, or after one of its calls.                                        *)
Labels ==
    { "general", "general_end", "program", "program_first", "program_next",
      "func_decl", "func_decl_name", "func_decl_params", "func_decl_body",
      "parameter_list", "parameter_list_first", "parameter_list_next",
      "func_call", "func_call_name", "func_call_args", "if",
      "if_condition", "if_body", "if_else", "else", "else_body", "while",
      "while_condition", "while_body", "return", "return_expr", "block",
      "block_first", "block_next", "statement", "statement_next",
      "assignment", "assignment_left", "assignment_right", "in", "in_name",
      "out", "out_expr", "ramset", "ramset_addr", "ramset_value",
      "operator", "operator_first", "operator_next", "sqrt",
      "sqrt_operand", "primary", "primary_paren", "primary_call",
      "primary_num", "primary_id", "numeric_literal", "identifier" }

(* What an activation may hold while there are n nodes: a function that    *)
(* uses a local node without testing it has one.                           *)
FrameOK(f) ==
    /\ f.at \in {"operator", "operator_first", "operator_next"} => f.n \in 0..7
    /\ f.at = "operator_next" => f.tok \in Levels[f.n]
    /\ f.at = "statement_next" => f.n \in 1..8
    /\ f.at \in {"func_decl_params", "func_decl_body", "func_call_args",
                 "assignment_right"} => f.l # NULL

Frames(n) ==
    {f \in [at : Labels, l : 0..n, r : 0..n, tok : Tokens, n : Nat] : FrameOK(f)}

InputOK == tokens \in Seq(Tokens) /\ tokens # << >> /\ pos \in Nat

StackOK == stack \in Seq(Frames(Len(nodes))) /\ ret \in Refs

Nodes(n) ==
    [tok : NodeTokens, left : 0..n, right : 0..n, scope : Int, inner : Int]

HeapOK ==
    /\ nodes \in Seq(Nodes(Len(nodes)))
    /\ to_delete \in Seq(1 .. Len(nodes))
    /\ freed \subseteq 1 .. Len(nodes)
    /\ root \in Refs

Symbols == [str : NodeTokens, type : SymbolTypes]

TablesOK ==
    /\ envs \in Seq(Seq(Symbols))
    /\ current_env_id = Len(envs) - 1

(* Every variable holds what its C++ counterpart may hold.                 *)
TypeOK ==
    /\ InputOK /\ StackOK /\ HeapOK /\ TablesOK
    /\ logged \in BOOLEAN
    /\ status \in {"running", "accepted", "rejected", "aborted"}

(* An id in an identifier node is an id of its own name: find_symbol and    *)
(* add_symbol_to_env hand out ids that stay valid while the table grows,   *)
(* and each binding reads the environment the name was entered in.         *)
IdentifiersResolve ==
    envs # << >> => \A v \in 1..Len(nodes) :
        LET node == nodes[v] IN node.tok \in Names =>
            /\ node.scope + 1 \in 1..Len(envs)
            /\ node.inner + 1 \in 1..Len(envs[node.scope + 1])
            /\ SymbolAt(envs[node.scope + 1], node.inner).str = node.tok

(* No environment holds a symbol twice, so find_symbol's answer is *the* id *)
(* of the symbol.                                                          *)
SymbolsUnique == \A i \in 1..Len(envs) : Unique(envs[i])

(* A step never takes back or renames a symbol that has an id.             *)
IdsAreStable == [][
    /\ Len(envs) <= Len(envs')
    /\ \A i \in 1..Len(envs) : Extends(envs[i], envs'[i])]_envs

(* The pointers to a node: from the nodes, from the locals of the running  *)
(* activations (node in get_block_ is a second pointer into the chain that *)
(* root owns) and from the value being returned.                           *)
Owners(v) ==
    {<<"left", p>> : p \in {q \in 1..Len(nodes) : nodes[q].left = v}}
      \cup {<<"right", p>> : p \in {q \in 1..Len(nodes) : nodes[q].right = v}}
      \cup {<<"l", i>> : i \in {j \in 1..Len(stack) : stack[j].l = v}}
      \cup {<<"r", i>> : i \in {j \in 1..Len(stack) :
                                   stack[j].r = v /\ stack[j].at # "block_next"}}
      \cup {<<"ret", 0>> : i \in {j \in {0} : ret = v}}

(* free_subtree in ast::dtor visits a node once for each pointer to it, so *)
(* no node may ever have two owners.                                       *)
SingleOwner ==
    \A v \in 1..Len(nodes) : \A o1, o2 \in Owners(v) : o1 = o2

(* The node get_func_call_ frees when it backs out is nobody's any more.   *)
NoDanglingPointer ==
    status \in {"running", "accepted"} => \A v \in freed : Owners(v) = {}

(* A rejected input leaves no node behind: whichever function failed, the  *)
(* nodes made before it are all in to_delete.                              *)
RejectFreesAll == status = "rejected" => freed = 1..Len(nodes)

(* The descent ends on every input: a statement that consumes nothing      *)
(* fails, and the loops of get_block_ and get_program_ stop there.         *)
Termination == <>(status # "running")

(* The nodes that can be reached from v. *)
Below(v) ==
    LET children(S) == {nodes[p].left : p \in S} \cup {nodes[p].right : p \in S}
        reach[k \in 0..Len(nodes)] ==
            IF k = 0 THEN {v} \ {NULL}
            ELSE LET S == reach[k - 1] IN S \cup (children(S) \ {NULL})
    IN  reach[Len(nodes)]

(* The declarations in the accepted tree: identifiers that have a body.    *)
Declared == {d \in Below(root) : nodes[d].tok \in Names /\ nodes[d].right # NULL}

(* What the back end assumes of a tree (translator.cpp): a declaration is  *)
(* the FUNC symbol of an environment of its own, and every identifier in   *)
(* it is a VAR of that environment.                                        *)
ScopesMatchFunctions ==
    status = "accepted" => \A d \in Declared :
        /\ SymbolAt(envs[nodes[d].scope + 1], nodes[d].inner) = Function(nodes[d].tok)
        /\ \A e \in Declared : nodes[e].scope = nodes[d].scope => e = d
        /\ \A v \in Below(d) \ {d} : nodes[v].tok \in Names =>
              /\ nodes[v].scope = nodes[d].scope
              /\ SymbolAt(envs[nodes[v].scope + 1], nodes[v].inner)
                    = Variable(nodes[v].tok)

(* A call in an accepted tree names a function that is in the tree, though *)
(* get_func_call_ asks the environments, where the functions that failed   *)
(* have left their names as well.                                          *)
CallsHaveTargets ==
    status = "accepted" => \A c \in Below(root) : nodes[c].tok = "call" =>
        \E d \in Declared : nodes[d].tok = nodes[nodes[c].left].tok
=============================================================================
