------------------------- MODULE SyntaxTablesProofs -------------------------
(***************************************************************************)
(* For every set of texts: the symbol tables of the syntax analyzer hold   *)
(* no symbol twice and only grow, and a rejected text leaves no node       *)
(* behind.                                                                 *)
(***************************************************************************)
EXTENDS SyntaxAnalyzerProofs

-----------------------------------------------------------------------------
(* What a step does to the tables and to the list of the nodes.            *)

(* A function's environment joins the others, or a variable the current one. *)
TablesStep ==
    \/ UNCHANGED envs
    \/ /\ Top.at = "func_decl_name" /\ ret # NULL /\ FuncSymbol(ret) \in Symbols
       /\ envs' = Append(envs, AddSymbol(CreateEnv, FuncSymbol(ret)))
    \/ envs # << >> /\ \E sym \in Symbols : sym.type = "VAR" /\ AddToEnv(sym)

(* A new node is listed. *)
ListStep ==
    \/ Len(nodes') = Len(nodes) /\ UNCHANGED to_delete
    \/ Len(nodes') = Len(nodes) + 1 /\ to_delete' = Append(to_delete, Len(nodes) + 1)

Moved == status = "running" /\ UNCHANGED status
Ordinary == Moved /\ TablesStep /\ ListStep

(* Most steps change nothing there, or call new_node. *)
Kept == UNCHANGED <<heap, tables>>
MadePlain == \E tok, l, r : NewNode(nodes, tok, l, r)

(* A call or a return leaves the analyzer running. *)
LEMMA Moves ==
    ASSUME NEW label, At(label), NEW f, NEW c, NEW v, NEW p,
           Goto(f, c, p) \/ Return(v, p)
    PROVE  Moved
BY DEF At, Running, Goto, Return, Moved

(* new_node lists the node it makes. *)
LEMMA MadeLength ==
    ASSUME NEW ns, Len(ns) = Len(nodes), NEW S, ns \in Seq(S),
           NEW tok, NEW l, NEW r, NewNode(ns, tok, l, r)
    PROVE  ListStep /\ TablesStep
<1>. DEFINE node == Node(tok, l, r)
<1>1. /\ nodes' = Append(ns, node) /\ to_delete' = Append(to_delete, Len(nodes) + 1)
      /\ UNCHANGED envs
  BY DEF NewNode, tables
<1>. HIDE DEF node
<1>2. Len(Append(ns, node)) = Len(ns) + 1
  OBVIOUS
<1>. QED
  BY <1>1, <1>2 DEF ListStep, TablesStep

(* The steps of the common shapes are ordinary. *)
LEMMA PlainOrdinary ==
    ASSUME TypeOK, Moved, Kept \/ MadePlain
    PROVE  Ordinary
<1>1. CASE Kept
  BY <1>1 DEF Kept, heap, tables, Ordinary, TablesStep, ListStep
<1>2. CASE MadePlain
  <2>1. nodes \in Seq(Nodes(Len(nodes)))
    BY DEF TypeOK, HeapOK
  <2>. QED
    BY <1>2, <2>1, MadeLength DEF MadePlain, Ordinary
<1>. QED
  BY <1>1, <1>2

(* The shapes that several functions share. *)
Plain == Moved /\ (Kept \/ MadePlain)

(* A quiet step leaves heap and tables alone. *)
LEMMA QuietKept == ASSUME Quiet PROVE Kept
BY DEF Quiet, Kept

(* A failure, ... *)
LEMMA FailPlain ==
    ASSUME NEW label, At(label), NEW p, FailAt(p)
    PROVE  Plain
BY Moves, Zenon DEF FailAt, Plain, Kept

(* ... a new node returned, ... *)
LEMMA NodePlain ==
    ASSUME NEW label, At(label), NEW tok, NEW l, NEW r, NEW p, ReturnNode(tok, l, r, p)
    PROVE  Plain
BY Moves, Zenon DEF ReturnNode, Plain, MadePlain

(* ... a call, ... *)
LEMMA GotoPlain ==
    ASSUME NEW label, At(label), NEW f, NEW c, NEW p, Goto(f, c, p), Quiet
    PROVE  Plain
BY Moves, QuietKept, Zenon DEF Plain

(* ... a return, ... *)
LEMMA ReturnPlain ==
    ASSUME NEW label, At(label), NEW v, NEW p, Return(v, p), Quiet
    PROVE  Plain
BY Moves, QuietKept, Zenon DEF Plain

(* ... a function led by a keyword, ... *)
LEMMA LeadsPlain ==
    ASSUME NEW label, NEW token, NEW next, NEW callee, Leads(label, token, next, callee)
    PROVE  Plain
BY GotoPlain, ReturnPlain, Zenon DEF Leads, Call

(* ... one that goes on after a call, ... *)
LEMMA ThenPlain ==
    ASSUME NEW label, NEW next, NEW callee, Then(label, next, callee)
    PROVE  Plain
BY FailPlain, GotoPlain, Zenon DEF Then, Fail

(* ... one that answers a node, ... *)
LEMMA YieldsPlain ==
    ASSUME NEW label, NEW tok, Yields(label, tok)
    PROVE  Plain
BY FailPlain, NodePlain, Zenon DEF Yields, Fail

(* ... and an attempt of get_primary_ are plain. *)
LEMMA PrimaryTryPlain ==
    ASSUME NEW label, NEW next, NEW callee, PrimaryTry(label, next, callee)
    PROVE  Plain
BY GotoPlain, ReturnPlain, Zenon DEF PrimaryTry, Call

-----------------------------------------------------------------------------
(* The plain steps of the declarations, ... *)
LEMMA DeclarationsPlain ==
    ASSUME \/ GetGeneral \/ GetProgram \/ ProgramFirst \/ ProgramNext
           \/ GetFuncDecl \/ FuncDeclParams \/ GetParameterList
    PROVE  Plain
<1>1. GetGeneral => Plain
  BY GotoPlain, Zenon DEF GetGeneral, Call
<1>2. GetProgram => Plain
  BY GotoPlain, Zenon DEF GetProgram, Call
<1>3. ProgramFirst => Plain
  BY GotoPlain, ReturnPlain, Zenon DEF ProgramFirst
<1>4. ProgramNext => Plain
  BY ReturnPlain, Moves, Zenon DEF ProgramNext, Plain, MadePlain
<1>5. GetFuncDecl => Plain
  BY LeadsPlain, Zenon DEF GetFuncDecl
<1>6. FuncDeclParams => Plain
  BY FailPlain, GotoPlain, Zenon DEF FuncDeclParams, Fail
<1>7. GetParameterList => Plain
  BY GotoPlain, Zenon DEF GetParameterList, Call
<1>. QED
  BY <1>1, <1>2, <1>3, <1>4, <1>5, <1>6, <1>7

(* ... of the statements ... *)
LEMMA StatementsPlain ==
    ASSUME \/ GetBlock \/ BlockFirst
           \/ GetStatement \/ StatementNext
           \/ GetIf \/ IfCondition \/ IfBody \/ GetElse \/ ElseBody
           \/ GetWhile \/ WhileCondition \/ WhileBody
           \/ GetReturn \/ ReturnExpr
           \/ GetAssignment \/ AssignmentLeft
           \/ GetIn \/ GetOut \/ OutExpr
           \/ GetRamset \/ RamsetAddr \/ RamsetValue
    PROVE  Plain
<1>1. GetBlock \/ GetIf \/ GetElse \/ GetWhile \/ GetReturn \/ GetIn \/ GetOut \/ GetRamset
        => Plain
  BY LeadsPlain, Zenon
     DEF GetBlock, GetIf, GetElse, GetWhile, GetReturn, GetIn, GetOut, GetRamset
<1>2. IfCondition \/ WhileCondition => Plain
  BY ThenPlain, Zenon DEF IfCondition, WhileCondition
<1>3. ReturnExpr \/ OutExpr => Plain
  BY YieldsPlain, Zenon DEF ReturnExpr, OutExpr
<1>4. ElseBody \/ WhileBody \/ RamsetValue => Plain
  BY FailPlain, NodePlain, Zenon DEF ElseBody, WhileBody, RamsetValue, Fail
<1>5. BlockFirst => Plain
  BY ReturnPlain, GotoPlain, BlockLoopCases, Zenon DEF BlockFirst
<1>6. GetStatement \/ IfBody => Plain
  BY GotoPlain, Zenon DEF GetStatement, IfBody
<1>7. StatementNext => Plain
  BY StatementCases, FailPlain, NodePlain, GotoPlain, Zenon
     DEF NextAttempt, SemicolNode, Fail
<1>8. GetAssignment => Plain
  BY GotoPlain, Zenon DEF GetAssignment, Call
<1>9. AssignmentLeft => Plain
  BY ReturnPlain, FailPlain, GotoPlain, Zenon DEF AssignmentLeft, Fail
<1>10. RamsetAddr => Plain
  BY FailPlain, GotoPlain, Zenon DEF RamsetAddr, Fail
<1>. QED
  BY <1>1, <1>2, <1>3, <1>4, <1>5, <1>6, <1>7, <1>8, <1>9, <1>10

(* ... and of the expressions. *)
LEMMA ExpressionsPlain ==
    ASSUME \/ GetOperator \/ OperatorFirst \/ OperatorNext
           \/ GetSqrt \/ SqrtOperand
           \/ GetPrimary \/ PrimaryParen \/ PrimaryCall \/ PrimaryNum
           \/ GetFuncCall \/ FuncCallArgs \/ GetNumericLiteral
    PROVE  Plain
<1>1. GetOperator \/ GetFuncCall => Plain
  BY GotoPlain, Zenon DEF GetOperator, GetFuncCall
<1>2. OperatorFirst => Plain
  BY ReturnPlain, GotoPlain, Zenon DEF OperatorFirst, OperatorLoop
<1>3. OperatorNext => Plain
  BY Moves, Zenon DEF OperatorNext, OperatorLoop, Plain, MadePlain
<1>4. GetSqrt => Plain
  <2>1. ASSUME At("sqrt"), UNCHANGED <<tokens, pos, ret, status, root>>, Quiet PROVE Plain
    BY <2>1, QuietKept DEF At, Running, Plain, Moved
  <2>. QED
    BY <2>1, GotoPlain, Zenon DEF GetSqrt, Call
<1>5. SqrtOperand => Plain
  BY NodePlain, Zenon DEF SqrtOperand
<1>6. GetPrimary => Plain
  BY GotoPlain, Zenon DEF GetPrimary, Call
<1>7. PrimaryParen => Plain
  BY ReturnPlain, Zenon DEF PrimaryParen
<1>8. PrimaryCall \/ PrimaryNum => Plain
  BY PrimaryTryPlain, Zenon DEF PrimaryCall, PrimaryNum
<1>9. FuncCallArgs => Plain
  BY FailPlain, NodePlain, Zenon DEF FuncCallArgs, Fail
<1>10. GetNumericLiteral => Plain
  BY ReturnPlain, NodePlain, Zenon DEF GetNumericLiteral
<1>. QED
  BY <1>1, <1>2, <1>3, <1>4, <1>5, <1>6, <1>7, <1>8, <1>9, <1>10

-----------------------------------------------------------------------------
(* The others: names enter the tables, pointers in nodes are set. *)

(* A node appended to a changed heap is listed. *)
LEMMA Appending ==
    ASSUME NEW T, NEW s \in Seq(T), NEW x, Len(s) = Len(nodes), nodes' = Append(s, x),
           to_delete' = Append(to_delete, Len(nodes) + 1)
    PROVE  ListStep
<1>1. Len(Append(s, x)) = Len(s) + 1
  OBVIOUS
<1>. QED
  BY <1>1 DEF ListStep

(* A named function gets an environment. *)
LEMMA FuncDeclNameOrdinary == ASSUME IInv, FuncDeclName PROVE Ordinary
<1>1. /\ At("func_decl_name") /\ Moved
      /\ Fail \/ (ret # NULL /\ envs' = Append(envs, AddSymbol(CreateEnv, FuncSymbol(ret)))
                  /\ UNCHANGED heap)
  BY Moves, Zenon DEF FuncDeclName, Fail, FailAt
<1>2. CASE Fail
  BY <1>1, <1>2, FailPlain, PlainOrdinary DEF Fail, Plain, IInv
<1>3. CASE /\ ret # NULL /\ envs' = Append(envs, AddSymbol(CreateEnv, FuncSymbol(ret)))
           /\ UNCHANGED heap
  <2>1. ret \in Refs
    BY <1>1, AtFacts DEF IInv
  <2>2. FuncSymbol(ret) \in Symbols
    BY <1>3, <2>1, NodeAt, SymbolOf DEF FuncSymbol, IInv
  <2>. QED
    BY <1>1, <1>3, <2>2 DEF Ordinary, TablesStep, ListStep, heap, At
<1>. QED
  BY <1>1, <1>2, <1>3

(* A node changes and nothing joins. *)
LEMMA InPlaceOrdinary ==
    ASSUME Moved, UNCHANGED <<to_delete, envs>>, NEW T, nodes' \in Seq(T),
           Len(nodes') = Len(nodes)
    PROVE  Ordinary
BY DEF Ordinary, TablesStep, ListStep

(* get_func_decl_ binds the name and hangs the body on it. *)
LEMMA FuncDeclBodyOrdinary == ASSUME IInv, FuncDeclBody PROVE Ordinary
<1>. DEFINE node == [nodes[Top.l] EXCEPT
                        !.scope = Top.n, !.inner = AddedId(CreateEnv, FuncSymbol(Top.l)),
                        !.left = Top.r, !.right = ret]
<1>1. /\ At("func_decl_body") /\ Moved
      /\ Fail \/ (nodes' = [nodes EXCEPT ![Top.l] = node]
                  /\ UNCHANGED <<to_delete, tables>>)
  <2>1. At("func_decl_body")
    BY DEF FuncDeclBody
  <2>2. Fail \/ (nodes' = [nodes EXCEPT ![Top.l] = node] /\ Return(Top.l, pos)
                  /\ UNCHANGED <<to_delete, tables>>)
    BY DEF FuncDeclBody
  <2>. QED
    BY <2>1, <2>2, Moves, Zenon DEF Fail, FailAt
<1>. HIDE DEF node
<1>2. CASE Fail
  BY SMTT(30), <1>1, <1>2, FailPlain, PlainOrdinary DEF Fail, Plain, IInv
<1>3. CASE nodes' = [nodes EXCEPT ![Top.l] = node] /\ UNCHANGED <<to_delete, tables>>
  <2>1. nodes \in Seq(Nodes(Len(nodes)))
    BY DEF IInv, TypeOK, HeapOK
  <2>2. Len(nodes') = Len(nodes)
    BY <1>3, <2>1
  <2>. QED
    BY <1>1, <1>3, <2>2 DEF Ordinary, TablesStep, ListStep, tables
<1>. QED
  BY <1>1, <1>2, <1>3

(* A parameter is bound and, after a comma, listed. *)
LEMMA ParameterOrdinary ==
    ASSUME IInv, ParameterListFirst \/ (ParameterListNext /\ ~Abort)
    PROVE  Ordinary
<1>. DEFINE bound == Bind(ret, current_env_id, AddedId(Env, Parameter))
<1>1. PICK label \in ParameterLabels : At(label) /\ \E list : ParameterListLoop(list)
  BY DEF ParameterListFirst, ParameterListNext, ParameterLabels
<1>2. Moved
  BY <1>1, ParameterListLoopCases, Moves, Zenon
<1>3. envs # << >> /\ ret \in Refs /\ nodes \in Seq(Nodes(Len(nodes)))
  BY <1>1, AtFacts, Late DEF IInv, ParameterLabels, EarlyLabels, TypeOK, HeapOK
<1>4. CASE Quiet
  BY <1>2, <1>4, QuietKept, PlainOrdinary DEF IInv
<1>5. CASE /\ ret # NULL /\ AddToEnv(Parameter)
           /\ \/ nodes' = bound /\ UNCHANGED to_delete
              \/ /\ \E tok : nodes' = Append(bound, Node(tok, Top.l, ret))
                 /\ to_delete' = Append(to_delete, Len(nodes) + 1)
  <2>1. Parameter \in Symbols /\ Parameter.type = "VAR" /\ ret \in 1..Len(nodes)
    BY <1>3, <1>5, NodeAt, SymbolOf DEF Parameter, Variable, IInv
  <2>2. AddedId(Env, Parameter) \in Int /\ current_env_id \in Int
    <3>1. Env \in Seq(Symbols) /\ current_env_id \in Int
      BY <1>3, EnvProperties DEF IInv
    <3>2. AddedId(Env, Parameter) \in 0 .. Len(AddSymbol(Env, Parameter)) - 1
      BY <2>1, <3>1, AddSymbolProperties
    <3>. QED
      BY <3>1, <3>2
  <2>3. bound \in Seq(Nodes(Len(nodes))) /\ Len(bound) = Len(nodes)
    BY <2>1, <2>2, BindProperties DEF IInv
  <2>. HIDE DEF bound
  <2>4. TablesStep
    BY <1>3, <1>5, <2>1 DEF TablesStep
  <2>5. ListStep
    <3>1. CASE nodes' = bound /\ UNCHANGED to_delete
      BY <2>3, <3>1 DEF ListStep
    <3>2. CASE /\ \E tok : nodes' = Append(bound, Node(tok, Top.l, ret))
               /\ to_delete' = Append(to_delete, Len(nodes) + 1)
      BY <2>3, <3>2, Appending
    <3>. QED
      BY <1>5, <3>1, <3>2
  <2>. QED
    BY <1>2, <2>4, <2>5 DEF Ordinary
<1>6. ParameterListNext /\ ~Abort =>
        /\ ret # NULL /\ AddToEnv(Parameter)
        /\ \E tok : nodes' = Append(bound, Node(tok, Top.l, ret))
        /\ to_delete' = Append(to_delete, Len(nodes) + 1)
  BY Zenon DEF ParameterListNext
<1>7. ParameterListFirst =>
        \/ Quiet
        \/ ret # NULL /\ AddToEnv(Parameter) /\ nodes' = bound /\ UNCHANGED to_delete
  BY DEF ParameterListFirst
<1>. QED
  BY <1>4, <1>5, <1>6, <1>7

(* An identifier is put back. *)
LEMMA FuncCallNameOrdinary == ASSUME IInv, FuncCallName PROVE Ordinary
<1>1. At("func_call_name")
  BY FuncCallNameCases
<1>2. CASE PutBack
  <2>1. Moved
    BY <1>1, <1>2, Moves, Zenon DEF PutBack
  <2>. QED
    BY <1>2, <2>1 DEF PutBack, Ordinary, TablesStep, ListStep, tables
<1>3. CASE Plain
  BY <1>3, PlainOrdinary DEF Plain, IInv
<1>. QED
  BY <1>1, <1>2, <1>3, FuncCallNameCases, FailPlain, GotoPlain

(* The if-body is hung on the ELSE node. *)
LEMMA IfElseOrdinary == ASSUME IInv, IfElse PROVE Ordinary
<1>1. At("if_else")
  BY DEF IfElse
<1>2. ret \in Refs /\ Top.r \in Refs
  BY <1>1, AtFacts DEF IInv, Frames, Refs
<1>3. CASE Plain
  BY <1>3, PlainOrdinary DEF Plain, IInv
<1>4. CASE /\ NewNode([nodes EXCEPT ![ret].left = Top.r], "if", Top.l, ret)
           /\ Return(Len(nodes) + 1, pos)
  <2>1. PICK ns : /\ ns = [nodes EXCEPT ![ret].left = Top.r]
                  /\ NewNode(ns, "if", Top.l, ret)
    BY <1>4
  <2>2. ns \in Seq(Nodes(Len(nodes))) /\ Len(ns) = Len(nodes)
    BY <1>2, <2>1, PointerSet DEF IInv
  <2>3. Moved
    BY <1>1, <1>4, Moves
  <2>. QED
    BY <2>1, <2>2, <2>3, MadeLength DEF Ordinary
<1>. QED
  BY <1>1, <1>3, <1>4, NodePlain DEF IfElse

(* A statement is hung on the one before it. *)
LEMMA BlockNextOrdinary == ASSUME IInv, BlockNext PROVE Ordinary
<1>1. At("block_next")
  BY DEF BlockNext
<1>2. ret \in Refs /\ Top.r \in Refs
  BY <1>1, AtFacts DEF IInv, Frames, Refs
<1>3. CASE Fail
  BY SMTT(30), <1>1, <1>3, FailPlain, PlainOrdinary DEF Fail, Plain, IInv
<1>4. CASE /\ nodes' = [nodes EXCEPT ![Top.r].right = ret]
           /\ BlockLoop(Top.l, ret)
           /\ UNCHANGED <<to_delete, freed, tables, logged>>
  <2>1. Moved
    BY <1>1, <1>4, BlockLoopCases, Moves, Zenon
  <2>2. Len(nodes') = Len(nodes)
    BY <1>2, <1>4, PointerSet DEF IInv
  <2>. QED
    BY <1>4, <2>1, <2>2 DEF Ordinary, TablesStep, ListStep, tables
<1>. QED
  BY <1>3, <1>4 DEF BlockNext

(* The left side of an assignment is bound. *)
LEMMA AssignmentRightOrdinary == ASSUME IInv, AssignmentRight PROVE Ordinary
<1>. DEFINE sym == Variable(nodes[Top.l].tok)
            bound == Bind(Top.l, current_env_id, AddedId(Env, sym))
<1>1. At("assignment_right")
  BY DEF AssignmentRight
<1>2. /\ Top.l \in Refs /\ Top.l # NULL /\ envs # << >>
  BY <1>1, AtFacts, Late DEF IInv, Frames, FrameOK, Refs, EarlyLabels
<1>3. CASE Fail
  BY <1>1, <1>3, FailPlain, PlainOrdinary DEF Fail, Plain, IInv
<1>4. CASE /\ AddToEnv(sym)
           /\ nodes' = Append(bound, Node("=", Top.l, ret))
           /\ to_delete' = Append(to_delete, Len(nodes) + 1)
           /\ Return(Len(nodes) + 1, pos)
  <2>1. Moved
    BY <1>1, <1>4, Moves
  <2>2. sym \in Symbols /\ sym.type = "VAR" /\ Top.l \in 1..Len(nodes)
    BY <1>2, NodeAt, SymbolOf DEF IInv, Variable
  <2>. HIDE DEF sym
  <2>3. AddedId(Env, sym) \in Int /\ current_env_id \in Int
    <3>1. Env \in Seq(Symbols) /\ current_env_id \in Int
      BY <1>2, EnvProperties DEF IInv
    <3>2. AddedId(Env, sym) \in 0 .. Len(AddSymbol(Env, sym)) - 1
      BY <2>2, <3>1, AddSymbolProperties
    <3>. QED
      BY <3>1, <3>2
  <2>4. bound \in Seq(Nodes(Len(nodes))) /\ Len(bound) = Len(nodes)
    BY <2>2, <2>3, BindProperties DEF IInv
  <2>. HIDE DEF bound
  <2>5. TablesStep
    BY <1>2, <1>4, <2>2 DEF TablesStep
  <2>. QED
    BY <1>4, <2>1, <2>4, <2>5, Appending DEF Ordinary
<1>. QED
  BY <1>3, <1>4 DEF AssignmentRight

(* An identifier is bound to what find_symbol answers. *)
LEMMA PrimaryIdOrdinary == ASSUME IInv, PrimaryId PROVE Ordinary
<1>1. /\ At("primary_id")
      /\ \E v : Return(v, pos)
      /\ \/ Quiet
         \/ UNCHANGED <<to_delete, tables, nodes>>
         \/ /\ \E e, id : nodes' = Bind(ret, e, id)
            /\ UNCHANGED <<to_delete, tables>>
  BY DEF PrimaryId
<1>2. nodes \in Seq(Nodes(Len(nodes)))
  BY DEF IInv, TypeOK, HeapOK
<1>3. Moved
  BY <1>1, Moves
<1>4. CASE Quiet
  BY <1>3, <1>4, QuietKept, PlainOrdinary DEF IInv
<1>5. CASE UNCHANGED <<to_delete, tables, nodes>>
  BY <1>3, <1>5 DEF Ordinary, TablesStep, ListStep, tables
<1>6. CASE (\E e, id : nodes' = Bind(ret, e, id)) /\ UNCHANGED <<to_delete, tables>>
  <2>1. PICK node : nodes' = [nodes EXCEPT ![ret] = node]
    BY <1>6 DEF Bind
  <2>2. Len(nodes') = Len(nodes)
    BY <1>2, <2>1
  <2>. QED
    BY <1>3, <1>6, <2>2 DEF Ordinary, TablesStep, ListStep, tables
<1>. QED
  BY <1>1, <1>4, <1>5, <1>6

(* An identifier is entered in the current table. *)
LEMMA IdentifierOrdinary == ASSUME IInv, GetIdentifier PROVE Ordinary
<1>1. At("identifier")
  BY DEF GetIdentifier
<1>2. Cur \in NodeTokens /\ nodes \in Seq(Nodes(Len(nodes)))
  BY <1>1, AtFacts, SomeTokens DEF IInv, TypeOK, HeapOK
<1>3. CASE Plain
  BY <1>3, PlainOrdinary DEF Plain, IInv
<1>4. CASE /\ current_env_id # NoEnv
           /\ \E node : nodes' = Append(nodes, node)
           /\ AddToEnv(Variable(Cur))
           /\ to_delete' = Append(to_delete, Len(nodes) + 1)
           /\ Return(Len(nodes) + 1, pos + 1)
  <2>1. envs # << >> /\ Variable(Cur) \in Symbols /\ Variable(Cur).type = "VAR"
    BY <1>2, <1>4, SymbolOf DEF IInv, TypeOK, TablesOK, NoEnv, Variable
  <2>2. Moved /\ ListStep
    BY <1>1, <1>2, <1>4, Moves, Appending
  <2>. QED
    BY <1>4, <2>1, <2>2 DEF Ordinary, TablesStep
<1>. QED
  BY <1>1, <1>3, <1>4, ReturnPlain, NodePlain DEF GetIdentifier

(* Every step is ordinary but the last ones of a run. *)
LEMMA Steps ==
    ASSUME IInv, [Next]_vars
    PROVE  Ordinary \/ Accept \/ Reject \/ Abort \/ UNCHANGED vars
<1>1. Plain => Ordinary
  BY PlainOrdinary DEF Plain, IInv
<1>2. InName => Ordinary \/ Abort
  BY <1>1, NodePlain, Zenon DEF InName
<1>3. Declaration => Ordinary \/ Accept \/ Reject \/ Abort
  BY <1>1, DeclarationsPlain, FuncDeclNameOrdinary, FuncDeclBodyOrdinary,
     ParameterOrdinary, Zenon DEF Declaration
<1>4. Statement => Ordinary \/ Abort
  BY <1>1, <1>2, StatementsPlain, IfElseOrdinary, BlockNextOrdinary,
     AssignmentRightOrdinary, Zenon DEF Statement
<1>5. Expression => Ordinary
  BY <1>1, ExpressionsPlain, FuncCallNameOrdinary, PrimaryIdOrdinary,
     IdentifierOrdinary, Zenon DEF Expression
<1>. QED
  BY <1>3, <1>4, <1>5 DEF Next, InvalidBufPos, Terminated

-----------------------------------------------------------------------------
(* The tables. *)

EnvsGrow ==
    /\ Len(envs) <= Len(envs')
    /\ \A i \in 1..Len(envs) : Extends(envs[i], envs'[i])

(* A table extends itself. *)
LEMMA ExtendsItself == ASSUME NEW T, NEW env \in Seq(T) PROVE Extends(env, env)
BY DEF Extends

(* A new environment with its function's name. *)
LEMMA CreatedProperties ==
    ASSUME NEW sym \in Symbols
    PROVE  /\ AddSymbol(CreateEnv, sym) \in Seq(Symbols)
           /\ Unique(AddSymbol(CreateEnv, sym))
<1>1. << >> \in Seq(Symbols) /\ Unique(<< >>)
  BY DEF Unique
<1>. QED
  BY <1>1, AddSymbolProperties DEF CreateEnv

(* What a step on the tables preserves. *)
LEMMA TablesGrow ==
    ASSUME TypeOK, TablesStep
    PROVE  /\ EnvsGrow
           /\ SymbolsUnique => SymbolsUnique'
<1>1. envs \in Seq(Seq(Symbols)) /\ Len(envs) \in Nat
      /\ \A i \in 1..Len(envs) : envs[i] \in Seq(Symbols) /\ Extends(envs[i], envs[i])
  <2>1. envs \in Seq(Seq(Symbols)) /\ Len(envs) \in Nat
    BY DEF TypeOK, TablesOK
  <2>. QED
    BY <2>1, ElementOfSeq, ExtendsItself
<1>2. CASE UNCHANGED envs
  BY <1>1, <1>2 DEF EnvsGrow, SymbolsUnique
<1>3. CASE /\ FuncSymbol(ret) \in Symbols
           /\ envs' = Append(envs, AddSymbol(CreateEnv, FuncSymbol(ret)))
  <2>1. PICK env \in Seq(Symbols) : envs' = Append(envs, env) /\ Unique(env)
    BY <1>3, CreatedProperties
  <2>2. /\ Len(envs') = Len(envs) + 1 /\ envs'[Len(envs) + 1] = env
        /\ \A i \in 1..Len(envs) : envs'[i] = envs[i]
    BY <1>1, <2>1, AppendProperties
  <2>3. EnvsGrow
    BY <1>1, <2>2 DEF EnvsGrow
  <2>4. SymbolsUnique => SymbolsUnique'
    <3>1. SUFFICES ASSUME SymbolsUnique, NEW i \in 1 .. Len(envs) + 1
          PROVE  Unique(envs'[i])
      BY <2>2 DEF SymbolsUnique
    <3>2. i \in 1..Len(envs) \/ i = Len(envs) + 1
      BY <1>1
    <3>. QED
      BY <2>1, <2>2, <3>1, <3>2 DEF SymbolsUnique
  <2>. QED
    BY <2>3, <2>4
<1>4. CASE envs # << >> /\ \E sym \in Symbols : AddToEnv(sym)
  <2>. DEFINE e == current_env_id + 1
  <2>1. PICK sym \in Symbols : AddToEnv(sym)
    BY <1>4
  <2>2. e \in 1..Len(envs)
    BY <1>4, EnvProperties
  <2>3. PICK env : envs' = [envs EXCEPT ![e] = env] /\ env = AddSymbol(envs[e], sym)
    BY <2>1, <2>2 DEF AddToEnv
  <2>. HIDE DEF e
  <2>4. /\ env \in Seq(Symbols) /\ Extends(envs[e], env)
        /\ Unique(envs[e]) => Unique(env)
    BY <1>1, <2>2, <2>3, AddSymbolProperties
  <2>5. /\ Len(envs') = Len(envs) /\ envs'[e] = env
        /\ \A i \in 1..Len(envs) : i # e => envs'[i] = envs[i]
    BY <1>1, <2>2, <2>3
  <2>6. EnvsGrow
    BY <1>1, <2>2, <2>4, <2>5 DEF EnvsGrow
  <2>7. SymbolsUnique => SymbolsUnique'
    BY <2>2, <2>4, <2>5 DEF SymbolsUnique
  <2>. QED
    BY <2>6, <2>7
<1>. QED
  BY <1>2, <1>3, <1>4 DEF TablesStep

(* Every step is a step on the tables. *)
LEMMA TablesOrSame ==
    ASSUME IInv, [Next]_vars
    PROVE  TablesStep
<1>1. Ordinary => TablesStep
  BY DEF Ordinary
<1>2. Accept \/ Reject \/ Abort \/ UNCHANGED vars => UNCHANGED envs
  BY DEF Accept, Reject, Abort, tables, vars
<1>. QED
  BY <1>1, <1>2, Steps DEF TablesStep

(* No symbol is entered twice in the table of a function, so the id under  *)
(* which get_identifier_ enters a name is the one find_symbol answers      *)
(* later (symbol.cpp:42-72).                                               *)
THEOREM SyntaxSymbolsUnique == Spec => []SymbolsUnique
<1>1. Init => SymbolsUnique
  BY DEF Init, SymbolsUnique
<1>2. IInv /\ SymbolsUnique /\ [Next]_vars => SymbolsUnique'
  BY TablesOrSame, TablesGrow DEF IInv
<1>. QED
  BY <1>1, <1>2, Initially, Inductive, PTL DEF Spec

(* Whatever the parser tries and takes back, an id it has handed out keeps *)
(* naming the same symbol: no environment is dropped and none shrinks.     *)
THEOREM SyntaxIdsAreStable == Spec => IdsAreStable
<1>1. IInv /\ [Next]_vars => [EnvsGrow]_envs
  BY TablesOrSame, TablesGrow DEF IInv
<1>. QED
  BY <1>1, Initially, Inductive, PTL DEF Spec, IdsAreStable, EnvsGrow

-----------------------------------------------------------------------------
(* The list of the nodes. *)

(* to_delete lists the nodes in the order they were made. *)
AllListed ==
    status = "running" =>
        /\ Len(to_delete) = Len(nodes)
        /\ \A v \in 1..Len(nodes) : to_delete[v] = v

Listed == AllListed /\ RejectFreesAll

(* An ordinary step keeps every node listed. *)
LEMMA ListGrows ==
    ASSUME IInv, AllListed, Ordinary
    PROVE  Listed'
<1>1. /\ Len(to_delete) = Len(nodes) /\ \A v \in 1..Len(nodes) : to_delete[v] = v
      /\ Len(nodes) \in Nat /\ to_delete \in Seq(1..Len(nodes))
      /\ status = "running" /\ status' = "running"
  BY DEF IInv, TypeOK, HeapOK, AllListed, Ordinary, Moved
<1>2. CASE Len(nodes') = Len(nodes) /\ UNCHANGED to_delete
  BY <1>1, <1>2 DEF Listed, AllListed, RejectFreesAll
<1>3. CASE Len(nodes') = Len(nodes) + 1 /\ to_delete' = Append(to_delete, Len(nodes) + 1)
  <2>1. /\ Len(to_delete') = Len(nodes) + 1 /\ to_delete'[Len(nodes) + 1] = Len(nodes) + 1
        /\ \A v \in 1..Len(nodes) : to_delete'[v] = to_delete[v]
    BY <1>1, <1>3, AppendProperties
  <2>2. \A v \in 1 .. Len(nodes) + 1 : to_delete'[v] = v
    <3>. TAKE v \in 1 .. Len(nodes) + 1
    <3>1. v \in 1..Len(nodes) \/ v = Len(nodes) + 1
      BY <1>1
    <3>. QED
      BY <1>1, <2>1, <3>1
  <2>. QED
    BY <1>1, <1>3, <2>1, <2>2 DEF Listed, AllListed, RejectFreesAll
<1>. QED
  BY <1>2, <1>3 DEF Ordinary, ListStep

(* Every step does. *)
LEMMA ListedInductive == IInv /\ Listed /\ [Next]_vars => Listed'
<1>. SUFFICES ASSUME IInv, Listed, [Next]_vars PROVE Listed'
  OBVIOUS
<1>1. CASE Ordinary
  BY <1>1, ListGrows DEF Listed
<1>2. CASE Accept \/ Abort
  BY <1>2 DEF Accept, Abort, Listed, AllListed, RejectFreesAll
<1>3. CASE Reject
  <2>1. /\ At("general_end") /\ status' \in {"aborted", "rejected"}
        /\ freed' = freed \cup {to_delete[i] : i \in 1..Len(to_delete)}
        /\ UNCHANGED nodes
    BY <1>3 DEF Reject
  <2>2. Len(to_delete) = Len(nodes) /\ \A v \in 1..Len(nodes) : to_delete[v] = v
    BY <2>1 DEF At, Running, Listed, AllListed
  <2>3. freed \subseteq 1..Len(nodes)
    BY DEF IInv, TypeOK, HeapOK
  <2>4. freed' = 1 .. Len(nodes')
    BY <2>1, <2>2, <2>3
  <2>. QED
    BY <2>1, <2>4 DEF Listed, AllListed, RejectFreesAll
<1>4. CASE UNCHANGED vars
  BY <1>4 DEF vars, heap, Listed, AllListed, RejectFreesAll
<1>. QED
  BY <1>1, <1>2, <1>3, <1>4, Steps

(* When get_general_ gives up it frees every node there is: no function     *)
(* makes one that to_delete does not list, however deep the descent was     *)
(* when it failed (syntax_analyzer.cpp:118-126 and 151-179).               *)
THEOREM SyntaxRejectFreesAll == Spec => []RejectFreesAll
<1>1. Init => Listed
  BY DEF Init, Listed, AllListed, RejectFreesAll
<1>2. Listed => RejectFreesAll
  BY DEF Listed
<1>. QED
  BY <1>1, <1>2, ListedInductive, Initially, Inductive, PTL DEF Spec
=============================================================================
