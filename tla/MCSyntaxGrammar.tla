-------------------------- MODULE MCSyntaxGrammar --------------------------
(***************************************************************************)
(* The syntax analyzer on texts of the grammar: every program of a family  *)
(* of trees, each given as the text Grammar makes of it.                   *)
(***************************************************************************)
EXTENDS SyntaxAnalyzer

G == INSTANCE Grammar

Nil == G!Nil
x == G!Leaf("x")
y == G!Leaf("y")
one == G!Leaf("1")

(* A function f around the statements; it may call itself. *)
Sole(statements) == G!FunctionOf("f", << >>, G!BlockOf(statements))

(* Expressions: every two operators one inside the other on either side,   *)
(* square roots and calls above and below an operator.                     *)
Inner == {G!Binary(op, x, one) : op \in G!BinaryOperators}
            \cup {G!Sqrt(x), G!CallOf("f", Nil), G!CallOf("f", x)}

Expressions ==
    {G!Binary(op, e, y) : op \in G!BinaryOperators, e \in Inner}
      \cup {G!Binary(op, y, e) : op \in G!BinaryOperators, e \in Inner}
      \cup {G!Sqrt(e) : e \in Inner}
      \cup {G!CallOf("f", e) : e \in Inner}
      \cup {G!CallOf("f", G!ListOf(<<e, x, e>>)) : e \in Inner}

(* Statements, nested to depth two, and blocks of up to two of them. *)
Simple == {G!Assign("x", one), <<"in", x, Nil>>, <<"out", x, Nil>>,
           <<"return", one, Nil>>, <<"ramset", x, one>>}
Blocks(S) == {G!BlockOf(<<s>>) : s \in S} \cup {G!BlockOf(<<s, t>>) : s, t \in S}
Compound(B) ==
    {<<"while", x, b>> : b \in B}
      \cup {<<"if", x, b>> : b \in B}
      \cup {<<"if", x, <<"else", b, c>> >> : b, c \in B}
Few == {G!Assign("x", one), <<"return", one, Nil>>}
Statements == Simple \cup Compound(Blocks(Simple))
                \cup Compound({G!BlockOf(<<s, t>>) :
                        s \in Compound({G!BlockOf(<<f>>) : f \in Few}), t \in Few})

(* Functions: parameters, several functions, calls forth and back.         *)
Bodies == {G!BlockOf(<<G!Assign("y", e), <<"return", y, Nil>> >>) :
             e \in {one, x, G!CallOf("f", x), G!CallOf("f", G!ListOf(<<x, y>>))}}
Parameters == {<< >>, <<x>>, <<x, y>>, <<x, y, x>>}
First == {G!FunctionOf("f", p, b) : p \in Parameters, b \in Bodies}
Second == {G!FunctionOf("g", p, b) : p \in Parameters, b \in Bodies}
Third == {G!FunctionOf(n, <<y>>, G!BlockOf(<< <<"return", y, Nil>> >>)) : n \in {"h", "x"}}

Programs ==
    {Sole(<<G!Assign("x", e)>>) : e \in Expressions}
      \cup {Sole(<<s>>) : s \in Statements}
      \cup First
      \cup {G!ProgramOf(<<a, b>>) : a \in First, b \in Second}
      \cup {G!ProgramOf(<<a, b, c>>) : a \in First, b \in Second, c \in Third}

MCInputs == {G!ProgramText(p) : p \in Programs}

-----------------------------------------------------------------------------
RECURSIVE TreeOf(_)
TreeOf(v) ==
    IF v = NULL THEN Nil
    ELSE <<nodes[v].tok, TreeOf(nodes[v].left), TreeOf(nodes[v].right)>>

(* A program of the grammar is accepted without a message, and the tree    *)
(* built for it is the one its text was made from: operators bind and      *)
(* associate as the grammar says, an else-part belongs to its if, lists,   *)
(* statements and functions come in the order of the text.                 *)
ParsesBack ==
    status # "running" =>
        /\ status = "accepted" /\ ~logged
        /\ TreeOf(nodes[root].left) \in Programs
        /\ G!ProgramText(TreeOf(nodes[root].left)) = tokens

(* What ast::dtor frees, the tree, is all there is besides the identifiers *)
(* get_func_call_ has freed: the attempts that failed have left nothing.   *)
AcceptLeavesNothing ==
    status = "accepted" => Below(root) \cup freed = 1..Len(nodes)
=============================================================================
