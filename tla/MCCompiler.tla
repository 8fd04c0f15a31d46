----------------------------- MODULE MCCompiler -----------------------------
(***************************************************************************)
(* Small programs.  They keep to what the back end can do: an argument     *)
(* that is a call is the last one, every path ends in a return, and the    *)
(* stack stays below the cells of ramset.  Those of the second part have   *)
(* gaps, and | and &.                                                      *)
(***************************************************************************)
EXTENDS Compiler

G == INSTANCE Grammar
Unbounded(n) == n
Meaning == INSTANCE Semantics WITH Word <- Unbounded

MCValue == [t \in {"0", "1", "2", "3"} |->
              CASE t = "0" -> 0 [] t = "1" -> 1 [] t = "2" -> 2 [] t = "3" -> 3]

L(tok) == G!Leaf(tok)
x == L("x")
y == L("y")
z == L("z")
Do(keyword, e) == <<keyword, e, G!Nil>>
Answer(e) == Do("return", e)
Minus(a, b) == G!Binary("-", a, b)
Set(v, e) == G!Assign(v, e)
Block_(statements) == G!BlockOf(statements)
Loop(e, statements) == <<"while", e, Block_(statements)>>
When(e, statements) == <<"if", e, Block_(statements)>>
Choose(e, yes, no) == <<"if", e, <<"else", Block_(yes), Block_(no)>> >>
CallOf(f, arguments) == G!CallOf(f, G!ListOf(arguments))

Routine(f, parameters, statements) == G!FunctionOf(f, parameters, Block_(statements))
Main(statements) == Routine("main", << >>, statements)
Text(functions) == G!ProgramText(G!ProgramOf(functions))

(* The user types x, y is 2, and everything is built from these and a call *)
(* of a function of two parameters and a variable.                         *)
Difference == Routine("f", <<x, y>>, <<Set("z", Minus(x, y)), Answer(z)>>)
Two == <<Do("in", x), Set("y", L("2"))>>
Leaves == {x, CallOf("f", <<x, y>>), CallOf("f", <<y, CallOf("f", <<x, L("1")>>)>>)}
Simple == {G!Binary(op, a, y) : op \in {"+", "*", "/", "==", "!=", ">", "<="}, a \in Leaves}
            \cup {G!Binary("^", a, y) : a \in Leaves}
            \cup {G!Binary(op, y, a) : op \in {"-", "<", ">="}, a \in Leaves}
Nested == {Minus(a, b) : a \in {L("3")}, b \in Simple}
            \cup {G!Binary("<", b, a) : a \in Leaves, b \in Simple}
            \cup {G!Binary("+", G!Sqrt(G!Binary("^", a, y)), b) : a \in Leaves, b \in Leaves}

Expressions == { Text(<<Difference, Main(Two \o <<Answer(e)>>)>>) : e \in Nested }

(* Loops and conditions, one in the other and side by side. *)
Down(v) == Set(v, Minus(L(v), L("1")))
Bodies ==
    { <<Do("out", x)>>,
      <<Choose(G!Binary("==", x, L("1")), <<Do("out", y)>>, <<Set("y", x)>>)>>,
      <<When(y, <<When(G!Binary(">", y, x), <<Do("out", x)>>), Do("out", y)>>)>>,
      <<Set("y", L("2")), Loop(y, <<Down("y"), Do("out", y)>>)>>,
      <<<<"ramset", x, G!Binary("*", x, y)>> >>,
      <<Set("y", CallOf("f", <<x, y>>))>>,
      <<When(CallOf("f", <<x, y>>), <<Answer(y)>>)>> }

Control ==
    { Text(<<Difference, Main(Two \o <<Loop(G!Binary(">", x, L("0")), a \o <<Down("x")>>)>>
                                  \o b \o <<Answer(y)>>)>>) : a, b \in Bodies }

(* Functions: recursion, a recursive function that calls another one, and the order of  *)
(* three arguments.  The first function has the most variables.            *)
Factorial == Routine("f", <<x>>, << When(G!Binary("<", x, L("2")), <<Answer(L("1"))>>),
                 Answer(G!Binary("*", CallOf("f", <<Minus(x, L("1"))>>), x)), Set("z", x), Set("y", x), Set("g", x) >>)
Power == Routine("g", <<y, x>>, << When(G!Binary("==", y, L("0")), <<Answer(L("1"))>>),
             Set("z", CallOf("g", <<x, Minus(y, L("1"))>>)), Answer(G!Binary("*", z, CallOf("f", <<x>>))) >>)
Three == Routine("f", <<x, y, z>>, << Answer(Minus(G!Binary("*", x, y), z)) >>)
UsesThree == Routine("g", <<z>>, << Set("x", CallOf("f", <<z, L("3"), Minus(z, L("1"))>>)), Answer(Minus(x, z)) >>)

Calls ==
    { Text(<<Factorial, Main(<<Do("in", x), Set("y", CallOf("f", <<x>>)), Do("out", x), Answer(y)>>)>>),
      Text(<<Factorial, Power, Main(<<Do("in", x), Do("out", CallOf("g", <<x, L("1")>>)), Answer(x)>>)>>),
      Text(<<Three, UsesThree, Main(<<Do("in", x), Do("in", y), Do("out", CallOf("g", <<y>>)), Answer(x)>>)>>) }

(* A function of more variables than the first one, which writes below its *)
(* own frame: once, and after calls of itself and of the first one.        *)
Narrow == Routine("f", <<x, y>>, <<Answer(Minus(x, y))>>)
Wide == Routine("g", <<x, y>>, << Set("x", CallOf("f", <<x, y>>)), Set("z", Minus(y, x)), Answer(z) >>)
Deep(w) == Routine("g", <<x, y>>, << When(G!Binary("<", x, L("1")), <<Answer(y)>>),
               Set("z", CallOf("g", <<y, Minus(x, L("1"))>>)), Set("y", CallOf("f", <<y, x>>)), Set(w, x), Answer(z) >>)

Larger ==
    { Text(<<Narrow, wide, Main(<<Do("in", x), Set("y", CallOf("g", <<L("1"), x>>)), Do("out", y), Answer(x)>>)>>) :
        wide \in {Wide, Deep("z"), Deep("f")} }

(* A division whose divisor the user chooses. *)
Divisions == { Text(<<Main(Two \o <<Answer(G!Binary("/", y, Minus(x, L("1"))))>>)>>) }

Whole == Expressions \cup Control \cup Calls \cup Larger \cup Divisions

-----------------------------------------------------------------------------
(* Programs with gaps, in main or in another function, in front of what    *)
(* would have been translated, and below | and &, which nobody translates. *)
Gapped ==
    {Minus(G!Nil, x), Minus(x, G!Nil), G!Binary("==", G!Nil, x), G!Binary("<", x, G!Nil),
     G!Sqrt(G!Nil), G!Binary("*", y, G!Sqrt(G!Nil)), CallOf("f", <<x, G!Nil>>), CallOf("f", <<G!Nil, x>>)}
Around(e) ==
    {e, G!Binary("+", e, y), G!Binary(">", x, e), G!Binary("|", y, G!Binary("+", x, e)),
     CallOf("f", <<G!Binary("&", e, x), y>>)}
Placed(e) ==
    {Answer(e), Do("out", e), Set("y", e), Loop(e, <<Answer(y)>>), When(x, <<Set("z", e)>>),
     Choose(x, <<Do("out", y)>>, <<Answer(e)>>)}

WithGap == UNION {Placed(e) : e \in UNION {Around(g) : g \in Gapped \cup {x}}}

(* A statement that is not written as the grammar has it, as its tokens. *)
Unwritten ==
    { <<"if", "x", "else", "{", "return", "y", ";", "}">>, <<"if", "x", "while", "y", "{", "x", ";", "}">>,
      <<"if", "x", "|", "y", "else", "{", ";", "}">>, <<"in", ";">>, <<"x", ";">>, <<";">> }

GapInputs ==
    { Text(<<Difference, Main(<<s, Answer(x)>>)>>) : s \in WithGap }
      \cup { Text(<<Difference, Routine("g", <<x>>, <<s, Answer(x)>>), Main(<<Answer(CallOf("g", <<y>>))>>)>>) :
               s \in UNION {Placed(g) : g \in Gapped \cup {G!Binary("|", x, y)}} }
      \cup { <<"defun", "main", "(", ")", "{">> \o s \o <<"return", "x", ";", "}", "EOF">> : s \in Unwritten }

MCInputs == Whole \cup GapInputs

-----------------------------------------------------------------------------
(* Properties. *)

AsMeant ==
    LET meaning == Meaning!Run(Tree(nodes, Program), read)
        a == meaning.pixels
    IN  /\ printed = meaning.output
        /\ operands = <<meaning.value>>
        /\ \A p \in DOMAIN a : ram[p + Asm!RAM_STACK_SIZE] = a[p]

(* What the machine prints, stores and answers is what the text means, for *)
(* everything the user may type: operators take their operands in order,   *)
(* loops and conditions take the right branch, and every name has a cell   *)
(* of its own for as long as its activation lasts.  This is so where no    *)
(* function has more variables than the first one; and a program with a    *)
(* gap, or with | or &, has no meaning or no translation.                  *)
ComputesMeaning ==
    power = "halted" /\ Overshoot = 0 /\ tokens \in Whole => AsMeant
=============================================================================
