---------------------------- MODULE MCMiddleEnd ----------------------------
(***************************************************************************)
(* Small programs for the middle end: constants of every operator in every *)
(* place an expression can stand, and returns with something after them.   *)
(* An int has Width bits, so that constants overflow.                      *)
(***************************************************************************)
EXTENDS MiddleEnd

G == INSTANCE Grammar
Ints == INSTANCE Evaluate
Meaning == INSTANCE Semantics WITH Word <- Ints!Word

(* The literals a text has, and those only an optimized tree has. *)
MCValue == [t \in {ToString(n) : n \in {Ints!Word(k) : k \in 0 .. 2^Width - 1}} |->
               CHOOSE n \in {Ints!Word(k) : k \in 0 .. 2^Width - 1} : ToString(n) = t]

L(tok) == G!Leaf(tok)
x == L("x")
y == L("y")
Do(keyword, e) == <<keyword, e, G!Nil>>
Set(v, e) == G!Assign(v, e)
Answer(e) == Do("return", e)
Of(op, a, b) == G!Binary(op, a, b)
When(e, statements) == <<"if", e, G!BlockOf(statements)>>
Choose(e, yes, no) == <<"if", e, <<"else", G!BlockOf(yes), G!BlockOf(no)>> >>
Loop(e, statements) == <<"while", e, G!BlockOf(statements)>>
CallOf(f, arguments) == G!CallOf(f, G!ListOf(arguments))

Routine(f, parameters, statements) == G!FunctionOf(f, parameters, G!BlockOf(statements))
Main(statements) == Routine("main", << >>, <<Do("in", x)>> \o statements)
Text(functions) == G!ProgramText(G!ProgramOf(functions))

(* Constants: two operators, one below the other on either side.           *)
Two == L("2")
Seven == L("7")
Three == L("3")
Pairs == {Of(op, Seven, Two) : op \in G!BinaryOperators}
           \cup {Of(op, Two, Seven) : op \in {"-", "/", "<", "|"}}
Constants == {Of(op, a, Three) : op \in G!BinaryOperators, a \in Pairs}
               \cup {Of(op, Three, a) : op \in G!BinaryOperators \ {"^", "/"}, a \in Pairs}
               \cup {Of("*", a, Of("-", Two, Seven)) : a \in Pairs}

Folding == { Text(<<Main(<<Do("out", Of("+", c, x)), Answer(c)>>)>>) : c \in Constants }

(* Constants in conditions, arguments, assignments and addresses, next to  *)
(* names and to calls.                                                     *)
Five == Of("+", Two, Three)
Double == Routine("f", <<y>>, <<Answer(Of("*", y, Of("-", Three, L("1"))))>>)
Places ==
    { <<Set("y", Five)>>,
      <<Choose(Of(">", Five, Two), <<Do("out", Two)>>, <<Do("out", x)>>)>>,
      <<When(Of("==", Of("+", x, Five), Five), <<Answer(Five)>>), Set("y", Three)>>,
      <<Set("y", CallOf("f", <<Five>>))>>,
      <<Set("y", Of("+", CallOf("f", <<Of("*", Two, x)>>), Of("*", Two, Two)))>>,
      <<Loop(Of("<", x, Five), <<Set("x", Of("+", x, Of("-", Three, L("1"))))>>)>>,
      <<<<"ramset", Of("-", Seven, Five), Of("+", x, Of("^", Two, Two))>> >> }

InPlaces == { Text(<<Double, Main(a \o b \o <<Answer(x)>>)>>) : a, b \in Places }

(* What comes after a return: in a block of its own, in a loop, in front   *)
(* of more, and a return after a return.                                   *)
Dead == <<Set("y", Five), Do("out", y), Answer(Of("+", y, Five))>>
Returning ==
    { <<Answer(x)>> \o Dead,
      <<When(x, <<Answer(Five)>> \o Dead)>> \o Dead,
      <<Choose(Of("<", x, Two), <<Do("out", x)>>, <<Answer(x)>> \o Dead)>> \o Dead,
      <<Loop(Of(">", x, L("0")), <<Do("out", x), Answer(Two)>> \o Dead)>> \o Dead,
      Dead \o Dead \o Dead }

DeadCode ==
    { Text(<<Routine("f", <<x>>, a), Main(<<Do("out", CallOf("f", <<x>>))>> \o b)>>) :
        a, b \in Returning }

(* Constants without a value, and a statement that is none.                *)
Valueless ==
    { Text(<<Main(<<Do("out", x), Answer(e)>>)>>) :
        e \in { Of("/", Two, Of("-", Three, Three)), G!Sqrt(L("4")), Of("-", G!Nil, L("1")),
                Of("+", x, Of("*", Two, G!Sqrt(Five))),
                Of("/", Of("*", Of("-", L("0"), L("4")), L("4")), Of("-", L("0"), L("1"))) } }
      \cup { <<"defun", "main", "(", ")", "{", "x", ";", "return", "1", ";", "}", "EOF">> }

(* Functions with parameters, alone: their file is the parameters. *)
Alone == { Text(<<Routine("main", <<x>>, <<Answer(Five)>>)>>) }

MCInputs == Folding \cup InPlaces \cup DeadCode \cup Valueless \cup Alone

-----------------------------------------------------------------------------
(* Properties. *)

(* The optimized tree means what the text means, whatever is typed: folding *)
(* gives the value an int of the machine would have, and what is cut off   *)
(* behind a return is never reached.                                       *)
MeaningKept ==
    phase = "optimized" => \A n \in Typed :
        LET before == Meaning!Run(Tree(nodes, Program), <<n>>)
            after == Meaning!Run(Tree(r_nodes, r_root), <<n>>)
        IN  /\ after.output = before.output
            /\ after.value = before.value
            /\ after.pixels = before.pixels

(* What optimize has a reason to refuse in the tree t: a constant without a *)
(* value, or a statement that is none.                                     *)
RECURSIVE IsConstant(_), Values(_), Refused(_)
IsConstant(t) == t = G!Nil \/ (t[1] \notin Names /\ IsConstant(t[2]) /\ IsConstant(t[3]))

Values(t) ==      \* one, or none
    IF t = G!Nil THEN {}
    ELSE IF t[1] \in Opt!Operators
    THEN {Ints!Computed(t[1], p[1], p[2]) :
            p \in {q \in Values(t[2]) \X Values(t[3]) : ~Ints!Traps(t[1], q[1], q[2])}}
    ELSE IF t[1] \in DOMAIN Value THEN {Value[t[1]]} ELSE {0}

Refused(t) ==
    /\ t # G!Nil
    /\ \/ t[1] = ";" /\ t[2] = G!Nil
       \/ t[1] \in Opt!Operators /\ IsConstant(t) /\ Values(t) = {}
       \/ Refused(t[2])
       \/ Refused(t[3])

(* The loop of optimize ends, and nothing but a reason in the program ends  *)
(* the process before it does: not an operand or a parent that a fold      *)
(* before has taken away.                                                  *)
OptimizeEnds ==
    outcome = "read" ~>
        \/ phase \in {"written", "done"}
        \/ phase = "aborted" /\ (reduced # NoFile \/ Refused(Tree(nodes, Program)))
=============================================================================
