----------------------------- MODULE Semantics -----------------------------
(***************************************************************************)
(* What a program of the language means, as an evaluation of its tree: the *)
(* reference the optimizer and the emitted code are compared with.         *)
(* Nothing here is part of the compiler.  A tree is Nil or <<token, left,  *)
(* right>>, as in Grammar.                                                 *)
(*                                                                         *)
(* A state is what the running activation's variables hold (vars), what is *)
(* still to be typed (input), what has been printed (output), the memory   *)
(* ramset writes (pixels), the last value, and whether the activation has  *)
(* returned.  A variable that has not been assigned is 0; the programs     *)
(* compared have none.  An activation has variables of its own, whoever    *)
(* called it.                                                              *)
(*                                                                         *)
(* One rule is the example's, not README.md's: the arguments of a call are *)
(* the parameters in reverse order.  src/example/quadratic.txt declares    *)
(* printRoots(a,b,c) and calls printRoots(c,b,a).                          *)
(***************************************************************************)
EXTENDS Integers, Sequences, SequencesExt

CONSTANTS Names,     \* the identifiers
          Value,     \* of a numeric literal
          Word(_)    \* the number a machine word holds after a computation

Nil == << >>

RECURSIVE Items(_)
Items(list) ==      \* of a "," list, which nests to the left
    IF list = Nil THEN << >>
    ELSE IF list[1] = "," THEN Append(Items(list[2]), list[3])
    ELSE <<list>>

RECURSIVE FunctionsOf(_)
FunctionsOf(program) ==
    IF program[1] = "{" THEN FunctionsOf(program[2]) \o FunctionsOf(program[3])
    ELSE <<program>>

Declaration(program, name) ==
    LET functions == FunctionsOf(program)
    IN  functions[SelectInSeq(functions, LAMBDA f : f[1] = name)]

Truth(b) == IF b THEN 1 ELSE 0

Magnitude(n) == IF n < 0 THEN -n ELSE n
Divided(a, b) ==
    LET q == Magnitude(a) \div Magnitude(b) IN IF (a < 0) = (b < 0) THEN q ELSE -q

(* The number whose two's complement has the bits at which a and b have    *)
(* one (all = FALSE) or both (all = TRUE) a 1.                             *)
RECURSIVE Bitwise(_, _, _)
Bitwise(a, b, all) ==
    LET one == IF all THEN a % 2 = 1 /\ b % 2 = 1 ELSE a % 2 = 1 \/ b % 2 = 1
    IN  IF {a, b} \subseteq {0, -1} THEN -Truth(one)
        ELSE 2 * Bitwise(a \div 2, b \div 2, all) + Truth(one)

Apply(op, a, b) ==
    CASE op = "+" -> Word(a + b) [] op = "-" -> Word(a - b) [] op = "*" -> Word(a * b)
      [] op = "/" -> Word(Divided(a, b)) [] op = "^" -> Word(a ^ b)
      [] op = "|" -> Bitwise(a, b, FALSE) [] op = "&" -> Bitwise(a, b, TRUE)
      [] op = "==" -> Truth(a = b) [] op = "!=" -> Truth(a # b)
      [] op = ">" -> Truth(a > b) [] op = "<" -> Truth(a < b)
      [] op = ">=" -> Truth(a >= b) [] op = "<=" -> Truth(a <= b)

SquareRoot(a) == CHOOSE r \in 0..a : r * r <= a /\ (r + 1) * (r + 1) > a

Blank == [n \in Names |-> 0]

RECURSIVE Eval(_, _, _), Exec(_, _, _), EvalAll(_, _, _)

(* The state after the expression e; its value is in the field value. *)
Eval(program, e, s) ==
    IF e[1] \in DOMAIN Value THEN [s EXCEPT !.value = Value[e[1]]]
    ELSE IF e[1] \in Names THEN [s EXCEPT !.value = s.vars[e[1]]]
    ELSE IF e[1] = "@"
    THEN LET a == Eval(program, e[2], s) IN [a EXCEPT !.value = SquareRoot(@)]
    ELSE IF e[1] = "call"
    THEN LET d == Declaration(program, e[2][1])
             parameters == Items(d[2])
             done == EvalAll(program, Items(e[3]), [s EXCEPT !.values = << >>])
             handed == [n \in Names |->
                          LET k == SelectInSeq(parameters, LAMBDA p : p[1] = n)
                          IN  IF k = 0 THEN 0 ELSE done.values[Len(done.values) + 1 - k]]
             after == Exec(program, d[3], [done EXCEPT !.vars = handed])
         IN  [after EXCEPT !.vars = s.vars, !.values = s.values, !.returned = FALSE]
    ELSE LET a == Eval(program, e[2], s)
             b == Eval(program, e[3], a)
         IN  [b EXCEPT !.value = Apply(e[1], a.value, b.value)]

(* The values of a list of expressions. *)
EvalAll(program, list, s) ==
    IF list = << >> THEN s
    ELSE LET a == Eval(program, Head(list), s)
         IN  EvalAll(program, Tail(list), [a EXCEPT !.values = Append(s.values, a.value)])

(* The state after the statement or block b. *)
Exec(program, b, s) ==
    IF b = Nil \/ s.returned THEN s
    ELSE CASE b[1] = ";" -> Exec(program, b[3], Exec(program, b[2], s))
      [] b[1] = "=" ->
            LET a == Eval(program, b[3], s) IN [a EXCEPT !.vars[b[2][1]] = a.value]
      [] b[1] = "in" ->
            [s EXCEPT !.vars[b[2][1]] = Head(s.input), !.input = Tail(@)]
      [] b[1] = "out" ->
            LET a == Eval(program, b[2], s) IN [a EXCEPT !.output = Append(@, a.value)]
      [] b[1] = "ramset" ->
            LET a == Eval(program, b[2], s)
                c == Eval(program, b[3], a)
            IN  [c EXCEPT !.pixels = (a.value :> c.value) @@ @]
      [] b[1] = "return" ->
            LET a == Eval(program, b[2], s) IN [a EXCEPT !.returned = TRUE]
      [] b[1] = "if" ->
            LET a == Eval(program, b[2], s)
                branch == IF b[3][1] # "else"
                          THEN IF a.value # 0 THEN b[3] ELSE Nil
                          ELSE IF a.value # 0 THEN b[3][2] ELSE b[3][3]
            IN  Exec(program, branch, a)
      [] b[1] = "while" ->
            LET a == Eval(program, b[2], s)
            IN  IF a.value = 0 THEN a ELSE Exec(program, b, Exec(program, b[3], a))
      [] OTHER -> Eval(program, b, s)

(* main, with what the user types. *)
Run(program, input) ==
    Exec(program, Declaration(program, "main")[3],
         [vars |-> Blank, input |-> input, output |-> << >>, pixels |-> << >>,
          value |-> 0, values |-> << >>, returned |-> FALSE])
=============================================================================
