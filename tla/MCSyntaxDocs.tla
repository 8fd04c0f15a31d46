---------------------------- MODULE MCSyntaxDocs ----------------------------
(***************************************************************************)
(* What src/README.md and the code's own messages say of the syntax        *)
(* analyzer, and it does not do.  Each claim is the property of one run,   *)
(* which finds a text that refutes it.                                     *)
(***************************************************************************)
EXTENDS MCSyntaxFuzz

Accepted == status = "accepted"

(* README.md:13, GENERAL ::= FUNCTION_DECL+'\0': an accepted text is        *)
(* nothing but declarations.  get_program_ stops at one that fails, and if *)
(* it fails at the terminator the rest is accepted without it.              *)
AllFunctionsKept ==
    Accepted => Cardinality(Declared)
                  = Cardinality({i \in 1..Len(tokens) : tokens[i] = "defun"})

UnfinishedTexts ==
    Texts(<< >>, {<<"defun", "f", "(", ")", "{", "1", ";", "}">>, <<"defun", "g", "(">>},
          2, {<< >>})

(* frontend_main.cpp:71-73, a syntax error is reported and the compiler     *)
(* exits.  get_general_ frees again what get_func_call_ has freed, and the *)
(* process ends there.                                                     *)
SyntaxErrorReported ==
    At("general_end") => (Cur = Terminator /\ ret # NULL) \/ ~FreedTwice

BrokenTexts == Texts(Open, {<<"out">>, <<"x">>, <<"1">>}, 2, {Close})
=============================================================================
