--------------------------- MODULE MCCompilerDocs ---------------------------
(***************************************************************************)
(* What src/README.md says of programs and the back end does not do.  The  *)
(* claim is the property of one run.                                       *)
(***************************************************************************)
EXTENDS MCCompiler

(* README.md:32, ARGUMENT_LIST ::= { EXPRESSION { ',' EXPRESSION }* }, and   *)
(* a FUNCTION_CALL is an expression: an argument may be a call.  One that  *)
(* is not the last overwrites the arguments handed over before it.         *)
ArgumentsArrive == power = "halted" => AsMeant

NestingTexts ==
    { Text(<<Difference, Main(Two \o <<Answer(CallOf("f", a))>>)>>) :
        a \in {<<x, CallOf("f", <<x, y>>)>>, <<CallOf("f", <<x, y>>), x>>} }
=============================================================================
